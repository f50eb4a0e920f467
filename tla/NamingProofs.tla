---------------------------- MODULE NamingProofs ----------------------------
(***************************************************************************)
(* add and import by real names, for every alphabet, tree, set of records  *)
(* and of ids asked for.  In order: slugify; the numbers mint_id_with      *)
(* appends, and the id it returns; the inductive invariant of Naming and   *)
(* its theorems; the refinement of Registry; and realpath, which recurs as *)
(* Decimal does: the first argument at which no function would do leads to *)
(* one, closer to the end, at which one does.                              *)
(***************************************************************************)
EXTENDS Naming, FiniteSetTheorems, WellFoundedInduction, TLAPS

LEMMA MinOfPositions ==
  ASSUME NEW S \in SUBSET Nat, S # {}
  PROVE  Min(S) \in S /\ \A n \in S : Min(S) <= n
<1> DEFINE less == {pair \in Nat \X Nat : pair[1] < pair[2]}
<1>1. IsWellFoundedOn(less, Nat)
  BY NatLessThanWellFounded, Zenon DEF OpToRel
<1>2. PICK first \in S : \A n \in S : <<n, first>> \notin less
  <2> HIDE DEF less
  <2> QED BY <1>1, WFMin
<1>3. ASSUME NEW n \in S PROVE first <= n
  <2> DEFINE pair == <<n, first>>
  <2>1. pair \in Nat \X Nat /\ pair[1] = n /\ pair[2] = first
    OBVIOUS
  <2>2. ~(n < first)
    BY <1>2, <2>1
  <2> QED BY <2>2
<1> QED BY <1>3 DEF Min

\* The last position is the first one counted from the other end.
LEMMA MaxOfPositions ==
  ASSUME NEW len \in Nat, NEW S \in SUBSET (1..len), S # {}
  PROVE  Max(S) \in S /\ \A n \in S : n <= Max(S)
<1> DEFINE T == {len - n : n \in S}
<1>1. T \in SUBSET Nat /\ T # {}
  <2>1. \A n \in S : len - n \in Nat
    OBVIOUS
  <2>2. PICK n \in S : TRUE
    OBVIOUS
  <2>3. len - n \in T
    OBVIOUS
  <2> QED BY <2>1, <2>3
<1>2. Min(T) \in T /\ \A k \in T : Min(T) <= k
  <2> HIDE DEF T
  <2> QED BY <1>1, MinOfPositions
<1>3. PICK last \in S : Min(T) = len - last
  BY <1>2
<1>4. \A n \in S : n <= last
  <2> SUFFICES ASSUME NEW n \in S PROVE n <= last
    OBVIOUS
  <2>1. len - n \in T
    OBVIOUS
  <2>2. len - last <= len - n
    BY <1>2, <1>3, <2>1
  <2> QED BY <2>2
<1> QED BY <1>4 DEF Max

\* Cleaning leaves the length, and nothing a slug may not hold.
LEMMA CleanedHasSlugChars ==
  ASSUME NEW stem \in Strings
  PROVE  /\ Cleaned(stem) \in Strings /\ Len(Cleaned(stem)) = Len(stem)
         /\ \A i \in 1..Len(stem) : IsSlugChar(Cleaned(stem)[i])
<1>1. DOMAIN stem = 1..Len(stem) /\ Len(stem) \in Nat
      /\ \A i \in 1..Len(stem) : stem[i] \in Chars
  BY DEF Strings
<1>2. Dash \in Chars /\ IsSlugChar(Dash)
  BY CharsAssumption DEF Marks, IsSlugChar
<1>3. \A c \in Chars : LowerOf[c] \in Chars
  BY LowerAssumption
<1> DEFINE made(i) == IF IsSlugChar(LowerOf[stem[i]]) THEN LowerOf[stem[i]] ELSE Dash
<1>4. \A i \in 1..Len(stem) : made(i) \in Chars /\ IsSlugChar(made(i))
  BY <1>1, <1>2, <1>3
<1>5. Cleaned(stem) = [i \in 1..Len(stem) |-> made(i)]
  BY <1>1 DEF Cleaned
<1> HIDE DEF made
<1> QED BY <1>1, <1>4, <1>5 DEF Strings

(***************************************************************************)
(* What a stem is turned into is a valid id, however odd the stem, the     *)
(* empty one included: an id that is derived is never refused.             *)
(***************************************************************************)
THEOREM SlugifyIsSlug ==
  ASSUME NEW stem \in Strings
  PROVE  Slugify(stem) \in Strings /\ IsValidSlug(Slugify(stem))
<1> DEFINE out == Cleaned(stem)
<1>1. out \in Strings /\ \A i \in DOMAIN out : IsSlugChar(out[i])
  BY CleanedHasSlugChars DEF Strings
<1> HIDE DEF out
<1>2. DOMAIN out = 1..Len(out) /\ Len(out) \in Nat
  BY <1>1 DEF Strings
<1>3. CASE StartsIn(out) = {}
  <2>1. Slugify(stem) = Fallback
    BY <1>3 DEF Slugify, out
  <2>2. \A i \in 1..5 : Fallback[i] \in Alnum
    BY CharsAssumption DEF Fallback
  <2>3. Fallback \in Seq(Alnum) /\ Len(Fallback) = 5
    BY CharsAssumption DEF Fallback
  <2>4. Alnum \subseteq Chars
    BY CharsAssumption
  <2>5. Fallback \in Strings /\ Fallback # <<>> /\ DOMAIN Fallback = 1..5
    <3> DEFINE id == Fallback
    <3>1. id \in Seq(Chars) /\ Len(id) = 5 /\ Len(<<>>) = 0
      BY <2>3, <2>4
    <3> HIDE DEF id
    <3>2. id \in Strings /\ DOMAIN id = 1..5
      BY <3>1 DEF Strings
    <3>3. id # <<>>
      BY <3>1
    <3> QED BY <3>2, <3>3 DEF id
  <2>6. IsValidSlug(Fallback)
    <3> DEFINE id == Fallback
    <3>1. id # <<>> /\ DOMAIN id = 1..5 /\ \A i \in 1..5 : id[i] \in Alnum
      BY <2>2, <2>5
    <3> HIDE DEF id
    <3>2. IsValidSlug(id)
      BY <3>1 DEF IsValidSlug, IsSlugStart, IsSlugChar
    <3> QED BY <3>2 DEF id
  <2> QED BY <2>1, <2>5, <2>6
<1>4. CASE StartsIn(out) # {}
  <2> DEFINE first == Min(StartsIn(out))
             last  == Max(NotDashes(out))
  <2>1. first \in StartsIn(out)
    BY <1>2, <1>4, MinOfPositions DEF StartsIn
  <2>2. first \in 1..Len(out) /\ IsSlugStart(out[first])
    BY <1>2, <2>1 DEF StartsIn
  <2>3. first \in NotDashes(out)
    BY <1>2, <2>2, CharsAssumption DEF NotDashes, IsSlugStart, Marks
  <2>4. NotDashes(out) \in SUBSET (1..Len(out))
    BY <1>2 DEF NotDashes
  <2>5. last \in 1..Len(out) /\ first <= last
    <3>1. NotDashes(out) # {}
      BY <2>3
    <3>2. last \in NotDashes(out) /\ \A n \in NotDashes(out) : n <= last
      BY <1>2, <2>4, <3>1, MaxOfPositions
    <3> QED BY <2>3, <2>4, <3>2
  <2>6. Slugify(stem) = SubSeq(out, first, last)
    BY <1>4 DEF Slugify, out
  <2> HIDE DEF first, last
  <2> DEFINE id == SubSeq(out, first, last)
  <2>7. /\ id \in Seq(Chars) /\ DOMAIN id = 1..(last - first + 1)
        /\ \A i \in 1..(last - first + 1) : id[i] = out[first + i - 1]
    BY <1>1, <2>2, <2>5 DEF Strings
  <2>8. 1 \in DOMAIN id /\ id[1] = out[first]
    BY <2>2, <2>5, <2>7
  <2>9. \A i \in DOMAIN id : IsSlugChar(id[i])
    BY <1>1, <1>2, <2>2, <2>5, <2>7
  <2>10. id # <<>>
    <3> HIDE DEF id
    <3>1. DOMAIN <<>> = {}
      OBVIOUS
    <3> QED BY <2>8, <3>1
  <2>11. Slugify(stem) = id
    BY <2>6
  <2> HIDE DEF id
  <2>12. IsValidSlug(id)
    BY <2>2, <2>8, <2>9, <2>10 DEF IsValidSlug
  <2> QED BY <2>7, <2>11, <2>12 DEF Strings
<1> QED BY <1>3, <1>4

(***************************************************************************)
(* The number at the end of a minted id.  Decimal recurs on the number     *)
(* without its last digit; the first number at which that would fail has   *)
(* a shorter one where it does not.                                        *)
(***************************************************************************)
Numerals == Seq(Alnum) \ {<<>>}

DecimalStep(f, n) ==
    IF n < 10 THEN <<Digit[n + 1]>> ELSE Append(f[n \div 10], Digit[(n % 10) + 1])

\* f is Decimal on the numbers up to k.
Counts(f, k) == f \in [0..k -> Numerals] /\ \A n \in 0..k : f[n] = DecimalStep(f, n)

LEMMA DropDigit ==
  ASSUME NEW n \in Nat
  PROVE  /\ n \div 10 \in Nat /\ n % 10 \in 0..9 /\ n = 10 * (n \div 10) + (n % 10)
         /\ n >= 10 => n \div 10 < n
OBVIOUS

LEMMA DigitsAreAlnum == \A d \in 1..10 : Digit[d] \in Alnum
BY CharsAssumption

LEMMA DigitsDiffer == \A c, d \in 1..10 : Digit[c] = Digit[d] => c = d
BY DEF Digit

LEMMA NumeralStep ==
  ASSUME NEW f, NEW n \in Nat, n >= 10 => f[n \div 10] \in Numerals
  PROVE  DecimalStep(f, n) \in Numerals
<1>1. CASE n < 10
  <2>1. Digit[n + 1] \in Alnum
    BY <1>1, DigitsAreAlnum
  <2> DEFINE c == Digit[n + 1]
  <2> HIDE DEF c
  <2>2. <<c>> \in Seq(Alnum) /\ Len(<<c>>) = 1 /\ Len(<<>>) = 0
    BY <2>1 DEF c
  <2>3. <<c>> \in Numerals
    BY <2>2 DEF Numerals
  <2> QED BY <1>1, <2>3 DEF DecimalStep, c
<1>2. CASE n >= 10
  <2> DEFINE s == f[n \div 10]  c == Digit[(n % 10) + 1]
  <2>1. s \in Seq(Alnum)
    BY <1>2 DEF Numerals
  <2>2. c \in Alnum
    BY DropDigit, DigitsAreAlnum
  <2> HIDE DEF s, c
  <2>3. Append(s, c) \in Seq(Alnum) /\ Len(Append(s, c)) = Len(s) + 1 /\ Len(s) \in Nat
        /\ Len(<<>>) = 0
    BY <2>1, <2>2
  <2>4. Append(s, c) \in Numerals
    BY <2>3 DEF Numerals
  <2> QED BY <1>2, <2>4 DEF DecimalStep, s, c
<1> QED BY <1>1, <1>2

\* On the numbers both cover, two such functions agree.
LEMMA CountsAgree ==
  ASSUME NEW j \in Nat, NEW k \in Nat, NEW f, NEW g, Counts(f, j), Counts(g, k),
         NEW n \in Nat, n <= j, n <= k
  PROVE  f[n] = g[n]
<1> DEFINE odd == {m \in 0..j : m <= k /\ f[m] # g[m]}
<1>1. SUFFICES ASSUME odd # {} PROVE FALSE
  <2>1. f[n] # g[n] => n \in odd
    OBVIOUS
  <2> QED BY <1>1, <2>1
<1> DEFINE m == Min(odd)
<1>2. m \in odd /\ \A i \in odd : m <= i
  <2>1. odd \in SUBSET Nat
    OBVIOUS
  <2> HIDE DEF odd
  <2> QED BY <1>1, <2>1, MinOfPositions
<1> HIDE DEF m
<1>3. m \in Nat /\ m <= j /\ m <= k /\ f[m] # g[m]
  BY <1>2
<1>4. f[m] = DecimalStep(f, m) /\ g[m] = DecimalStep(g, m)
  BY <1>3 DEF Counts
<1>5. CASE m < 10
  BY <1>3, <1>4, <1>5 DEF DecimalStep
<1>6. CASE m >= 10
  <2>1. m \div 10 \in Nat /\ m \div 10 < m
    BY <1>3, <1>6, DropDigit
  <2>2. m \div 10 \notin odd
    <3> HIDE DEF odd
    <3> QED BY <1>2, <1>3, <2>1
  <2>3. f[m \div 10] = g[m \div 10]
    BY <1>3, <2>1, <2>2
  <2> QED BY <1>3, <1>4, <1>6, <2>3 DEF DecimalStep
<1> QED BY <1>3, <1>5, <1>6

LEMMA CountsExist == ASSUME NEW k \in Nat PROVE \E f : Counts(f, k)
<1> DEFINE stuck == {n \in Nat : ~\E f : Counts(f, n)}
<1>1. SUFFICES ASSUME stuck # {} PROVE FALSE
  OBVIOUS
<1> DEFINE n == Min(stuck)
<1>2. n \in stuck /\ \A i \in stuck : n <= i
  <2>1. stuck \in SUBSET Nat
    OBVIOUS
  <2> HIDE DEF stuck
  <2> QED BY <1>1, <2>1, MinOfPositions
<1> HIDE DEF n
<1>3. n \in Nat /\ ~\E f : Counts(f, n)
  BY <1>2
<1>4. CASE n = 0
  <2> DEFINE f == [i \in 0..0 |-> DecimalStep(<<>>, 0)]
  <2>1. DecimalStep(<<>>, 0) \in Numerals
    BY NumeralStep
  <2>2. f \in [0..0 -> Numerals] /\ f[0] = DecimalStep(<<>>, 0)
    BY <2>1
  <2> HIDE DEF f
  <2>3. DecimalStep(<<>>, 0) = DecimalStep(f, 0)
    BY DEF DecimalStep
  <2>4. Counts(f, 0)
    BY <2>2, <2>3 DEF Counts
  <2> QED BY <1>3, <1>4, <2>4
<1>5. CASE n # 0
  <2>1. n - 1 \in Nat /\ n - 1 \notin stuck
    <3> HIDE DEF stuck
    <3> QED BY <1>2, <1>3, <1>5
  <2>2. PICK f : Counts(f, n - 1)
    BY <2>1
  <2> DEFINE g == [i \in 0..n |-> IF i = n THEN DecimalStep(f, n) ELSE f[i]]
  <2>3. f \in [0..(n - 1) -> Numerals]
    BY <2>2 DEF Counts
  <2>4. DecimalStep(f, n) \in Numerals
    <3>1. ASSUME n >= 10 PROVE f[n \div 10] \in Numerals
      <4>1. n \div 10 \in 0..(n - 1)
        BY <1>3, <3>1, DropDigit
      <4> QED BY <2>3, <4>1
    <3> QED BY <1>3, <3>1, NumeralStep
  <2>5. g \in [0..n -> Numerals]
    BY <1>3, <2>3, <2>4
  <2>6. \A i \in 0..n : i # n => g[i] = f[i] /\ i \in 0..(n - 1)
    BY <1>3
  <2>7. g[n] = DecimalStep(f, n)
    BY <1>3
  <2> HIDE DEF g
  <2>8. ASSUME NEW i \in 0..n PROVE g[i] = DecimalStep(g, i)
    <3>1. i >= 10 => g[i \div 10] = f[i \div 10]
      <4> SUFFICES ASSUME i >= 10 PROVE g[i \div 10] = f[i \div 10]
        OBVIOUS
      <4>1. i \div 10 \in 0..n /\ i \div 10 # n
        BY <1>3, DropDigit
      <4> QED BY <2>6, <4>1
    <3>2. g[i] = DecimalStep(f, i)
      <4>1. CASE i = n
        BY <2>7, <4>1
      <4>2. CASE i # n
        BY <2>2, <2>6, <4>2 DEF Counts
      <4> QED BY <4>1, <4>2
    <3> QED BY <1>3, <3>1, <3>2 DEF DecimalStep
  <2>9. Counts(g, n)
    BY <2>5, <2>8 DEF Counts
  <2> QED BY <1>3, <2>9
<1> QED BY <1>4, <1>5

LEMMA DecimalCounts ==
  Decimal \in [Nat -> Numerals] /\ \A n \in Nat : Decimal[n] = DecimalStep(Decimal, n)
<1> DEFINE upTo(k) == CHOOSE f : Counts(f, k)
           whole == [n \in Nat |-> upTo(n)[n]]
           Fits(f) == f = [n \in Nat |-> DecimalStep(f, n)]
<1>1. ASSUME NEW k \in Nat PROVE Counts(upTo(k), k)
  BY CountsExist
<1> HIDE DEF upTo
<1>2. ASSUME NEW k \in Nat, NEW n \in Nat, n <= k PROVE whole[n] = upTo(k)[n]
  BY <1>1, <1>2, CountsAgree
<1>3. ASSUME NEW n \in Nat PROVE whole[n] = DecimalStep(whole, n)
  <2>1. upTo(n)[n] = DecimalStep(upTo(n), n)
    BY <1>1 DEF Counts
  <2>2. n >= 10 => whole[n \div 10] = upTo(n)[n \div 10]
    BY <1>2, DropDigit
  <2>3. whole[n] = upTo(n)[n]
    OBVIOUS
  <2> HIDE DEF whole
  <2> QED BY <2>1, <2>2, <2>3 DEF DecimalStep
<1>4. Fits(whole)
  BY <1>3
<1> HIDE DEF whole
<1>5. Decimal = CHOOSE f : Fits(f)
  BY DEF Decimal, DecimalStep
<1>6. Fits(Decimal)
  <2> HIDE DEF Fits
  <2> QED BY <1>4, <1>5
<1>7. \A n \in Nat : Decimal[n] = DecimalStep(Decimal, n)
  BY <1>6
<1>8. Decimal = [n \in Nat |-> Decimal[n]]
  BY <1>6
<1> DEFINE odd == {n \in Nat : Decimal[n] \notin Numerals}
<1>9. ASSUME odd # {} PROVE FALSE
  <2> DEFINE n == Min(odd)
  <2>1. n \in odd /\ \A i \in odd : n <= i
    <3>1. odd \in SUBSET Nat
      OBVIOUS
    <3> HIDE DEF odd
    <3> QED BY <1>9, <3>1, MinOfPositions
  <2> HIDE DEF n
  <2>2. n \in Nat /\ Decimal[n] \notin Numerals
    BY <2>1
  <2>3. n >= 10 => n \div 10 \in Nat /\ n \div 10 \notin odd
    <3> HIDE DEF odd
    <3> QED BY <2>1, <2>2, DropDigit
  <2>4. DecimalStep(Decimal, n) \in Numerals
    BY <2>2, <2>3, NumeralStep
  <2> QED BY <1>7, <2>2, <2>4
<1> QED BY <1>7, <1>8, <1>9

LEMMA SameAppends ==
  ASSUME NEW T, NEW s \in Seq(T), NEW t \in Seq(T), NEW c \in T, NEW d \in T,
         Append(s, c) = Append(t, d)
  PROVE  s = t /\ c = d
<1>1. Len(s) + 1 = Len(t) + 1 /\ Len(s) \in Nat /\ Len(t) \in Nat
  OBVIOUS
<1>2. Len(s) = Len(t)
  BY <1>1
<1>3. \A i \in 1..Len(s) : s[i] = t[i]
  BY <1>2
<1>4. c = d
  BY <1>2
<1>5. s = t
  BY <1>2, <1>3
<1> QED BY <1>4, <1>5

LEMMA SameTails ==
  ASSUME NEW T, NEW u \in Seq(T), NEW s \in Seq(T), NEW t \in Seq(T), u \o s = u \o t
  PROVE  s = t
<1>1. Len(u) + Len(s) = Len(u) + Len(t) /\ Len(u) \in Nat /\ Len(s) \in Nat /\ Len(t) \in Nat
  OBVIOUS
<1>2. Len(s) = Len(t)
  BY <1>1
<1>3. \A i \in 1..Len(s) : (u \o s)[Len(u) + i] = s[i]
  OBVIOUS
<1>4. \A i \in 1..Len(t) : (u \o t)[Len(u) + i] = t[i]
  OBVIOUS
<1>5. \A i \in 1..Len(s) : s[i] = t[i]
  BY <1>2, <1>3, <1>4
<1> QED BY <1>2, <1>5

\* No two numbers are written alike.
LEMMA DecimalInjective ==
  ASSUME NEW m \in Nat, NEW n \in Nat, Decimal[m] = Decimal[n] PROVE m = n
<1> DEFINE twice == {i \in Nat : \E j \in Nat : Decimal[i] = Decimal[j] /\ i # j}
<1>1. SUFFICES ASSUME twice # {} PROVE FALSE
  OBVIOUS
<1> DEFINE i == Min(twice)
<1>2. i \in twice /\ \A k \in twice : i <= k
  <2>1. twice \in SUBSET Nat
    OBVIOUS
  <2> HIDE DEF twice
  <2> QED BY <1>1, <2>1, MinOfPositions
<1> HIDE DEF i
<1>3. PICK j \in Nat : Decimal[i] = Decimal[j] /\ i # j
  BY <1>2
<1>4. i \in Nat /\ j \in Nat /\ j \in twice /\ i < j
  <2>1. i \in Nat /\ j \in twice
    BY <1>2, <1>3
  <2> HIDE DEF twice
  <2> QED BY <1>2, <1>3, <2>1
<1>5. Decimal[i] = DecimalStep(Decimal, i) /\ Decimal[j] = DecimalStep(Decimal, j)
  BY <1>4, DecimalCounts
<1>6. CASE j < 10
  <2>1. <<Digit[i + 1]>> = <<Digit[j + 1]>>
    <3>1. i < 10
      BY <1>4, <1>6
    <3>2. Decimal[i] = <<Digit[i + 1]>>
      BY <1>5, <3>1 DEF DecimalStep
    <3>3. Decimal[j] = <<Digit[j + 1]>>
      BY <1>5, <1>6 DEF DecimalStep
    <3> QED BY <1>3, <3>2, <3>3
  <2>2. i + 1 \in 1..10 /\ j + 1 \in 1..10
    BY <1>4, <1>6
  <2>3. Digit[i + 1] = Digit[j + 1]
    BY <2>1
  <2> QED BY <1>3, <1>4, <2>2, <2>3, DigitsDiffer
<1>7. CASE j >= 10
  <2> DEFINE t == Decimal[j \div 10]  d == Digit[(j % 10) + 1]
  <2>1. t \in Numerals /\ d \in Alnum
    BY <1>4, DropDigit, DecimalCounts, DigitsAreAlnum
  <2>2. Decimal[j] = Append(t, d)
    BY <1>4, <1>5, <1>7 DEF DecimalStep
  <2>3. CASE i < 10
    <3> DEFINE c == Digit[i + 1]
    <3>1. Decimal[i] = <<c>>
      BY <1>4, <1>5, <2>3 DEF DecimalStep
    <3> HIDE DEF t, d, c
    <3>2. t \in Seq(Alnum) /\ Len(t) # 0
      BY <2>1 DEF Numerals
    <3>3. Len(Append(t, d)) = Len(t) + 1 /\ Len(<<c>>) = 1 /\ Len(t) \in Nat
      BY <2>1, <3>2
    <3> QED BY <1>3, <2>2, <3>1, <3>2, <3>3
  <2>4. CASE i >= 10
    <3> DEFINE s == Decimal[i \div 10]  c == Digit[(i % 10) + 1]
    <3>1. s \in Numerals /\ c \in Alnum
      BY <1>4, DropDigit, DecimalCounts, DigitsAreAlnum
    <3>2. Decimal[i] = Append(s, c)
      BY <1>4, <1>5, <2>4 DEF DecimalStep
    <3>3. s = t /\ c = d
      <4> HIDE DEF t, d, s, c
      <4> QED BY <1>3, <2>1, <2>2, <3>1, <3>2, SameAppends DEF Numerals
    <3>4. i \div 10 = j \div 10
      <4>1. i \div 10 \in Nat /\ i \div 10 < i /\ j \div 10 \in Nat
        BY <1>4, <1>7, <2>4, DropDigit
      <4>2. i \div 10 \notin twice
        <5> HIDE DEF twice
        <5> QED BY <1>2, <1>4, <4>1
      <4> QED BY <3>3, <4>1, <4>2
    <3>5. i % 10 = j % 10
      <4>1. (i % 10) + 1 \in 1..10 /\ (j % 10) + 1 \in 1..10 /\ i % 10 \in Nat /\ j % 10 \in Nat
        BY <1>4, DropDigit
      <4>2. (i % 10) + 1 = (j % 10) + 1
        BY <3>3, <4>1, DigitsDiffer
      <4> QED BY <4>1, <4>2
    <3> QED BY <1>3, <1>4, <3>4, <3>5, DropDigit
  <2> QED BY <1>4, <2>3, <2>4
<1> QED BY <1>4, <1>6, <1>7

(***************************************************************************)
(* mint_id_with, on strings.                                               *)
(***************************************************************************)
LEMMA CandidatesDiffer ==
  ASSUME NEW base \in Strings, NEW m \in Nat \ {0}, NEW n \in Nat \ {0},
         Candidate(base, m) = Candidate(base, n)
  PROVE  m = n
<1> DEFINE s == Decimal[m]  t == Decimal[n]
           u == base \o <<Dash>>
<1>1. Dash \in Chars /\ Alnum \subseteq Chars
  BY CharsAssumption DEF Marks
<1>2. s \in Seq(Chars) /\ t \in Seq(Chars)
  BY <1>1, DecimalCounts DEF Numerals
<1>3. base \in Seq(Chars) /\ Len(base) \in Nat
  BY DEF Strings
<1>4. u \in Seq(Chars) /\ Len(u) = Len(base) + 1
  <2> DEFINE c == Dash
  <2> HIDE DEF c
  <2>1. c \in Chars
    BY <1>1 DEF c
  <2>2. base \o <<c>> \in Seq(Chars) /\ Len(base \o <<c>>) = Len(base) + 1
    BY <1>3, <2>1
  <2> QED BY <2>2 DEF c
<1>5. Candidate(base, m) = (IF m = 1 THEN base ELSE u \o s)
      /\ Candidate(base, n) = (IF n = 1 THEN base ELSE u \o t)
  BY DEF Candidate
<1> HIDE DEF s, t, u
<1>6. Len(u \o s) # Len(base) /\ Len(u \o t) # Len(base)
  <2>1. Len(u \o s) = Len(u) + Len(s) /\ Len(u \o t) = Len(u) + Len(t)
        /\ Len(s) \in Nat /\ Len(t) \in Nat
    BY <1>2, <1>4
  <2> QED BY <1>3, <1>4, <2>1
<1>7. CASE m = 1 \/ n = 1
  BY <1>5, <1>6, <1>7
<1>8. CASE m # 1 /\ n # 1
  <2>1. u \o s = u \o t
    BY <1>5, <1>8
  <2>2. s = t
    BY <1>2, <1>4, <2>1, SameTails
  <2> QED BY <2>2, DecimalInjective DEF s, t
<1> QED BY <1>7, <1>8

LEMMA CandidateIsSlug ==
  ASSUME NEW base \in Strings, IsValidSlug(base), NEW n \in Nat
  PROVE  Candidate(base, n) \in Strings /\ IsValidSlug(Candidate(base, n))
<1>1. CASE n = 1
  BY <1>1 DEF Candidate
<1>2. CASE n # 1
  <2> DEFINE c == Dash  s == Decimal[n]  id == (base \o <<c>>) \o s
  <2>1. Candidate(base, n) = id
    BY <1>2 DEF Candidate
  <2>2. c \in Chars /\ IsSlugChar(c) /\ Alnum \subseteq Chars
    BY CharsAssumption DEF Marks, IsSlugChar
  <2>3. s \in Seq(Alnum)
    BY DecimalCounts DEF Numerals
  <2>4. base \in Seq(Chars) /\ Len(base) \in Nat /\ base # <<>>
    BY DEF IsValidSlug, Strings
  <2> HIDE DEF c, s
  <2>5. s \in Seq(Chars) /\ Len(s) \in Nat /\ \A i \in 1..Len(s) : IsSlugChar(s[i])
    BY <2>2, <2>3 DEF IsSlugChar, IsSlugStart
  <2>6. Len(base) >= 1
    BY <2>4
  <2>7. /\ id \in Seq(Chars) /\ Len(id) = Len(base) + 1 + Len(s)
        /\ \A i \in 1..Len(base) : id[i] = base[i]
        /\ id[Len(base) + 1] = c
        /\ \A i \in 1..Len(s) : id[Len(base) + 1 + i] = s[i]
    BY <2>2, <2>4, <2>5
  <2> HIDE DEF id
  <2>8. DOMAIN id = 1..Len(id) /\ Len(<<>>) = 0
    BY <2>7
  <2>9. \A i \in DOMAIN id : IsSlugChar(id[i])
    <3> SUFFICES ASSUME NEW i \in 1..Len(id) PROVE IsSlugChar(id[i])
      BY <2>8
    <3>1. CASE i \in 1..Len(base)
      BY <3>1, <2>4, <2>7 DEF IsValidSlug
    <3>2. CASE i = Len(base) + 1
      BY <3>2, <2>2, <2>7
    <3>3. CASE i > Len(base) + 1
      <4> DEFINE k == i - (Len(base) + 1)
      <4>1. k \in 1..Len(s) /\ i = Len(base) + 1 + k
        BY <2>4, <2>5, <2>7, <3>3
      <4> HIDE DEF k
      <4> QED BY <2>5, <2>7, <4>1
    <3> QED BY <2>4, <2>5, <2>7, <3>1, <3>2, <3>3
  <2>10. id # <<>> /\ id[1] = base[1]
    BY <2>5, <2>6, <2>4, <2>7, <2>8
  <2>11. IsValidSlug(id)
    BY <2>9, <2>10 DEF IsValidSlug
  <2> QED BY <2>1, <2>7, <2>11 DEF Strings
<1> QED BY <1>1, <1>2

\* The candidates the code goes through, up to the one past as many as are taken.
FreeNumbers(base, taken) ==
    {n \in 1..(Cardinality(taken) + 1) : Candidate(base, n) \notin taken}

LEMMA SomeNumberIsFree ==
  ASSUME NEW base \in Strings, NEW taken, IsFiniteSet(taken)
  PROVE  FreeNumbers(base, taken) # {}
<1> DEFINE tries == 1..(Cardinality(taken) + 1)
           candidate == [n \in tries |-> Candidate(base, n)]
<1>1. Cardinality(taken) \in Nat
  BY FS_CardinalityType
<1>2. IsFiniteSet(tries) /\ Cardinality(tries) = Cardinality(taken) + 1
  BY <1>1, FS_Interval
<1>3. SUFFICES ASSUME FreeNumbers(base, taken) = {} PROVE FALSE
  OBVIOUS
<1>4. candidate \in [tries -> taken]
  BY <1>3 DEF FreeNumbers
<1>5. Cardinality(taken) < Cardinality(tries)
  BY <1>1, <1>2
<1>6. PICK m, n \in tries : m # n /\ candidate[m] = candidate[n]
  <2> HIDE DEF tries, candidate
  <2> QED BY <1>2, <1>4, <1>5, FS_PigeonHole
<1>7. m \in Nat \ {0} /\ n \in Nat \ {0}
  BY <1>1
<1> QED BY <1>6, <1>7, CandidatesDiffer

(***************************************************************************)
(* mint_id_with ends, and its id is a slug that nobody has: the base name  *)
(* itself if that is free, else the one with the smallest free number.     *)
(***************************************************************************)
THEOREM MintedIsFresh ==
  ASSUME NEW base \in Strings, IsValidSlug(base), NEW taken, IsFiniteSet(taken)
  PROVE  /\ MintIdWith(base, taken) \in Strings /\ IsValidSlug(MintIdWith(base, taken))
         /\ \E n \in Nat \ {0} :
               /\ MintIdWith(base, taken) = Candidate(base, n)
               /\ Candidate(base, n) \notin taken
               /\ \A m \in 1..(n - 1) : Candidate(base, m) \in taken
<1> DEFINE free == FreeNumbers(base, taken)
           n == Min(free)
<1>1. Cardinality(taken) \in Nat
  BY FS_CardinalityType
<1>2. free \in SUBSET (Nat \ {0}) /\ free # {}
  BY <1>1, SomeNumberIsFree DEF FreeNumbers
<1>3. n \in free /\ \A m \in free : n <= m
  BY <1>2, MinOfPositions
<1>4. MintIdWith(base, taken) = Candidate(base, n)
  BY DEF MintIdWith, FreeNumbers
<1> HIDE DEF n
<1>5. n \in Nat \ {0} /\ n <= Cardinality(taken) + 1 /\ Candidate(base, n) \notin taken
  BY <1>1, <1>3 DEF FreeNumbers
<1>6. ASSUME NEW m \in 1..(n - 1) PROVE Candidate(base, m) \in taken
  <2>1. m \notin free
    <3> HIDE DEF free
    <3> QED BY <1>2, <1>3, <1>5
  <2>2. m \in 1..(Cardinality(taken) + 1)
    BY <1>1, <1>5
  <2> QED BY <2>1, <2>2 DEF FreeNumbers
<1> QED BY <1>4, <1>5, <1>6, CandidateIsSlug

(***************************************************************************)
(* What a command is given: a name resolved to a file.                     *)
(***************************************************************************)
\* A file inside the root, and the path that gets recorded for it.
Resolved(to) == to.at \in Files /\ Inside(to.at) /\ to.path = StoredForm(to.at)

LEMMA FilesBelowRoot ==
  ASSUME NEW at \in Files, Inside(at)
  PROVE  at \in Seq(Names) /\ at # <<>> /\ Len(Root) < Len(at)
<1>1. at \in Seq(Names) /\ Root \in Seq(Names)
  BY TreeAssumption DEF Files
<1>2. Dir # File
  <2>1. Dir.kind # File.kind
    BY DEF Dir, File
  <2> QED BY <2>1
<1>3. at # Root /\ at # <<>>
  BY <1>2, TreeAssumption DEF Files
<1>4. Len(Root) <= Len(at) /\ SubSeq(Root, 1, Len(Root)) = SubSeq(at, 1, Len(Root))
  BY DEF Inside, IsPrefix
<1>5. ASSUME Len(Root) = Len(at) PROVE FALSE
  <2>1. SubSeq(Root, 1, Len(Root)) = Root /\ SubSeq(at, 1, Len(at)) = at
    BY <1>1
  <2> QED BY <1>3, <1>4, <1>5, <2>1
<1> QED BY <1>1, <1>3, <1>4, <1>5

LEMMA StoredFormType ==
  ASSUME NEW at \in Files, Inside(at)
  PROVE  StoredForm(at) \in Seq(Names) /\ StoredForm(at) # <<>>
<1> DEFINE below == SubSeq(at, Len(Root) + 1, Len(at))
           stored == [i \in DOMAIN below |-> LossyOf[below[i]]]
<1>1. Len(Root) \in Nat /\ Root \in Seq(Names)
  BY TreeAssumption
<1>2. below \in Seq(Names) /\ Len(below) = Len(at) - Len(Root) /\ Len(below) \in Nat \ {0}
  BY <1>1, FilesBelowRoot
<1> HIDE DEF below
<1>3. \A i \in 1..Len(below) : LossyOf[below[i]] \in Names
  BY <1>2, NamesAssumption
<1>4. stored \in Seq(Names) /\ Len(stored) = Len(below)
  <2>1. DOMAIN below = 1..Len(below)
    BY <1>2
  <2>2. stored = [i \in 1..Len(below) |-> LossyOf[below[i]]]
    BY <2>1
  <2> QED BY <1>2, <1>3, <2>2
<1> HIDE DEF stored
<1>5. stored # <<>>
  <2>1. Len(<<>>) = 0
    OBVIOUS
  <2> QED BY <1>2, <1>4, <2>1
<1>6. StoredForm(at) = stored
  BY DEF StoredForm, stored, below
<1> QED BY <1>4, <1>5, <1>6

LEMMA LastNameType == ASSUME NEW parts \in Seq(Names) PROVE LastName(parts) \in Names
<1>1. CASE parts = <<>>
  BY <1>1, NamesAssumption DEF LastName
<1>2. CASE parts # <<>>
  <2>1. Len(parts) \in 1..Len(parts)
    BY <1>2
  <2> QED BY <1>2, <2>1 DEF LastName, Last
<1> QED BY <1>1, <1>2

\* canonical_inside confines what it accepts, whatever realpath answers.
LEMMA CanonicalConfines ==
  ASSUME NEW path PROVE /\ Canonical(path).error = "none" => Inside(Canonical(path).at)
                        /\ ResolveInsideRoot(path).error = "none" =>
                             Inside(ResolveInsideRoot(path).at)
BY DEF Canonical, ResolveInsideRoot, Failed

LEMMA TargetResolved ==
  ASSUME NEW path, NEW real, real.error = "none" => Inside(real.at),
         Target(path, real).error = "none"
  PROVE  Resolved(Target(path, real))
<1>1. real.error = "none" /\ real.at \in Files
  BY DEF Target
<1> QED BY <1>1 DEF Target, Resolved, Stored

(***************************************************************************)
(* The ids of what is recorded.                                            *)
(***************************************************************************)
LEMMA IdsFinite == ASSUME NEW S, NEW s \in Seq(S) PROVE IsFiniteSet(IdsOf(s))
<1> DEFINE f == [i \in DOMAIN s |-> s[i].id]
<1>1. IsFiniteSet(DOMAIN s)
  BY FS_Interval
<1>2. f \in Surjection(DOMAIN s, IdsOf(s))
  BY DEF Surjection, IdsOf
<1> QED BY <1>1, <1>2, FS_Surjection

LEMMA MintForIsFresh ==
  ASSUME NEW stem \in Strings, NEW S, NEW entries \in Seq(S)
  PROVE  /\ MintFor(stem, entries) \in Strings /\ IsValidSlug(MintFor(stem, entries))
         /\ MintFor(stem, entries) \notin IdsOf(entries)
<1>1. Slugify(stem) \in Strings /\ IsValidSlug(Slugify(stem))
  BY SlugifyIsSlug
<1>2. IsFiniteSet(IdsOf(entries))
  BY IdsFinite
<1> QED BY <1>1, <1>2, MintedIsFresh DEF MintFor

(***************************************************************************)
(* The inductive invariant.  A path is the one its file's place gives, so  *)
(* that files told apart by path are told apart: without that conjunct     *)
(* OneEntryPerFile does not follow from the commands' checks of the path.  *)
(***************************************************************************)
Entries == [id : Strings, path : Seq(Names), at : Files]
Imports == [id : Strings, job : Files, inputs : Seq(Strings), outputs : Seq(Strings)]

UniqueIds(entries) == \A i, j \in DOMAIN entries : entries[i].id = entries[j].id => i = j

AssetsSound(book) ==
    /\ book \in Seq(Entries)
    /\ \A i \in DOMAIN book : IsValidSlug(book[i].id) /\ Resolved(book[i])
    /\ UniqueIds(book)
    /\ \A i, j \in DOMAIN book : book[i].path = book[j].path => i = j

Links(d, book) == Range(d.inputs) \cup Range(d.outputs) \subseteq IdsOf(book)

DerivationsSound(log, book) ==
    /\ log \in Seq(Imports)
    /\ \A i \in DOMAIN log : /\ IsValidSlug(log[i].id)
                             /\ Inside(log[i].job)
                             /\ Links(log[i], book)
    /\ UniqueIds(log)
    /\ \A i, j \in DOMAIN log : log[i].job = log[j].job => i = j

IInv == AssetsSound(assets) /\ DerivationsSound(derivations, assets)

\* Entries stay where they are.
Keeps(old, new) == DOMAIN old \subseteq DOMAIN new /\ \A i \in DOMAIN old : new[i] = old[i]

LEMMA KeepsTransitive ==
  ASSUME NEW a, NEW b, NEW c, Keeps(a, b), Keeps(b, c) PROVE Keeps(a, c)
BY DEF Keeps

LEMMA KeepsIds == ASSUME NEW a, NEW b, Keeps(a, b) PROVE IdsOf(a) \subseteq IdsOf(b)
BY DEF Keeps, IdsOf

LEMMA KeepsAt ==
  ASSUME NEW a, NEW b, NEW path, Keeps(a, b), At(path, a) # {} PROVE At(path, b) # {}
BY DEF Keeps, At

LEMMA AppendFacts ==
  ASSUME NEW S, NEW s \in Seq(S), NEW x \in S
  PROVE  /\ Append(s, x) \in Seq(S) /\ Len(Append(s, x)) = Len(s) + 1
         /\ DOMAIN Append(s, x) = DOMAIN s \cup {Len(s) + 1}
         /\ \A i \in DOMAIN s : Append(s, x)[i] = s[i]
         /\ Append(s, x)[Len(s) + 1] = x
OBVIOUS

(***************************************************************************)
(* One more asset: its id is new, and nothing has its path.                *)
(***************************************************************************)
LEMMA AssetAppended ==
  ASSUME NEW book, AssetsSound(book), NEW to, Resolved(to), At(to.path, book) = {},
         NEW id \in Strings, IsValidSlug(id), id \notin IdsOf(book)
  PROVE  LET more == Append(book, Asset(id, to.path, to.at))
         IN  /\ AssetsSound(more) /\ Keeps(book, more)
             /\ Len(more) = Len(book) + 1 /\ more[Len(more)] = Asset(id, to.path, to.at)
<1> DEFINE new == Asset(id, to.path, to.at)
           more == Append(book, new)
           n == Len(book) + 1
<1>1. new \in Entries /\ Resolved(new) /\ new.id = id /\ new.path = to.path /\ new.at = to.at
  BY StoredFormType DEF Resolved, Asset, Entries
<1>2. book \in Seq(Entries)
  BY DEF AssetsSound
<1> HIDE DEF new
<1>3. /\ more \in Seq(Entries) /\ Len(more) = n /\ DOMAIN more = DOMAIN book \cup {n}
      /\ (\A i \in DOMAIN book : more[i] = book[i]) /\ more[n] = new
  BY <1>1, <1>2, AppendFacts
<1> HIDE DEF more, n
<1>4. Keeps(book, more)
  BY <1>3 DEF Keeps
<1>5. \A i \in DOMAIN book : book[i].id # id /\ book[i].path # to.path
  BY DEF IdsOf, At
<1>6. \A i \in DOMAIN more : IsValidSlug(more[i].id) /\ Resolved(more[i])
  BY <1>1, <1>3 DEF AssetsSound
<1>7. UniqueIds(more)
  BY <1>1, <1>3, <1>5 DEF AssetsSound, UniqueIds
<1>8. \A i, j \in DOMAIN more : more[i].path = more[j].path => i = j
  BY <1>1, <1>3, <1>5 DEF AssetsSound
<1>9. AssetsSound(more)
  BY <1>3, <1>6, <1>7, <1>8 DEF AssetsSound
<1> QED BY <1>3, <1>4, <1>9 DEF new, more, n

LEMMA RegisteredSound ==
  ASSUME NEW book, AssetsSound(book), NEW to, Resolved(to), NEW name \in Strings
  PROVE  /\ AssetsSound(Registered(book, to, name)) /\ Keeps(book, Registered(book, to, name))
         /\ At(to.path, Registered(book, to, name)) # {}
<1>1. CASE At(to.path, book) # {}
  BY <1>1 DEF Registered, Keeps
<1>2. CASE At(to.path, book) = {}
  <2> DEFINE id == MintFor(name, book)
             more == Append(book, Asset(id, to.path, to.at))
  <2>1. book \in Seq(Entries)
    BY DEF AssetsSound
  <2>2. id \in Strings /\ IsValidSlug(id) /\ id \notin IdsOf(book)
    BY <2>1, MintForIsFresh
  <2>3. Registered(book, to, name) = more
    BY <1>2 DEF Registered
  <2> HIDE DEF id
  <2>4. /\ AssetsSound(more) /\ Keeps(book, more)
        /\ Len(more) = Len(book) + 1 /\ more[Len(more)] = Asset(id, to.path, to.at)
    BY <1>2, <2>2, AssetAppended
  <2> HIDE DEF more
  <2>5. Len(more) \in DOMAIN more
    BY <2>1, <2>4 DEF AssetsSound
  <2>6. more[Len(more)].path = to.path
    BY <2>4 DEF Asset
  <2>7. At(to.path, more) # {}
    BY <2>5, <2>6 DEF At
  <2> QED BY <2>3, <2>4, <2>7
<1> QED BY <1>1, <1>2

(***************************************************************************)
(* The stems of a record, in turn.                                         *)
(***************************************************************************)
StemsResolved(stems) ==
    /\ Len(stems) \in Nat /\ DOMAIN stems = 1..Len(stems)
    /\ \A n \in 1..Len(stems) : Resolved(stems[n].file) /\ stems[n].name \in Strings

\* What holds after the first n stems.
StemsIn(n, book, stems, result) ==
    /\ AssetsSound(result) /\ Keeps(book, result)
    /\ \A m \in 1..n : At(stems[m].file.path, result) # {}

StemsStep(book, stems, f, n) ==
    IF n = 0 THEN book ELSE Registered(f[n - 1], stems[n].file, stems[n].name)

\* f does the first k stems.
Does(f, k, book, stems) ==
    /\ f = [n \in 0..k |-> StemsStep(book, stems, f, n)]
    /\ \A n \in 0..k : StemsIn(n, book, stems, f[n])

LEMMA StemsInStep ==
  ASSUME NEW book, AssetsSound(book), NEW stems, StemsResolved(stems), NEW f,
         NEW n \in 0..Len(stems), n # 0 => StemsIn(n - 1, book, stems, f[n - 1])
  PROVE  StemsIn(n, book, stems, StemsStep(book, stems, f, n))
<1>1. CASE n = 0
  BY <1>1 DEF StemsIn, StemsStep, Keeps
<1>2. CASE n # 0
  <2> DEFINE before == f[n - 1]
             after  == Registered(before, stems[n].file, stems[n].name)
  <2>1. n \in 1..Len(stems)
    BY <1>2
  <2>2. AssetsSound(before) /\ Keeps(book, before)
        /\ \A m \in 1..(n - 1) : At(stems[m].file.path, before) # {}
    BY <1>2 DEF StemsIn
  <2> HIDE DEF before
  <2>3. AssetsSound(after) /\ Keeps(before, after) /\ At(stems[n].file.path, after) # {}
    BY <2>1, <2>2, RegisteredSound DEF StemsResolved
  <2> HIDE DEF after
  <2>4. ASSUME NEW m \in 1..n PROVE At(stems[m].file.path, after) # {}
    <3>1. CASE m = n
      BY <3>1, <2>3
    <3>2. CASE m # n
      <4>1. m \in 1..(n - 1)
        BY <3>2, <2>1 DEF StemsResolved
      <4> QED BY <4>1, <2>2, <2>3, KeepsAt
    <3> QED BY <3>1, <3>2
  <2>5. Keeps(book, after)
    BY <2>2, <2>3, KeepsTransitive
  <2>6. StemsStep(book, stems, f, n) = after
    BY <1>2 DEF StemsStep, after, before
  <2> QED BY <2>3, <2>4, <2>5, <2>6 DEF StemsIn
<1> QED BY <1>1, <1>2

LEMMA SomeDoes ==
  ASSUME NEW book, AssetsSound(book), NEW stems, StemsResolved(stems), NEW k \in 0..Len(stems)
  PROVE  \E f : Does(f, k, book, stems)
<1> DEFINE stuck == {n \in 0..Len(stems) : ~\E f : Does(f, n, book, stems)}
<1>1. SUFFICES ASSUME stuck # {} PROVE FALSE
  OBVIOUS
<1> DEFINE n == Min(stuck)
<1>2. n \in stuck /\ \A i \in stuck : n <= i
  <2>1. stuck \in SUBSET Nat
    BY DEF StemsResolved
  <2> HIDE DEF stuck
  <2> QED BY <1>1, <2>1, MinOfPositions
<1> HIDE DEF n
<1>3. n \in 0..Len(stems) /\ n \in Nat /\ ~\E f : Does(f, n, book, stems)
  BY <1>2 DEF StemsResolved
<1>4. CASE n = 0
  <2> DEFINE f == [i \in 0..0 |-> book]
  <2>1. StemsIn(0, book, stems, book)
    BY DEF StemsIn, Keeps
  <2>2. f = [i \in 0..0 |-> StemsStep(book, stems, f, i)]
    BY DEF StemsStep
  <2>3. Does(f, 0, book, stems)
    BY <2>1, <2>2 DEF Does
  <2> QED BY <1>3, <1>4, <2>3
<1>5. CASE n # 0
  <2>1. n - 1 \in 0..Len(stems) /\ n - 1 \notin stuck
    <3>1. n - 1 \in 0..Len(stems) /\ ~(n <= n - 1)
      BY <1>3, <1>5
    <3> HIDE DEF stuck
    <3> QED BY <1>2, <3>1
  <2>2. PICK f : Does(f, n - 1, book, stems)
    BY <2>1
  <2> DEFINE g == [i \in 0..n |-> IF i = n THEN StemsStep(book, stems, f, n) ELSE f[i]]
  <2>3. \A i \in 0..n : i # n => g[i] = f[i] /\ i \in 0..(n - 1)
    BY <1>3
  <2>4. g[n] = StemsStep(book, stems, f, n) /\ DOMAIN g = 0..n
    BY <1>3
  <2>5. g = [i \in 0..n |-> g[i]]
    OBVIOUS
  <2> HIDE DEF g
  <2>6. \A i \in 0..n : i # 0 => g[i - 1] = f[i - 1]
    BY <1>3, <2>3
  <2>7. ASSUME NEW i \in 0..n
        PROVE  g[i] = StemsStep(book, stems, g, i) /\ StemsIn(i, book, stems, g[i])
    <3>1. StemsStep(book, stems, g, i) = StemsStep(book, stems, f, i)
      BY <2>6 DEF StemsStep
    <3>2. CASE i = n
      <4>1. StemsIn(n - 1, book, stems, f[n - 1])
        BY <1>3, <1>5, <2>2 DEF Does
      <4>2. StemsIn(n, book, stems, StemsStep(book, stems, f, n))
        BY <1>3, <4>1, StemsInStep
      <4> QED BY <2>4, <3>1, <3>2, <4>2
    <3>3. CASE i # n
      BY <2>2, <2>3, <3>1, <3>3 DEF Does
    <3> QED BY <3>2, <3>3
  <2>8. g = [i \in 0..n |-> StemsStep(book, stems, g, i)]
    BY <2>5, <2>7
  <2>9. Does(g, n, book, stems)
    BY <2>7, <2>8 DEF Does
  <2> QED BY <1>3, <2>9
<1> QED BY <1>4, <1>5

\* However many stems, and whatever names and files they share: each is in the
\* manifest in the end, and what was there is as it was.
LEMMA WithStemsSound ==
  ASSUME NEW book, AssetsSound(book), NEW stems, StemsResolved(stems)
  PROVE  StemsIn(Len(stems), book, stems, WithStems(stems, book))
<1> DEFINE k == Len(stems)
           Fits(f) == f = [n \in 0..k |-> StemsStep(book, stems, f, n)]
           after == CHOOSE f : Fits(f)
<1>1. k \in Nat /\ k \in 0..k
  BY DEF StemsResolved
<1>2. \E f : Fits(f)
  BY <1>1, SomeDoes DEF Does
<1>3. Fits(after)
  <2> HIDE DEF Fits
  <2> QED BY <1>2
<1>4. WithStems(stems, book) = after[k]
  BY DEF WithStems, StemsStep
<1> HIDE DEF after
<1>5. \A n \in 0..k : after[n] = StemsStep(book, stems, after, n)
  BY <1>3
<1> DEFINE odd == {n \in 0..k : ~StemsIn(n, book, stems, after[n])}
<1>6. ASSUME odd # {} PROVE FALSE
  <2> DEFINE n == Min(odd)
  <2>1. n \in odd /\ \A i \in odd : n <= i
    <3>1. odd \in SUBSET Nat
      BY <1>1
    <3> HIDE DEF odd
    <3> QED BY <1>6, <3>1, MinOfPositions
  <2> HIDE DEF n
  <2>2. n \in 0..k /\ ~StemsIn(n, book, stems, after[n])
    BY <2>1
  <2>3. n # 0 => n - 1 \in 0..k /\ n - 1 \notin odd
    <3>1. n # 0 => n - 1 \in 0..k /\ ~(n <= n - 1)
      BY <1>1, <2>2
    <3> HIDE DEF odd
    <3> QED BY <2>1, <3>1
  <2>4. StemsIn(n, book, stems, StemsStep(book, stems, after, n))
    BY <2>2, <2>3, StemsInStep
  <2> QED BY <1>5, <2>2, <2>4
<1> QED BY <1>1, <1>4, <1>6

(***************************************************************************)
(* The steps.                                                              *)
(***************************************************************************)
LEMMA RefusalsNotAccepted == \A x, y : <<x>> # Accepted /\ <<x, y>> # Accepted
<1>1. \A x, y : Len(<<x>>) = 1 /\ Len(<<x, y>>) = 2 /\ Len(<<>>) = 0
  OBVIOUS
<1> QED BY <1>1 DEF Accepted

LEMMA ResolveFacts ==
  ASSUME NEW job \in Jobs
  PROVE  LET to == Resolve(job)
         IN  /\ to.job.error = "none" => Resolved(to.job)
             /\ to.input.file.error = "none" => Resolved(to.input.file)
             /\ Len(to.stems) \in Nat /\ DOMAIN to.stems = 1..Len(to.stems)
             /\ \A n \in DOMAIN to.stems :
                  /\ to.stems[n].file.error = "none" => Resolved(to.stems[n].file)
                  /\ to.stems[n].name \in Strings
<1> DEFINE to == Resolve(job)
           stem(n) == StemPath(job, job.stems[n])
           place(n) == [file |-> Target(stem(n), Canonical(stem(n))), name |-> job.stems[n].name]
<1>1. to.job = Target(job.arg, Canonical(job.arg))
      /\ to.input.file = Target(job.input, ResolveInsideRoot(job.input))
      /\ to.stems = [n \in DOMAIN job.stems |-> place(n)]
  BY DEF Resolve
<1>2. job.stems \in Seq([name : Strings, path : AnyPath])
  BY InputsAssumption
<1>3. DOMAIN job.stems = 1..Len(job.stems) /\ Len(job.stems) \in Nat
      /\ \A n \in 1..Len(job.stems) : job.stems[n].name \in Strings
  <2> DEFINE T == [name : Strings, path : AnyPath]  given == job.stems
  <2> HIDE DEF T, given
  <2>1. given \in Seq(T)
    BY <1>2 DEF T, given
  <2>2. DOMAIN given = 1..Len(given) /\ Len(given) \in Nat
        /\ \A n \in 1..Len(given) : given[n] \in T
    BY <2>1
  <2>3. \A x \in T : x.name \in Strings
    BY DEF T
  <2>4. \A n \in 1..Len(given) : given[n].name \in Strings
    BY <2>2, <2>3
  <2> QED BY <2>2, <2>4 DEF given
<1> HIDE DEF to, stem
<1>4. DOMAIN to.stems = 1..Len(job.stems) /\ Len(to.stems) = Len(job.stems)
  <2>1. to.stems = [n \in 1..Len(job.stems) |-> place(n)]
    BY <1>1, <1>3
  <2> HIDE DEF place
  <2> QED BY <1>3, <2>1
<1>5. ASSUME NEW n \in DOMAIN to.stems
      PROVE  /\ to.stems[n].file.error = "none" => Resolved(to.stems[n].file)
             /\ to.stems[n].name \in Strings
  <2>1. to.stems[n].file = Target(stem(n), Canonical(stem(n)))
        /\ to.stems[n].name = job.stems[n].name
    BY <1>1, <1>3, <1>4
  <2> QED BY <1>3, <1>4, <2>1, CanonicalConfines, TargetResolved
<1>6. to.job.error = "none" => Resolved(to.job)
  BY <1>1, CanonicalConfines, TargetResolved
<1>7. to.input.file.error = "none" => Resolved(to.input.file)
  BY <1>1, CanonicalConfines, TargetResolved
<1> QED BY <1>3, <1>4, <1>5, <1>6, <1>7 DEF to

LEMMA AddSound ==
  ASSUME IInv, NEW arg \in Args, NEW id \in AskedIds, Add(arg, id)
  PROVE  \/ UNCHANGED vars
         \/ /\ AssetsSound(assets') /\ Keeps(assets, assets') /\ Len(assets') = Len(assets) + 1
            /\ UNCHANGED derivations
<1> DEFINE to == AddTarget[arg]
           new == IF id = None THEN MintFor(StemOf[LastName(arg.parts)], assets) ELSE id
<1>1. CASE AddRefusal(to, id) # Accepted
  BY <1>1 DEF Add, Refuse
<1>2. CASE AddRefusal(to, id) = Accepted
  <2>1. to = Target(arg, ResolveInsideRoot(arg))
    BY DEF AddTarget
  <2>2. assets' = Append(assets, Asset(new, to.path, to.at)) /\ UNCHANGED derivations
    BY <1>2 DEF Add
  <2> HIDE DEF to
  <2>3. to.error = "none"
    BY <1>2, RefusalsNotAccepted DEF AddRefusal
  <2>4. Resolved(to)
    BY <2>1, <2>3, CanonicalConfines, TargetResolved
  <2>5. At(to.path, assets) = {} /\ (id # None => IsValidSlug(id) /\ id \notin IdsOf(assets))
    BY <1>2, <2>3, RefusalsNotAccepted DEF AddRefusal
  <2>6. AssetsSound(assets) /\ assets \in Seq(Entries)
    BY DEF IInv, AssetsSound
  <2>7. new \in Strings /\ IsValidSlug(new) /\ new \notin IdsOf(assets)
    <3>1. CASE id = None
      <4>1. arg.parts \in Seq(Names)
        BY InputsAssumption DEF AnyPath
      <4>2. StemOf[LastName(arg.parts)] \in Strings
        BY <4>1, LastNameType, StemsAssumption
      <4> QED BY <2>6, <3>1, <4>2, MintForIsFresh
    <3>2. CASE id # None
      BY <2>5, <3>2, InputsAssumption
    <3> QED BY <3>1, <3>2
  <2> HIDE DEF new
  <2> QED BY <2>2, <2>4, <2>5, <2>6, <2>7, AssetAppended
<1> QED BY <1>1, <1>2

\* An input nobody knows is registered; then its bytes are known.
LEMMA WithInputSound ==
  ASSUME IInv, NEW input, input.file.error = "none" => Resolved(input.file),
         InputKnown(input) \/ InputRefusal(input) = Accepted
  PROVE  /\ AssetsSound(WithInput(input)) /\ Keeps(assets, WithInput(input))
         /\ \E i \in DOMAIN WithInput(input) : WithInput(input)[i].at = input.bytes
<1>1. AssetsSound(assets) /\ assets \in Seq(Entries)
  BY DEF IInv, AssetsSound
<1>2. CASE InputKnown(input)
  BY <1>1, <1>2 DEF WithInput, InputKnown, Keeps
<1>3. CASE ~InputKnown(input)
  <2>1. input.file.error = "none" /\ input.file.at = input.bytes /\ At(input.file.path, assets) = {}
    BY <1>3, RefusalsNotAccepted DEF InputRefusal
  <2>2. Resolved(input.file)
    BY <2>1
  <2> DEFINE id == MintFor(StemOf[LastName(input.file.path)], assets)
             more == Append(assets, Asset(id, input.file.path, input.file.at))
  <2>3. input.file.path \in Seq(Names)
    BY <2>2, StoredFormType DEF Resolved
  <2>4. StemOf[LastName(input.file.path)] \in Strings
    BY <2>3, LastNameType, StemsAssumption
  <2>5. id \in Strings /\ IsValidSlug(id) /\ id \notin IdsOf(assets)
    BY <1>1, <2>4, MintForIsFresh
  <2>6. WithInput(input) = more
    BY <1>3, <2>1 DEF WithInput, Registered
  <2> HIDE DEF id
  <2>7. /\ AssetsSound(more) /\ Keeps(assets, more)
        /\ Len(more) = Len(assets) + 1
        /\ more[Len(more)] = Asset(id, input.file.path, input.file.at)
    BY <1>1, <2>1, <2>2, <2>5, AssetAppended
  <2> HIDE DEF more
  <2>8. Len(more) \in DOMAIN more
    BY <1>1, <2>7 DEF AssetsSound
  <2>9. more[Len(more)].at = input.bytes
    BY <2>1, <2>7 DEF Asset
  <2> QED BY <2>6, <2>7, <2>8, <2>9
<1> QED BY <1>2, <1>3

\* The derivation's links are ids of assets that are there by now.
LEMMA DerivationSound ==
  ASSUME IInv, NEW book, AssetsSound(book), NEW to, Resolved(to.job),
         StemsResolved(to.stems),
         \E i \in DOMAIN book : book[i].at = to.input.bytes,
         \A n \in 1..Len(to.stems) : At(to.stems[n].file.path, book) # {},
         \A i \in DOMAIN derivations : derivations[i].job # to.job.at
  PROVE  LET d == Derivation(to, book)
         IN  /\ d \in Imports /\ IsValidSlug(d.id) /\ d.job = to.job.at
             /\ d.id \notin IdsOf(derivations) /\ Links(d, book)
<1> DEFINE d == Derivation(to, book)
           same == {i \in DOMAIN book : book[i].at = to.input.bytes}
           id == MintFor(NameOf[LastName(Front(to.job.at))], derivations)
           outputs == [n \in DOMAIN to.stems |-> book[Min(At(to.stems[n].file.path, book))].id]
<1>1. book \in Seq(Entries) /\ DOMAIN book \in SUBSET Nat /\ DOMAIN book = 1..Len(book)
  BY DEF AssetsSound
<1>2. Min(same) \in DOMAIN book
  <2>1. same \in SUBSET Nat /\ same # {}
    BY <1>1
  <2> QED BY <2>1, MinOfPositions
<1>3. ASSUME NEW n \in 1..Len(to.stems) PROVE Min(At(to.stems[n].file.path, book)) \in DOMAIN book
  <2> DEFINE at == At(to.stems[n].file.path, book)
  <2>1. at \in SUBSET Nat /\ at # {} /\ at \subseteq DOMAIN book
    BY <1>1 DEF At
  <2> HIDE DEF at
  <2>2. Min(at) \in DOMAIN book
    BY <2>1, MinOfPositions
  <2> QED BY <2>2 DEF at
<1>4. \A i \in DOMAIN book : book[i].id \in Strings /\ book[i].id \in IdsOf(book)
  <2>1. \A i \in 1..Len(book) : book[i] \in Entries
    BY <1>1
  <2> QED BY <1>1, <2>1 DEF Entries, IdsOf
<1>5. d = [id |-> id, job |-> to.job.at, inputs |-> <<book[Min(same)].id>>, outputs |-> outputs]
  BY DEF Derivation
<1>6. id \in Strings /\ IsValidSlug(id) /\ id \notin IdsOf(derivations)
  <2>1. to.job.at \in Seq(Names) /\ to.job.at # <<>>
    BY FilesBelowRoot DEF Resolved
  <2>2. Front(to.job.at) \in Seq(Names)
    BY <2>1 DEF Front
  <2>3. NameOf[LastName(Front(to.job.at))] \in Strings
    BY <2>2, LastNameType, StemsAssumption
  <2>4. derivations \in Seq(Imports)
    BY DEF IInv, DerivationsSound
  <2> QED BY <2>3, <2>4, MintForIsFresh
<1> DEFINE one == book[Min(same)].id  inputs == <<one>>
<1>7. one \in Strings /\ one \in IdsOf(book)
  BY <1>2, <1>4
<1> HIDE DEF one
<1>8. inputs \in Seq(Strings) /\ Range(inputs) \subseteq IdsOf(book)
  BY <1>7 DEF Range
<1>9. \A n \in 1..Len(to.stems) : book[Min(At(to.stems[n].file.path, book))].id \in Strings
                               /\ book[Min(At(to.stems[n].file.path, book))].id \in IdsOf(book)
  BY <1>3, <1>4
<1>10. outputs \in Seq(Strings) /\ Range(outputs) \subseteq IdsOf(book)
  <2>1. DOMAIN to.stems = 1..Len(to.stems) /\ Len(to.stems) \in Nat
    BY DEF StemsResolved
  <2>2. outputs \in [1..Len(to.stems) -> Strings]
    BY <1>9, <2>1
  <2>3. Range(outputs) \subseteq IdsOf(book)
    BY <1>9, <2>1 DEF Range
  <2> HIDE DEF outputs
  <2> QED BY <2>1, <2>2, <2>3
<1> HIDE DEF id, outputs, same
<1>11. d = [id |-> id, job |-> to.job.at, inputs |-> inputs, outputs |-> outputs]
  BY <1>5 DEF one
<1> HIDE DEF d, inputs
<1>12. d \in Imports
  BY <1>6, <1>8, <1>10, <1>11 DEF Imports, Resolved
<1>13. Links(d, book)
  BY <1>8, <1>10, <1>11 DEF Links
<1> QED BY <1>6, <1>11, <1>12, <1>13 DEF d

LEMMA LinksKept ==
  ASSUME NEW d, NEW a, NEW b, Keeps(a, b), Links(d, a) PROVE Links(d, b)
BY KeepsIds DEF Links

\* What an import accepts: a record, stems and, unless its bytes are known, an
\* input, each of them a file inside the root.
LEMMA AcceptedFacts ==
  ASSUME NEW to \in JobTargets, ImportRefusal(to) = Accepted
  PROVE  /\ Resolved(to.job) /\ StemsResolved(to.stems)
         /\ \A i \in DOMAIN derivations : derivations[i].job # to.job.at
         /\ InputKnown(to.input) \/ InputRefusal(to.input) = Accepted
         /\ to.input.file.error = "none" => Resolved(to.input.file)
<1>1. PICK job \in Jobs : to = Resolve(job)
  BY DEF JobTargets
<1>2. /\ to.job.error = "none" => Resolved(to.job)
      /\ to.input.file.error = "none" => Resolved(to.input.file)
      /\ Len(to.stems) \in Nat /\ DOMAIN to.stems = 1..Len(to.stems)
      /\ \A n \in DOMAIN to.stems :
            /\ to.stems[n].file.error = "none" => Resolved(to.stems[n].file)
            /\ to.stems[n].name \in Strings
  BY <1>1, ResolveFacts
<1>3. to.job.error = "none" /\ StemRefusal(to.stems) = Accepted
      /\ (\A i \in DOMAIN derivations : derivations[i].job # to.job.at)
      /\ (InputKnown(to.input) \/ InputRefusal(to.input) = Accepted)
  BY RefusalsNotAccepted DEF ImportRefusal
<1>4. \A n \in DOMAIN to.stems : to.stems[n].file.error = "none"
  BY <1>3, RefusalsNotAccepted DEF StemRefusal
<1> QED BY <1>2, <1>3, <1>4 DEF StemsResolved

LEMMA ImportSound ==
  ASSUME IInv, NEW to \in JobTargets, ImportJob(to)
  PROVE  \/ UNCHANGED vars
         \/ \E d \in Imports :
              /\ AssetsSound(assets') /\ Keeps(assets, assets')
              /\ derivations' = Append(derivations, d)
              /\ IsValidSlug(d.id) /\ d.id \notin IdsOf(derivations)
              /\ Inside(d.job) /\ Links(d, assets')
              /\ \A i \in DOMAIN derivations : derivations[i].job # d.job
<1> DEFINE start == WithInput(to.input)
           book  == WithStems(to.stems, start)
           d     == Derivation(to, book)
<1>1. CASE ImportRefusal(to) # Accepted
  BY <1>1 DEF ImportJob, Refuse
<1>2. CASE StemsClash(to.stems, book) /\ ImportRefusal(to) = Accepted
  BY <1>2 DEF ImportJob, Refuse
<1>3. CASE ~StemsClash(to.stems, book) /\ ImportRefusal(to) = Accepted
  <2>1. assets' = book /\ derivations' = Append(derivations, d)
    BY <1>3 DEF ImportJob
  <2>2. /\ Resolved(to.job) /\ StemsResolved(to.stems)
        /\ \A i \in DOMAIN derivations : derivations[i].job # to.job.at
        /\ InputKnown(to.input) \/ InputRefusal(to.input) = Accepted
        /\ to.input.file.error = "none" => Resolved(to.input.file)
    BY <1>3, AcceptedFacts
  <2>3. /\ AssetsSound(start) /\ Keeps(assets, start)
        /\ \E i \in DOMAIN start : start[i].at = to.input.bytes
    BY <2>2, WithInputSound
  <2> HIDE DEF start
  <2>4. StemsIn(Len(to.stems), start, to.stems, book)
    BY <2>2, <2>3, WithStemsSound
  <2> HIDE DEF book
  <2>5. AssetsSound(book) /\ Keeps(start, book)
        /\ \A n \in 1..Len(to.stems) : At(to.stems[n].file.path, book) # {}
    BY <2>4 DEF StemsIn
  <2>6. \E i \in DOMAIN book : book[i].at = to.input.bytes
    BY <2>3, <2>5 DEF Keeps
  <2>7. d \in Imports /\ IsValidSlug(d.id) /\ d.job = to.job.at
        /\ d.id \notin IdsOf(derivations) /\ Links(d, book)
    BY <2>2, <2>5, <2>6, DerivationSound
  <2>8. Keeps(assets, book)
    BY <2>3, <2>5, KeepsTransitive
  <2>9. Inside(d.job)
    BY <2>2, <2>7 DEF Resolved
  <2> HIDE DEF d
  <2> QED BY <2>1, <2>2, <2>5, <2>7, <2>8, <2>9
<1> QED BY <1>1, <1>2, <1>3

LEMMA InitIInv == Init => IInv
<1> SUFFICES ASSUME Init PROVE IInv
  OBVIOUS
<1>1. assets = <<>> /\ derivations = <<>>
  BY DEF Init
<1>2. assets \in Seq(Entries) /\ derivations \in Seq(Imports)
      /\ DOMAIN assets = {} /\ DOMAIN derivations = {}
  BY <1>1
<1> QED BY <1>2 DEF IInv, AssetsSound, DerivationsSound, UniqueIds

LEMMA NextIInv == IInv /\ [Next]_vars => IInv'
<1> SUFFICES ASSUME IInv, [Next]_vars PROVE IInv'
  OBVIOUS
<1>1. ASSUME UNCHANGED vars PROVE IInv'
  BY <1>1 DEF vars, IInv
<1>2. ASSUME NEW arg \in Args, NEW id \in AskedIds, Add(arg, id) PROVE IInv'
  <2>1. CASE UNCHANGED vars
    BY <1>1, <2>1
  <2>2. CASE AssetsSound(assets') /\ Keeps(assets, assets') /\ UNCHANGED derivations
    <3>1. DerivationsSound(derivations, assets')
      BY <2>2, LinksKept DEF IInv, DerivationsSound
    <3> QED BY <2>2, <3>1 DEF IInv
  <2> QED BY <1>2, <2>1, <2>2, AddSound
<1>3. ASSUME NEW to \in JobTargets, ImportJob(to) PROVE IInv'
  <2>1. CASE UNCHANGED vars
    BY <1>1, <2>1
  <2>2. CASE ~UNCHANGED vars
    <3>1. PICK d \in Imports :
              /\ AssetsSound(assets') /\ Keeps(assets, assets')
              /\ derivations' = Append(derivations, d)
              /\ IsValidSlug(d.id) /\ d.id \notin IdsOf(derivations)
              /\ Inside(d.job) /\ Links(d, assets')
              /\ \A i \in DOMAIN derivations : derivations[i].job # d.job
      BY <1>3, <2>2, ImportSound
    <3> DEFINE log == Append(derivations, d)  n == Len(derivations) + 1
    <3>2. derivations \in Seq(Imports) /\ DerivationsSound(derivations, assets)
      BY DEF IInv, DerivationsSound
    <3>3. /\ log \in Seq(Imports) /\ DOMAIN log = DOMAIN derivations \cup {n}
          /\ (\A i \in DOMAIN derivations : log[i] = derivations[i]) /\ log[n] = d
      BY <3>2, AppendFacts
    <3> HIDE DEF log, n
    <3>4. \A i \in DOMAIN derivations : derivations[i].id # d.id
      BY <3>1 DEF IdsOf
    <3>5. \A i \in DOMAIN log : /\ IsValidSlug(log[i].id) /\ Inside(log[i].job)
                                /\ Links(log[i], assets')
      BY <3>1, <3>2, <3>3, LinksKept DEF DerivationsSound
    <3>6. UniqueIds(log)
      BY <3>2, <3>3, <3>4 DEF DerivationsSound, UniqueIds
    <3>7. \A i, j \in DOMAIN log : log[i].job = log[j].job => i = j
      BY <3>1, <3>2, <3>3 DEF DerivationsSound
    <3>8. DerivationsSound(log, assets')
      BY <3>3, <3>5, <3>6, <3>7 DEF DerivationsSound
    <3> QED BY <3>1, <3>8 DEF IInv, log
  <2> QED BY <2>1, <2>2
<1> QED BY <1>1, <1>2, <1>3 DEF Next

LEMMA AlwaysSound == Spec => []IInv
BY InitIInv, NextIInv, PTL DEF Spec

(***************************************************************************)
(* The theorems.                                                           *)
(***************************************************************************)
\* Whatever the alphabet, the names in the tree and in the records, and the ids
\* asked for: every recorded id is a slug, and of its kind the only one.
THEOREM IdsAlwaysSlugs == Spec => []IdsAreSlugs
<1>1. IInv => IdsAreSlugs
  BY DEF IInv, IdsAreSlugs, AssetsSound, DerivationsSound, UniqueIds
<1> QED BY <1>1, AlwaysSound, PTL

\* Whatever the tree, its links and the ways to a file: the path recorded for it
\* comes from its place, so that no two assets are one file.
THEOREM EachFileOnce == Spec => []OneEntryPerFile
<1>1. IInv => OneEntryPerFile
  BY DEF IInv, OneEntryPerFile, AssetsSound, Resolved
<1> QED BY <1>1, AlwaysSound, PTL

\* No argument, job record or stem name gets a file outside the root registered,
\* or read as evidence.
THEOREM AlwaysConfined == Spec => []Confined
<1>1. IInv => Confined
  BY DEF IInv, Confined, AssetsSound, DerivationsSound, Resolved
<1> QED BY <1>1, AlwaysSound, PTL

(***************************************************************************)
(* The refinement: what is recorded, as Registry's entries.                *)
(***************************************************************************)
AssetEntry(a) == [id |-> a.id, path |-> a.path, size |-> 0,
                  sha256 |-> <<"sha256", a.at>>, last_verified |-> 0]
DerivationEntry(d) == [id |-> d.id, inputs |-> d.inputs, outputs |-> d.outputs,
                       job |-> [path |-> StoredForm(d.job), sha256 |-> <<"sha256", d.job>>]]
AssetEntries(book) == [i \in DOMAIN book |-> AssetEntry(book[i])]
DerivationEntries(log) == [i \in DOMAIN log |-> DerivationEntry(log[i])]

RecordOf(book, log) ==
    [assets |-> AssetEntries(book), derivations |-> DerivationEntries(log), evaluations |-> <<>>]

LEMMA RecordedParts ==
  Recorded = RecordOf(assets, derivations) /\ Recorded' = RecordOf(assets', derivations')
BY DEF Recorded, RecordOf, AssetEntries, DerivationEntries, AssetEntry, DerivationEntry

LEMMA SlugIsAbstract ==
  ASSUME NEW s \in Strings, IsValidSlug(s) PROVE s \in Abstract!Slugs
<1>1. s \in Seq(Chars \cup Nat) /\ s # <<>>
  BY DEF Strings, IsValidSlug
<1> QED BY <1>1 DEF Abstract!Slugs

LEMMA PlaceIsAbstract ==
  ASSUME NEW at \in Files, Inside(at)
  PROVE  /\ StoredForm(at) \in {StoredForm(f) : f \in {f \in Files : Inside(f)}}
         /\ <<"sha256", at>> \in Abstract!Hashes
BY DEF Abstract!Hashes, Abstract!Sha256

LEMMA AssetsAbstract ==
  ASSUME NEW book, AssetsSound(book)
  PROVE  /\ AssetEntries(book) \in Seq(Abstract!Assets)
         /\ Len(AssetEntries(book)) = Len(book) /\ DOMAIN AssetEntries(book) = DOMAIN book
         /\ Abstract!Ids(AssetEntries(book)) = IdsOf(book)
<1>1. book \in Seq(Entries) /\ DOMAIN book = 1..Len(book) /\ Len(book) \in Nat
  BY DEF AssetsSound
<1>2. ASSUME NEW i \in DOMAIN book PROVE AssetEntry(book[i]) \in Abstract!Assets
  <2> DEFINE a == book[i]
  <2>1. a \in Entries
    BY <1>1
  <2>2. IsValidSlug(a.id) /\ Resolved(a)
    BY DEF AssetsSound
  <2> HIDE DEF a
  <2>3. a.id \in Abstract!Slugs
    BY <2>1, <2>2, SlugIsAbstract DEF Entries
  <2>4. a.path \in {StoredForm(f) : f \in {f \in Files : Inside(f)}}
        /\ <<"sha256", a.at>> \in Abstract!Hashes
    BY <2>2, PlaceIsAbstract DEF Resolved
  <2>5. AssetEntry(a) \in Abstract!Assets
    BY <2>3, <2>4 DEF AssetEntry, Abstract!Assets
  <2> QED BY <2>5 DEF a
<1> DEFINE all == AssetEntries(book)
<1>3. all = [i \in 1..Len(book) |-> AssetEntry(book[i])]
  BY <1>1 DEF AssetEntries
<1> HIDE DEF all
<1>4. all \in [1..Len(book) -> Abstract!Assets]
  BY <1>1, <1>2, <1>3
<1>5. all \in Seq(Abstract!Assets) /\ Len(all) = Len(book) /\ DOMAIN all = DOMAIN book
  BY <1>1, <1>4
<1>6. \A i \in DOMAIN book : all[i].id = book[i].id
  BY <1>1, <1>3 DEF AssetEntry
<1>7. Abstract!Ids(all) = IdsOf(book)
  BY <1>5, <1>6 DEF Abstract!Ids, IdsOf
<1> QED BY <1>5, <1>7 DEF all

\* Ids of assets that are there are slugs.
LEMMA LinksAreSlugs ==
  ASSUME NEW book, AssetsSound(book), NEW ids \in Seq(Strings), Range(ids) \subseteq IdsOf(book)
  PROVE  ids \in Seq(Abstract!Slugs)
<1>1. ASSUME NEW i \in 1..Len(ids) PROVE ids[i] \in Abstract!Slugs
  <2>1. ids[i] \in Strings /\ ids[i] \in IdsOf(book)
    BY DEF Range
  <2>2. IsValidSlug(ids[i])
    BY <2>1 DEF IdsOf, AssetsSound
  <2> QED BY <2>1, <2>2, SlugIsAbstract
<1> QED BY <1>1

LEMMA DerivationAbstract ==
  ASSUME NEW book, AssetsSound(book), NEW d \in Imports, IsValidSlug(d.id), Inside(d.job),
         Links(d, book)
  PROVE  /\ DerivationEntry(d) \in Abstract!Derivations
         /\ DerivationEntry(d).job # None
         /\ Abstract!Links(DerivationEntry(d), Abstract!Ids(AssetEntries(book)))
<1>1. d.id \in Strings /\ d.job \in Files /\ d.inputs \in Seq(Strings) /\ d.outputs \in Seq(Strings)
  BY DEF Imports
<1>2. d.id \in Abstract!Slugs
  BY <1>1, SlugIsAbstract
<1>3. d.inputs \in Seq(Abstract!Slugs) /\ d.outputs \in Seq(Abstract!Slugs)
  <2>1. Range(d.inputs) \subseteq IdsOf(book) /\ Range(d.outputs) \subseteq IdsOf(book)
    BY DEF Links
  <2> QED BY <1>1, <2>1, LinksAreSlugs
<1> DEFINE job == [path |-> StoredForm(d.job), sha256 |-> <<"sha256", d.job>>]
<1>4. job \in Abstract!HashedRefs
  BY <1>1, PlaceIsAbstract DEF Abstract!HashedRefs
<1>5. job # None
  BY <1>4, AbsentAssumption
<1>6. DerivationEntry(d) = [id |-> d.id, inputs |-> d.inputs, outputs |-> d.outputs, job |-> job]
  BY DEF DerivationEntry
<1> HIDE DEF job
<1>7. DerivationEntry(d) \in Abstract!Derivations
  BY <1>2, <1>3, <1>4, <1>6 DEF Abstract!Derivations
<1>8. Abstract!Links(DerivationEntry(d), Abstract!Ids(AssetEntries(book)))
  BY <1>6, AssetsAbstract DEF Abstract!Links, Links, Range, Abstract!Range
<1> QED BY <1>5, <1>6, <1>7, <1>8

LEMMA DerivationsAbstract ==
  ASSUME NEW book, AssetsSound(book), NEW log, DerivationsSound(log, book)
  PROVE  /\ DerivationEntries(log) \in Seq(Abstract!Derivations)
         /\ Len(DerivationEntries(log)) = Len(log) /\ DOMAIN DerivationEntries(log) = DOMAIN log
         /\ Abstract!Ids(DerivationEntries(log)) = IdsOf(log)
<1>1. log \in Seq(Imports) /\ DOMAIN log = 1..Len(log) /\ Len(log) \in Nat
  BY DEF DerivationsSound
<1>2. ASSUME NEW i \in DOMAIN log PROVE DerivationEntry(log[i]) \in Abstract!Derivations
  <2>1. log[i] \in Imports
    BY <1>1
  <2> QED BY <2>1, DerivationAbstract DEF DerivationsSound
<1> DEFINE all == DerivationEntries(log)
<1>3. all = [i \in 1..Len(log) |-> DerivationEntry(log[i])]
  BY <1>1 DEF DerivationEntries
<1> HIDE DEF all
<1>4. all \in [1..Len(log) -> Abstract!Derivations]
  BY <1>1, <1>2, <1>3
<1>5. all \in Seq(Abstract!Derivations) /\ Len(all) = Len(log) /\ DOMAIN all = DOMAIN log
  BY <1>1, <1>4
<1>6. \A i \in DOMAIN log : all[i].id = log[i].id
  BY <1>1, <1>3 DEF DerivationEntry
<1>7. Abstract!Ids(all) = IdsOf(log)
  BY <1>5, <1>6 DEF Abstract!Ids, IdsOf
<1> QED BY <1>5, <1>7 DEF all

LEMMA RecordType ==
  ASSUME NEW book, AssetsSound(book), NEW log, DerivationsSound(log, book)
  PROVE  RecordOf(book, log) \in Abstract!Manifests
<1>1. AssetEntries(book) \in Seq(Abstract!Assets)
      /\ DerivationEntries(log) \in Seq(Abstract!Derivations)
  BY AssetsAbstract, DerivationsAbstract
<1>2. <<>> \in Seq(Abstract!Evaluations)
  OBVIOUS
<1> QED BY <1>1, <1>2 DEF RecordOf, Abstract!Manifests

LEMMA BothManifests ==
  ASSUME IInv, IInv'
  PROVE  /\ Recorded \in Abstract!Manifests /\ Recorded' \in Abstract!Manifests
         /\ Abstract!Exists
BY RecordedParts, RecordType, AbsentAssumption DEF IInv, Abstract!Exists

LEMMA SamePrefix ==
  ASSUME NEW S, NEW s \in Seq(S), NEW t \in Seq(S), Len(s) <= Len(t),
         \A i \in 1..Len(s) : t[i] = s[i]
  PROVE  Abstract!IsPrefix(s, t)
<1>1. SubSeq(s, 1, Len(s)) = SubSeq(t, 1, Len(s))
  OBVIOUS
<1> QED BY <1>1 DEF Abstract!IsPrefix

LEMMA AppendsAbstractAssets ==
  ASSUME NEW old, AssetsSound(old), NEW new, AssetsSound(new), Keeps(old, new)
  PROVE  Abstract!AppendsAssets(AssetEntries(old), AssetEntries(new))
<1> DEFINE a == AssetEntries(old)  b == AssetEntries(new)
<1>1. /\ a \in Seq(Abstract!Assets) /\ Len(a) = Len(old) /\ DOMAIN a = DOMAIN old
      /\ b \in Seq(Abstract!Assets) /\ Len(b) = Len(new) /\ DOMAIN b = DOMAIN new
  BY AssetsAbstract
<1>2. /\ \A i \in DOMAIN old : a[i] = AssetEntry(old[i])
      /\ \A i \in DOMAIN new : b[i] = AssetEntry(new[i])
  BY DEF AssetEntries
<1>3. /\ DOMAIN old = 1..Len(old) /\ Len(old) \in Nat
      /\ DOMAIN new = 1..Len(new) /\ Len(new) \in Nat
  BY DEF AssetsSound
<1> HIDE DEF a, b
<1>4. Len(old) <= Len(new)
  <2>1. Len(old) # 0 => Len(old) \in DOMAIN new
    BY <1>3 DEF Keeps
  <2> QED BY <1>3, <2>1
<1>5. \A i \in 1..Len(a) : b[i] = a[i]
  BY <1>1, <1>2, <1>3 DEF Keeps
<1>6. Abstract!IsPrefix(a, b)
  BY <1>1, <1>4, <1>5, SamePrefix
<1>7. ASSUME NEW i \in DOMAIN b \ DOMAIN a, NEW j \in 1..(i - 1)
      PROVE  b[i].id # b[j].id /\ b[i].path # b[j].path
  <2>1. i \in DOMAIN new /\ j \in DOMAIN new /\ i # j
    BY <1>1, <1>3
  <2>2. new[i].id # new[j].id /\ new[i].path # new[j].path
    BY <2>1 DEF AssetsSound, UniqueIds
  <2>3. b[i] = AssetEntry(new[i]) /\ b[j] = AssetEntry(new[j])
    BY <1>2, <2>1
  <2> QED BY <2>2, <2>3 DEF AssetEntry
<1> QED BY <1>6, <1>7 DEF Abstract!AppendsAssets, a, b

\* add is Registry's Register.
LEMMA AddRegisters ==
  ASSUME IInv, IInv', AssetsSound(assets'), Keeps(assets, assets'),
         Len(assets') = Len(assets) + 1, UNCHANGED derivations
  PROVE  Abstract!Register
<1>1. Recorded' \in Abstract!Manifests /\ Abstract!Exists
  BY BothManifests
<1>3. /\ Recorded.assets = AssetEntries(assets) /\ Recorded'.assets = AssetEntries(assets')
      /\ Recorded.derivations = DerivationEntries(derivations)
      /\ Recorded'.derivations = DerivationEntries(derivations)
      /\ Recorded.evaluations = <<>> /\ Recorded'.evaluations = <<>>
  BY RecordedParts DEF RecordOf
<1>4. AssetsSound(assets)
  BY DEF IInv
<1>5. Abstract!AppendsAssets(AssetEntries(assets), AssetEntries(assets'))
  BY <1>4, AppendsAbstractAssets
<1>6. Len(AssetEntries(assets')) = Len(AssetEntries(assets)) + 1
  BY <1>4, AssetsAbstract
<1>7. Abstract!AppendsOne(AssetEntries(assets), AssetEntries(assets'))
  BY <1>5, <1>6 DEF Abstract!AppendsOne, Abstract!AppendsAssets
<1> QED BY <1>1, <1>3, <1>5, <1>7 DEF Abstract!Register, Abstract!Registers

\* import of a job record is Registry's ImportJob.
LEMMA ImportImports ==
  ASSUME IInv, IInv', NEW d \in Imports, AssetsSound(assets'), Keeps(assets, assets'),
         derivations' = Append(derivations, d), IsValidSlug(d.id),
         d.id \notin IdsOf(derivations), Inside(d.job), Links(d, assets'),
         \A i \in DOMAIN derivations : derivations[i].job # d.job
  PROVE  Abstract!ImportJob
<1> DEFINE old == DerivationEntries(derivations)
           new == DerivationEntries(derivations')
           entry == DerivationEntry(d)
           n == Len(derivations) + 1
<1>1. Recorded' \in Abstract!Manifests /\ Abstract!Exists
  BY BothManifests
<1>3. /\ Recorded.assets = AssetEntries(assets) /\ Recorded'.assets = AssetEntries(assets')
      /\ Recorded.derivations = old /\ Recorded'.derivations = new
      /\ Recorded.evaluations = <<>> /\ Recorded'.evaluations = <<>>
  BY RecordedParts DEF RecordOf
<1>4. AssetsSound(assets) /\ DerivationsSound(derivations, assets)
      /\ DerivationsSound(derivations', assets')
  BY DEF IInv
<1>5. Abstract!AppendsAssets(AssetEntries(assets), AssetEntries(assets'))
  BY <1>4, AppendsAbstractAssets
<1>6. /\ old \in Seq(Abstract!Derivations) /\ Len(old) = Len(derivations)
      /\ DOMAIN old = DOMAIN derivations /\ Abstract!Ids(old) = IdsOf(derivations)
      /\ new \in Seq(Abstract!Derivations) /\ Len(new) = Len(derivations')
      /\ DOMAIN new = DOMAIN derivations'
  BY <1>4, DerivationsAbstract
<1>7. /\ derivations \in Seq(Imports) /\ Len(derivations') = n
      /\ DOMAIN derivations = 1..Len(derivations) /\ Len(derivations) \in Nat
      /\ DOMAIN derivations' = DOMAIN derivations \cup {n}
      /\ (\A i \in DOMAIN derivations : derivations'[i] = derivations[i])
      /\ derivations'[n] = d
  <2>1. derivations \in Seq(Imports)
    BY <1>4 DEF DerivationsSound
  <2> QED BY <2>1, AppendFacts
<1>8. /\ \A i \in DOMAIN derivations : old[i] = DerivationEntry(derivations[i])
      /\ \A i \in DOMAIN derivations' : new[i] = DerivationEntry(derivations'[i])
  BY DEF DerivationEntries
<1> HIDE DEF old, new, n
<1>9. Abstract!IsPrefix(old, new)
  <2>1. \A i \in 1..Len(old) : new[i] = old[i]
    BY <1>6, <1>7, <1>8
  <2>2. Len(old) <= Len(new)
    BY <1>6, <1>7 DEF n
  <2> QED BY <1>6, <2>1, <2>2, SamePrefix
<1>10. Abstract!AppendsOne(old, new)
  BY <1>6, <1>7, <1>9 DEF Abstract!AppendsOne, n
<1>11. Abstract!Last(new) = entry
  BY <1>6, <1>7, <1>8 DEF Abstract!Last
<1>12. /\ entry.job # None
       /\ Abstract!Links(entry, Abstract!Ids(AssetEntries(assets')))
       /\ entry.id = d.id /\ entry.job.sha256 = <<"sha256", d.job>>
  BY DerivationAbstract DEF DerivationEntry
<1> HIDE DEF entry
<1>13. ASSUME NEW i \in DOMAIN old PROVE old[i].job.sha256 # entry.job.sha256
  <2>1. old[i].job.sha256 = <<"sha256", derivations[i].job>>
    BY <1>6, <1>8 DEF DerivationEntry
  <2>2. derivations[i].job # d.job
    BY <1>6
  <2> QED BY <1>12, <2>1, <2>2
<1>14. entry.id \notin Abstract!Ids(old)
  BY <1>6, <1>12
<1> QED BY <1>1, <1>3, <1>5, <1>10, <1>11, <1>12, <1>13, <1>14
        DEF Abstract!ImportJob, Abstract!ImportsJob

LEMMA InitRefines == Init => Abstract!Init
<1> SUFFICES ASSUME Init PROVE Abstract!Init
  OBVIOUS
<1>1. assets = <<>> /\ derivations = <<>>
  BY DEF Init
<1>2. AssetEntries(assets) = <<>> /\ DerivationEntries(derivations) = <<>>
  BY <1>1 DEF AssetEntries, DerivationEntries
<1> QED BY <1>2, RecordedParts DEF RecordOf, Abstract!Init

LEMMA NextRefines == IInv /\ IInv' /\ [Next]_vars => [Abstract!Next]_Recorded
<1> SUFFICES ASSUME IInv, IInv', [Next]_vars, ~UNCHANGED vars PROVE Abstract!Next
  <2>1. UNCHANGED vars => UNCHANGED Recorded
    BY DEF vars, Recorded
  <2> QED BY <2>1
<1>1. CASE \E arg \in Args, id \in AskedIds : Add(arg, id)
  BY <1>1, AddSound, AddRegisters DEF Abstract!Next
<1>2. CASE \E to \in JobTargets : ImportJob(to)
  BY <1>2, ImportSound, ImportImports DEF Abstract!Next
<1> QED BY <1>1, <1>2 DEF Next

\* By their real names, through links and dot-dots, add and import do what Registry
\* promises: each adds its entries at the end, with ids and paths nobody has and
\* links that lead to assets, and leaves the rest alone.
THEOREM NamingImplementsRegistry == Spec => ImplementsRegistry
BY InitRefines, NextRefines, AlwaysSound, PTL DEF Spec, ImplementsRegistry, Abstract!Spec

(***************************************************************************)
(* realpath, as the model has it, ends: every component takes one away, a  *)
(* link brings its own but there are only so many links to follow.         *)
(***************************************************************************)
Before(v, w) ==
    v.follows > w.follows \/ (v.follows = w.follows /\ Len(v.parts) < Len(w.parts))

LEMMA BeforeTransitive ==
  ASSUME NEW u \in Calls, NEW v \in Calls, NEW w \in Calls, Before(u, v), Before(v, w)
  PROVE  Before(u, w)
<1>1. \A x \in Calls : x.follows \in Nat /\ Len(x.parts) \in Nat
  BY FollowsAssumption DEF Calls
<1> QED BY <1>1 DEF Before

LEMMA FirstCall ==
  ASSUME NEW S \in SUBSET Calls, S # {}
  PROVE  \E w \in S : \A v \in S : ~Before(v, w)
<1> DEFINE left == {MaxFollows - w.follows : w \in S}
<1>1. \A w \in S : w.follows \in 0..MaxFollows /\ Len(w.parts) \in Nat
  BY DEF Calls
<1>2. \A w \in S : MaxFollows - w.follows \in Nat
  BY <1>1, FollowsAssumption
<1>3. Min(left) \in left /\ \A n \in left : Min(left) <= n
  <2>1. left \in SUBSET Nat /\ left # {}
    BY <1>2
  <2> HIDE DEF left
  <2> QED BY <2>1, MinOfPositions
<1>4. PICK last \in S : \A v \in S : MaxFollows - last.follows <= MaxFollows - v.follows
  BY <1>3
<1> DEFINE late == {w \in S : w.follows = last.follows}
           lens == {Len(w.parts) : w \in late}
<1>5. Min(lens) \in lens /\ \A n \in lens : Min(lens) <= n
  <2>1. lens \in SUBSET Nat /\ lens # {}
    BY <1>1
  <2> HIDE DEF lens
  <2> QED BY <2>1, MinOfPositions
<1>6. PICK w \in late : \A v \in late : Len(w.parts) <= Len(v.parts)
  BY <1>5
<1>7. ASSUME NEW v \in S, Before(v, w) PROVE FALSE
  <2>1. w.follows = last.follows /\ v.follows <= last.follows
    BY <1>1, <1>4, <1>6, FollowsAssumption
  <2>2. v.follows = w.follows /\ Len(v.parts) < Len(w.parts)
    BY <1>1, <1>6, <1>7, <2>1 DEF Before
  <2>3. v \in late
    BY <1>6, <2>2
  <2> QED BY <1>1, <1>6, <2>2, <2>3
<1> QED BY <1>6, <1>7

LEMMA OnwardIsBefore ==
  ASSUME NEW w \in Calls, Goes(w) PROVE Onward(w) \in Calls /\ Before(Onward(w), w)
<1>1. w.at \in Locations /\ w.parts \in Seq(Names) /\ w.follows \in 0..MaxFollows
  BY DEF Calls
<1>2. w.parts # <<>>
  BY DEF Goes, Step
<1>3. Tail(w.parts) \in Seq(Names) /\ Len(Tail(w.parts)) = Len(w.parts) - 1 /\ Len(w.parts) \in Nat
  BY <1>1, <1>2
<1>4. CASE Step(w) = "up"
  <2> DEFINE up == IF w.at = <<>> THEN w.at ELSE Front(w.at)
  <2>1. up \in Locations
    BY <1>1, TreeAssumption
  <2> HIDE DEF up
  <2>2. Onward(w) = Call(up, Tail(w.parts), w.follows)
    BY <1>4 DEF Onward, up
  <2> QED BY <1>1, <1>3, <2>1, <2>2 DEF Call, Calls, Before
<1>5. CASE Step(w) = "down"
  <2>1. Below(w) \in Locations
    BY <1>5 DEF Step
  <2>2. Onward(w) = Call(Below(w), Tail(w.parts), w.follows)
    BY <1>5 DEF Onward
  <2> QED BY <1>1, <1>3, <2>1, <2>2 DEF Call, Calls, Before
<1>6. CASE Step(w) = "link"
  <2> DEFINE to == Tree[Below(w)].to
             from == IF to.absolute THEN <<>> ELSE w.at
  <2>1. Below(w) \in Locations /\ Tree[Below(w)].kind = "link" /\ w.follows # MaxFollows
    BY <1>6 DEF Step
  <2>2. to \in AnyPath
    BY <2>1, TreeAssumption
  <2>3. from \in Locations
    BY <1>1, TreeAssumption
  <2>4. Onward(w) = Call(from, to.parts \o Tail(w.parts), w.follows + 1)
    BY <1>6 DEF Onward
  <2> HIDE DEF to, from
  <2>5. to.parts \o Tail(w.parts) \in Seq(Names)
    BY <1>3, <2>2 DEF AnyPath
  <2>6. w.follows + 1 \in 0..MaxFollows
    BY <1>1, <2>1, FollowsAssumption
  <2> QED BY <1>1, <2>3, <2>4, <2>5, <2>6 DEF Call, Calls, Before
<1> QED BY <1>4, <1>5, <1>6 DEF Goes

WalkStep(f, w) == IF Goes(w) THEN f[Onward(w)] ELSE Answer(w)

UpTo(w) == {v \in Calls : v = w \/ Before(v, w)}

\* f is Walk on a call and on all that come before it.
Walks(f, w) == f = [v \in UpTo(w) |-> WalkStep(f, v)]

LEMMA UpToOnward ==
  ASSUME NEW w \in Calls, NEW v \in UpTo(w), Goes(v)
  PROVE  Onward(v) \in UpTo(w) /\ Onward(v) \in Calls /\ Before(Onward(v), w)
<1>1. v \in Calls /\ (v = w \/ Before(v, w))
  BY DEF UpTo
<1>2. Onward(v) \in Calls /\ Before(Onward(v), v)
  BY <1>1, OnwardIsBefore
<1>3. Before(Onward(v), w)
  BY <1>1, <1>2, BeforeTransitive
<1> QED BY <1>2, <1>3 DEF UpTo

LEMMA WalksAgree ==
  ASSUME NEW w \in Calls, NEW x \in Calls, NEW f, NEW g, Walks(f, w), Walks(g, x),
         NEW v, v \in UpTo(w), v \in UpTo(x)
  PROVE  f[v] = g[v]
<1> DEFINE odd == {u \in UpTo(w) : u \in UpTo(x) /\ f[u] # g[u]}
<1>1. SUFFICES ASSUME odd # {} PROVE FALSE
  OBVIOUS
<1>2. PICK u \in odd : \A t \in odd : ~Before(t, u)
  <2>1. odd \in SUBSET Calls
    BY DEF UpTo
  <2> HIDE DEF odd
  <2> QED BY <1>1, <2>1, FirstCall
<1>3. u \in UpTo(w) /\ u \in UpTo(x) /\ f[u] # g[u]
  OBVIOUS
<1>4. f[u] = WalkStep(f, u) /\ g[u] = WalkStep(g, u)
  BY <1>3 DEF Walks
<1>5. Goes(u) => f[Onward(u)] = g[Onward(u)]
  <2> SUFFICES ASSUME Goes(u) PROVE f[Onward(u)] = g[Onward(u)]
    OBVIOUS
  <2>1. Onward(u) \in UpTo(w) /\ Onward(u) \in UpTo(x)
    BY <1>3, UpToOnward
  <2>2. Before(Onward(u), u)
    BY <1>3, OnwardIsBefore DEF UpTo
  <2>3. Onward(u) \notin odd
    <3> HIDE DEF odd
    <3> QED BY <1>2, <2>2
  <2> QED BY <2>1, <2>3
<1> QED BY <1>3, <1>4, <1>5 DEF WalkStep

LEMMA WalksExist == ASSUME NEW w \in Calls PROVE \E f : Walks(f, w)
<1> DEFINE stuck == {v \in Calls : ~\E f : Walks(f, v)}
           upTo(v) == CHOOSE f : Walks(f, v)
<1>1. SUFFICES ASSUME stuck # {} PROVE FALSE
  OBVIOUS
<1>2. PICK x \in stuck : \A v \in stuck : ~Before(v, x)
  <2>1. stuck \in SUBSET Calls
    OBVIOUS
  <2> HIDE DEF stuck
  <2> QED BY <1>1, <2>1, FirstCall
<1>3. x \in Calls /\ ~\E f : Walks(f, x)
  OBVIOUS
<1>4. ASSUME NEW v \in Calls, Before(v, x) PROVE Walks(upTo(v), v)
  <2>1. v \notin stuck
    <3> HIDE DEF stuck
    <3> QED BY <1>2, <1>4
  <2>2. \E f : Walks(f, v)
    BY <2>1
  <2> QED BY <2>2
<1> HIDE DEF upTo
<1> DEFINE earlier == [v \in Calls |-> upTo(v)[v]]
           g == [v \in UpTo(x) |-> IF v = x THEN WalkStep(earlier, x) ELSE earlier[v]]
<1>5. ASSUME NEW v \in Calls, Before(v, x) PROVE earlier[v] = WalkStep(earlier, v)
  <2>1. Walks(upTo(v), v) /\ v \in UpTo(v)
    BY <1>4, <1>5 DEF UpTo
  <2>2. upTo(v)[v] = WalkStep(upTo(v), v)
    BY <2>1 DEF Walks
  <2>3. Goes(v) => upTo(v)[Onward(v)] = earlier[Onward(v)]
    <3> SUFFICES ASSUME Goes(v) PROVE upTo(v)[Onward(v)] = earlier[Onward(v)]
      OBVIOUS
    <3>1. Onward(v) \in UpTo(v) /\ Onward(v) \in Calls /\ Before(Onward(v), v)
      BY <2>1, UpToOnward
    <3>2. Before(Onward(v), x)
      BY <1>3, <1>5, <3>1, BeforeTransitive
    <3>3. Walks(upTo(Onward(v)), Onward(v)) /\ Onward(v) \in UpTo(Onward(v))
      BY <1>4, <3>1, <3>2 DEF UpTo
    <3>4. upTo(v)[Onward(v)] = upTo(Onward(v))[Onward(v)]
      BY <2>1, <3>1, <3>3, WalksAgree
    <3> QED BY <3>1, <3>4
  <2> QED BY <2>2, <2>3 DEF WalkStep
<1> HIDE DEF earlier
<1>6. x \in UpTo(x) /\ \A v \in UpTo(x) : v # x => v \in Calls /\ Before(v, x)
  BY <1>3 DEF UpTo
<1>7. \A v \in UpTo(x) : Before(v, x) => v # x
  BY <1>3, FollowsAssumption DEF Before, Calls
<1>8. \A v \in UpTo(x) : v # x => g[v] = earlier[v]
  OBVIOUS
<1>9. g[x] = WalkStep(earlier, x) /\ g = [v \in UpTo(x) |-> g[v]]
  BY <1>6
<1> HIDE DEF g
<1>10. ASSUME NEW v \in UpTo(x) PROVE g[v] = WalkStep(g, v)
  <2>1. g[v] = WalkStep(earlier, v)
    BY <1>5, <1>6, <1>8, <1>9
  <2>2. Goes(v) => g[Onward(v)] = earlier[Onward(v)]
    BY <1>3, <1>7, <1>8, UpToOnward
  <2> QED BY <2>1, <2>2 DEF WalkStep
<1>11. Walks(g, x)
  BY <1>9, <1>10 DEF Walks
<1> QED BY <1>3, <1>11

LEMMA WalkRecurs == \A w \in Calls : Walk[w] = WalkStep(Walk, w)
<1> DEFINE upTo(v) == CHOOSE f : Walks(f, v)
           whole == [v \in Calls |-> upTo(v)[v]]
           Fits(f) == f = [w \in Calls |-> WalkStep(f, w)]
<1>1. ASSUME NEW v \in Calls PROVE Walks(upTo(v), v)
  BY WalksExist
<1> HIDE DEF upTo
<1>2. ASSUME NEW v \in Calls PROVE whole[v] = WalkStep(whole, v)
  <2>1. v \in UpTo(v)
    BY DEF UpTo
  <2>2. upTo(v)[v] = WalkStep(upTo(v), v)
    BY <1>1, <2>1 DEF Walks
  <2>3. Goes(v) => upTo(v)[Onward(v)] = whole[Onward(v)]
    <3> SUFFICES ASSUME Goes(v) PROVE upTo(v)[Onward(v)] = whole[Onward(v)]
      OBVIOUS
    <3>1. Onward(v) \in UpTo(v) /\ Onward(v) \in Calls
      BY <2>1, UpToOnward
    <3>2. Onward(v) \in UpTo(Onward(v))
      BY <3>1 DEF UpTo
    <3>3. upTo(v)[Onward(v)] = upTo(Onward(v))[Onward(v)]
      BY <1>1, <3>1, <3>2, WalksAgree
    <3> QED BY <3>1, <3>3
  <2> QED BY <2>2, <2>3 DEF WalkStep
<1>3. Fits(whole)
  BY <1>2
<1>4. Walk = CHOOSE f : Fits(f)
  BY DEF Walk, WalkStep
<1>5. Fits(Walk)
  <2> HIDE DEF Fits
  <2> QED BY <1>3, <1>4
<1> QED BY <1>5

(***************************************************************************)
(* From the root down to a file there is nothing but directories.          *)
(***************************************************************************)
LEMMA SameSequence ==
  ASSUME NEW S, NEW s \in Seq(S), NEW t \in Seq(S), NEW n \in Nat, Len(s) = n, Len(t) = n,
         \A i \in 1..n : s[i] = t[i]
  PROVE  s = t
OBVIOUS

LEMMA CutSequence ==
  ASSUME NEW S, NEW s \in Seq(S), NEW k \in Nat, k < Len(s)
  PROVE  LET upper == SubSeq(s, 1, k)  lower == SubSeq(s, k + 1, Len(s))
             longer == SubSeq(s, 1, k + 1)
         IN  /\ upper \in Seq(S) /\ Len(upper) = k
             /\ lower \in Seq(S) /\ Len(lower) = Len(s) - k /\ lower # <<>>
             /\ Head(lower) = s[k + 1] /\ Tail(lower) = SubSeq(s, k + 2, Len(s))
             /\ longer \in Seq(S) /\ longer # <<>> /\ Front(longer) = upper
             /\ Last(longer) = s[k + 1] /\ Append(upper, s[k + 1]) = longer
<1> DEFINE upper == SubSeq(s, 1, k)  lower == SubSeq(s, k + 1, Len(s))
           longer == SubSeq(s, 1, k + 1)
<1>1. Len(s) \in Nat /\ k + 1 \in 1..Len(s) /\ s[k + 1] \in S
  OBVIOUS
<1>2. upper \in Seq(S) /\ Len(upper) = k /\ \A i \in 1..k : upper[i] = s[i]
  BY <1>1
<1>3. lower \in Seq(S) /\ Len(lower) = Len(s) - k
      /\ \A i \in 1..(Len(s) - k) : lower[i] = s[k + i]
  BY <1>1
<1>4. longer \in Seq(S) /\ Len(longer) = k + 1 /\ \A i \in 1..(k + 1) : longer[i] = s[i]
  BY <1>1
<1>5. Head(lower) = s[k + 1] /\ Tail(lower) = SubSeq(s, k + 2, Len(s))
  <2>1. Head(lower) = s[k + 1]
    BY <1>1, <1>3
  <2> DEFINE t == SubSeq(s, k + 2, Len(s))
  <2>2. t \in Seq(S) /\ Len(t) = Len(s) - (k + 1)
        /\ \A i \in 1..(Len(s) - (k + 1)) : t[i] = s[k + 1 + i]
    BY <1>1
  <2>3. Tail(lower) \in Seq(S) /\ Len(Tail(lower)) = Len(s) - (k + 1)
        /\ \A i \in 1..(Len(s) - (k + 1)) : Tail(lower)[i] = lower[i + 1]
    <3> HIDE DEF lower
    <3> QED BY <1>1, <1>3
  <2>4. \A i \in 1..(Len(s) - (k + 1)) : Tail(lower)[i] = t[i]
    <3> SUFFICES ASSUME NEW i \in 1..(Len(s) - (k + 1)) PROVE Tail(lower)[i] = t[i]
      OBVIOUS
    <3>1. i + 1 \in 1..(Len(s) - k) /\ k + (i + 1) = k + 1 + i
      BY <1>1
    <3> HIDE DEF lower, t
    <3> QED BY <1>3, <2>2, <2>3, <3>1
  <2> HIDE DEF lower, t
  <2>5. Tail(lower) = t
    <3>1. Len(s) - (k + 1) \in Nat
      BY <1>1
    <3> QED BY <2>2, <2>3, <2>4, <3>1, SameSequence
  <2> QED BY <2>1, <2>5 DEF t
<1>6. lower # <<>> /\ longer # <<>>
  <2>1. Len(<<>>) = 0
    OBVIOUS
  <2> HIDE DEF lower, longer
  <2> QED BY <1>1, <1>3, <1>4, <2>1
<1>7. Append(upper, s[k + 1]) = longer
  <2> HIDE DEF upper, longer
  <2> QED BY <1>1, <1>2, <1>4
<1>8. Front(longer) = upper /\ Last(longer) = s[k + 1]
  <2>1. SubSeq(longer, 1, k) = upper
    <3> HIDE DEF upper, longer
    <3> QED BY <1>1, <1>2, <1>4
  <2>2. Len(longer) - 1 = k
    <3> HIDE DEF longer
    <3> QED BY <1>4
  <2> HIDE DEF upper, longer
  <2> QED BY <1>1, <1>4, <2>1, <2>2 DEF Front, Last
<1> QED BY <1>2, <1>3, <1>4, <1>5, <1>6, <1>7, <1>8

LEMMA WholeSequence ==
  ASSUME NEW S, NEW s \in Seq(S)
  PROVE  SubSeq(s, 1, Len(s)) = s /\ SubSeq(s, Len(s) + 1, Len(s)) = <<>>
OBVIOUS

LEMMA PlacesAbove ==
  ASSUME NEW at \in Locations, NEW k \in Nat, k < Len(at)
  PROVE  SubSeq(at, 1, k) \in Locations /\ Tree[SubSeq(at, 1, k)] = Dir /\ at[k + 1] # Up
<1>1. at \in Seq(Names) /\ Len(at) \in Nat
  BY TreeAssumption
<1> DEFINE stray == {n \in 1..Len(at) : SubSeq(at, 1, n) \notin Locations}
<1>2. ASSUME NEW n \in Nat, n < Len(at), SubSeq(at, 1, n + 1) \in Locations
      PROVE  SubSeq(at, 1, n) \in Locations /\ Tree[SubSeq(at, 1, n)] = Dir /\ at[n + 1] # Up
  <2> DEFINE longer == SubSeq(at, 1, n + 1)
  <2>1. longer # <<>> /\ Front(longer) = SubSeq(at, 1, n) /\ Last(longer) = at[n + 1]
    BY <1>1, <1>2, CutSequence
  <2> HIDE DEF longer
  <2>2. longer \in Locations \ {<<>>}
    BY <1>2, <2>1 DEF longer
  <2> QED BY <2>1, <2>2, TreeAssumption
<1>3. stray = {}
  <2> SUFFICES ASSUME stray # {} PROVE FALSE
    OBVIOUS
  <2> DEFINE n == Max(stray)
  <2>1. n \in stray /\ \A i \in stray : i <= n
    <3>1. stray \in SUBSET (1..Len(at))
      OBVIOUS
    <3> HIDE DEF stray
    <3> QED BY <1>1, <3>1, MaxOfPositions
  <2> HIDE DEF n
  <2>2. n \in 1..Len(at) /\ SubSeq(at, 1, n) \notin Locations
    BY <2>1
  <2>3. n # Len(at)
    BY <1>1, <2>2, WholeSequence
  <2>4. n \in Nat /\ n < Len(at) /\ n + 1 \in 1..Len(at) /\ ~(n + 1 <= n)
    BY <1>1, <2>2, <2>3
  <2>5. n + 1 \notin stray
    <3> HIDE DEF stray
    <3> QED BY <2>1, <2>4
  <2>6. SubSeq(at, 1, n + 1) \in Locations
    BY <2>4, <2>5
  <2> QED BY <1>2, <2>2, <2>4, <2>6
<1>4. SubSeq(at, 1, k + 1) \in Locations
  BY <1>1, <1>3
<1> QED BY <1>2, <1>4

\* Where the walk to a file is when j components are still to go.
OnTheWay(at, j) == Call(SubSeq(at, 1, Len(at) - j), SubSeq(at, Len(at) - j + 1, Len(at)), 0)

LEMMA WalkArrives ==
  ASSUME NEW at \in Files, NEW n \in 0..Len(at) PROVE Walk[OnTheWay(at, n)] = Found(at)
<1>1. at \in Locations /\ Tree[at] = File /\ at \in Seq(Names) /\ Len(at) \in Nat
  BY TreeAssumption DEF Files
<1> DEFINE astray == {j \in 0..Len(at) : Walk[OnTheWay(at, j)] # Found(at)}
<1>2. SUFFICES ASSUME astray # {} PROVE FALSE
  OBVIOUS
<1> DEFINE j == Min(astray)
<1>3. j \in astray /\ \A i \in astray : j <= i
  <2>1. astray \in SUBSET Nat
    BY <1>1
  <2> HIDE DEF astray
  <2> QED BY <1>2, <2>1, MinOfPositions
<1> HIDE DEF j
<1>4. j \in 0..Len(at) /\ Walk[OnTheWay(at, j)] # Found(at)
  BY <1>3
<1>5. 0 \in 0..MaxFollows
  BY FollowsAssumption
<1>6. CASE j = 0
  <2> DEFINE w == OnTheWay(at, 0)
  <2>1. w = Call(at, <<>>, 0)
    <3>1. Len(at) - 0 = Len(at) /\ Len(at) - 0 + 1 = Len(at) + 1
      BY <1>1
    <3>2. SubSeq(at, 1, Len(at)) = at /\ SubSeq(at, Len(at) + 1, Len(at)) = <<>>
      BY <1>1, WholeSequence
    <3> QED BY <3>1, <3>2 DEF OnTheWay
  <2> HIDE DEF w
  <2>2. w \in Calls /\ w.at = at /\ w.parts = <<>>
    BY <1>1, <1>5, <2>1 DEF Call, Calls
  <2>3. Step(w) = "end"
    BY <2>2 DEF Step
  <2>4. Walk[w] = Found(at)
    BY <2>2, <2>3, WalkRecurs DEF WalkStep, Goes, Answer
  <2> QED BY <1>4, <1>6, <2>4 DEF w
<1>7. CASE j # 0
  <2> DEFINE k == Len(at) - j
             upper == SubSeq(at, 1, k)
             lower == SubSeq(at, k + 1, Len(at))
             longer == SubSeq(at, 1, k + 1)
             w == OnTheWay(at, j)
  <2>1. k \in Nat /\ k < Len(at) /\ j - 1 \in 0..Len(at) /\ Len(at) - (j - 1) = k + 1
        /\ ~(j <= j - 1)
    BY <1>1, <1>4, <1>7
  <2>2. w = Call(upper, lower, 0)
    BY DEF OnTheWay
  <2>3. OnTheWay(at, j - 1) = Call(longer, SubSeq(at, k + 2, Len(at)), 0)
    BY <1>1, <2>1 DEF OnTheWay
  <2> HIDE DEF k
  <2>4. /\ lower \in Seq(Names) /\ lower # <<>> /\ Head(lower) = at[k + 1]
        /\ Tail(lower) = SubSeq(at, k + 2, Len(at)) /\ Append(upper, at[k + 1]) = longer
    BY <1>1, <2>1, CutSequence
  <2>5. upper \in Locations /\ Tree[upper] = Dir /\ at[k + 1] # Up
    BY <1>1, <2>1, PlacesAbove
  <2>6. longer \in Locations /\ Tree[longer].kind # "link"
    <3>1. CASE k + 1 = Len(at)
      <4>1. longer = at
        BY <1>1, <3>1, WholeSequence
      <4>2. File.kind # "link"
        BY DEF File
      <4> HIDE DEF longer
      <4> QED BY <1>1, <4>1, <4>2
    <3>2. CASE k + 1 # Len(at)
      <4>1. k + 1 \in Nat /\ k + 1 < Len(at)
        BY <1>1, <2>1, <3>2
      <4>2. longer \in Locations /\ Tree[longer] = Dir
        BY <1>1, <4>1, PlacesAbove
      <4>3. Dir.kind # "link"
        BY DEF Dir
      <4> QED BY <4>2, <4>3
    <3> QED BY <3>1, <3>2
  <2> HIDE DEF upper, lower, longer, w
  <2>7. w \in Calls /\ w.at = upper /\ w.parts = lower /\ w.follows = 0
    BY <1>5, <2>2, <2>4, <2>5 DEF Call, Calls
  <2>8. Below(w) = longer
    BY <2>4, <2>7 DEF Below
  <2>9. Step(w) = "down"
    BY <2>4, <2>5, <2>6, <2>7, <2>8 DEF Step
  <2>10. Onward(w) = OnTheWay(at, j - 1)
    BY <2>3, <2>4, <2>7, <2>8, <2>9 DEF Onward
  <2>11. Walk[w] = Walk[OnTheWay(at, j - 1)]
    BY <2>7, <2>9, <2>10, WalkRecurs DEF WalkStep, Goes
  <2>12. j - 1 \notin astray
    <3> HIDE DEF astray
    <3> QED BY <1>3, <2>1
  <2> QED BY <1>4, <2>1, <2>11, <2>12 DEF w
<1> QED BY <1>6, <1>7

LEMMA StoredIsBelow ==
  ASSUME NEW at \in Files, Inside(at), IsUtf8(at)
  PROVE  StoredForm(at) = SubSeq(at, Len(Root) + 1, Len(at))
<1> DEFINE below == SubSeq(at, Len(Root) + 1, Len(at))
<1>1. at \in Seq(Names) /\ Len(at) \in Nat /\ Root \in Seq(Names) /\ Len(Root) \in Nat
      /\ Len(Root) < Len(at)
  BY FilesBelowRoot, TreeAssumption
<1>2. below \in Seq(Names) /\ Len(below) = Len(at) - Len(Root)
      /\ \A i \in 1..(Len(at) - Len(Root)) : below[i] = at[Len(Root) + i]
  BY <1>1
<1> HIDE DEF below
<1>3. DOMAIN below = 1..(Len(at) - Len(Root)) /\ DOMAIN at = 1..Len(at)
  BY <1>1, <1>2
<1>4. ASSUME NEW i \in DOMAIN below PROVE LossyOf[below[i]] = below[i]
  <2>1. Len(Root) + i \in DOMAIN at
    BY <1>1, <1>3
  <2> QED BY <1>2, <1>3, <2>1 DEF IsUtf8
<1>5. StoredForm(at) = [i \in DOMAIN below |-> LossyOf[below[i]]]
  BY DEF StoredForm, below
<1>6. below = [i \in DOMAIN below |-> below[i]]
  BY <1>2
<1> QED BY <1>4, <1>5, <1>6 DEF below

\* What is recorded for a file leads back to it.
LEMMA FileReached ==
  ASSUME NEW at \in Files, Inside(at), IsUtf8(at) PROVE ReadBack(StoredForm(at)) = Found(at)
<1> DEFINE n == Len(at) - Len(Root)
<1>1. at \in Seq(Names) /\ Len(at) \in Nat /\ Root \in Seq(Names) /\ Len(Root) \in Nat
      /\ Len(Root) < Len(at)
  BY FilesBelowRoot, TreeAssumption
<1>2. n \in 0..Len(at) /\ Len(at) - n = Len(Root)
  BY <1>1
<1>3. SubSeq(at, 1, Len(Root)) = Root
  BY <1>1, WholeSequence DEF Inside, IsPrefix
<1> HIDE DEF n
<1>4. OnTheWay(at, n) = Call(Root, SubSeq(at, Len(Root) + 1, Len(at)), 0)
  BY <1>2, <1>3 DEF OnTheWay
<1> QED BY <1>2, <1>4, WalkArrives, StoredIsBelow DEF ReadBack

\* By whatever links and dots a user or a record came to a file: the path recorded
\* for it leads to the file that was hashed, unless a name in it is not UTF-8.
THEOREM PathsAlwaysResolve == Spec => []RecordedPathsResolve
<1>1. IInv => RecordedPathsResolve
  BY FileReached DEF IInv, RecordedPathsResolve, AssetsSound, Resolved
<1> QED BY <1>1, AlwaysSound, PTL
=============================================================================
