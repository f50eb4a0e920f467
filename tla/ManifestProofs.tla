--------------------------- MODULE ManifestProofs ---------------------------
(***************************************************************************)
(* The ids of a manifest, for every vocabulary, base name and set of ids   *)
(* in use: mint_id_with ends, and returns a slug nobody has.               *)
(***************************************************************************)
EXTENDS Manifest, FiniteSetTheorems, WellFoundedInduction, TLAPS

LEMMA MinOfNaturals ==
  ASSUME NEW S \in SUBSET Nat, S # {}
  PROVE  Min(S) \in S /\ \A n \in S : Min(S) <= n
<1> DEFINE less == {pair \in Nat \X Nat : pair[1] < pair[2]}
<1>1. IsWellFoundedOn(less, Nat)
  BY NatLessThanWellFounded, Zenon DEF OpToRel
<1>2. PICK least \in S : \A n \in S : <<n, least>> \notin less
  <2> HIDE DEF less
  <2> QED BY <1>1, WFMin
<1>3. ASSUME NEW n \in S PROVE least <= n
  <2> DEFINE pair == <<n, least>>
  <2>1. pair \in Nat \X Nat /\ pair[1] = n /\ pair[2] = least
    OBVIOUS
  <2>2. ~(n < least)
    BY <1>2, <2>1
  <2> QED BY <2>2
<1> QED BY <1>3 DEF Min

\* No two of the candidate ids are the same: the code tries new ones only.
LEMMA SuffixesDiffer ==
  ASSUME NEW base \in Slugs, NEW m \in Nat \ {0}, NEW n \in Nat \ {0},
         Suffixed(base, m) = Suffixed(base, n)
  PROVE  m = n
<1> DEFINE tokens == Words \cup Nat
<1>1. base \in Seq(tokens) /\ m \in tokens /\ n \in tokens
  BY DEF Slugs
<1> HIDE DEF tokens
<1>2. \A k \in tokens : Len(Append(base, k)) = Len(base) + 1 /\ Last(Append(base, k)) = k
  BY <1>1 DEF Last
<1>3. Len(base) \in Nat
  BY <1>1
<1>4. \A k \in tokens : Append(base, k) # base
  BY <1>2, <1>3
<1> QED BY <1>1, <1>2, <1>4 DEF Suffixed

LEMMA SuffixedIsSlug ==
  ASSUME NEW base \in Slugs, NEW n \in Nat PROVE Suffixed(base, n) \in Slugs
<1> DEFINE tokens == Words \cup Nat
<1>1. base \in Seq(tokens) /\ n \in tokens
  BY DEF Slugs
<1>2. Append(base, n) \in Seq(tokens) /\ Len(Append(base, n)) = Len(base) + 1
  <2> HIDE DEF tokens
  <2> QED BY <1>1
<1>3. Len(base) \in Nat /\ Len(<<>>) = 0
  <2> HIDE DEF tokens
  <2> QED BY <1>1
<1>4. Append(base, n) # <<>>
  BY <1>2, <1>3
<1> QED BY <1>2, <1>4 DEF Suffixed, Slugs

\* Of the first |taken| + 1 candidates one is free: the search ends.
LEMMA SomeSuffixIsFree ==
  ASSUME NEW base \in Slugs, NEW taken, IsFiniteSet(taken)
  PROVE  FreeSuffixes(base, taken) # {}
<1> DEFINE tries == 1..(Cardinality(taken) + 1)
           candidate == [n \in tries |-> Suffixed(base, n)]
<1>1. Cardinality(taken) \in Nat
  BY FS_CardinalityType
<1>2. IsFiniteSet(tries) /\ Cardinality(tries) = Cardinality(taken) + 1
  BY <1>1, FS_Interval
<1>3. SUFFICES ASSUME FreeSuffixes(base, taken) = {} PROVE FALSE
  OBVIOUS
<1>4. candidate \in [tries -> taken]
  BY <1>3 DEF FreeSuffixes
<1>5. Cardinality(taken) < Cardinality(tries)
  BY <1>1, <1>2
<1>6. PICK m, n \in tries : m # n /\ candidate[m] = candidate[n]
  <2> HIDE DEF tries, candidate
  <2> QED BY <1>2, <1>4, <1>5, FS_PigeonHole
<1>7. m \in Nat \ {0} /\ n \in Nat \ {0}
  BY <1>1
<1> QED BY <1>6, <1>7, SuffixesDiffer

(***************************************************************************)
(* The id minted for an asset, a derivation or an evaluation is a slug,    *)
(* none of the ids in use, and the first such candidate: the bare base     *)
(* name whenever that is free.                                             *)
(***************************************************************************)
THEOREM MintIsFresh ==
  ASSUME NEW base \in Slugs, NEW taken, IsFiniteSet(taken)
  PROVE  /\ Mint(base, taken) \in Slugs \ taken
         /\ base \notin taken => Mint(base, taken) = base
<1> DEFINE free == FreeSuffixes(base, taken)
<1>1. Cardinality(taken) \in Nat
  BY FS_CardinalityType
<1>2. free \in SUBSET (Nat \ {0}) /\ free # {}
  BY <1>1, SomeSuffixIsFree DEF FreeSuffixes
<1>3. Min(free) \in free /\ \A n \in free : Min(free) <= n
  BY <1>2, MinOfNaturals
<1>4. Mint(base, taken) \in Slugs \ taken
  BY <1>2, <1>3, SuffixedIsSlug DEF Mint, FreeSuffixes
<1>5. ASSUME base \notin taken PROVE Mint(base, taken) = base
  <2>1. 1 \in free
    BY <1>1, <1>5 DEF FreeSuffixes, Suffixed
  <2>2. Min(free) = 1
    BY <1>2, <1>3, <2>1
  <2> QED BY <2>2 DEF Mint, Suffixed
<1> QED BY <1>4, <1>5

(***************************************************************************)
(* The id of an evaluation names its candidates, however many: it is a     *)
(* slug.  FlattenSeq recurs along the sequence; the first place where it   *)
(* would fail has a predecessor where it does not.                         *)
(***************************************************************************)
NonEmpty(T) == Seq(T) \ {<<>>}

LEMMA ConcatNonEmpty ==
  ASSUME NEW T, NEW s \in NonEmpty(T), NEW t \in NonEmpty(T) PROVE s \o t \in NonEmpty(T)
<1>1. s \in Seq(T) /\ t \in Seq(T) /\ Len(s) # 0
  BY DEF NonEmpty
<1>2. s \o t \in Seq(T) /\ Len(s \o t) = Len(s) + Len(t) /\ Len(s) \in Nat /\ Len(t) \in Nat
  BY <1>1
<1>3. Len(<<>>) = 0
  OBVIOUS
<1> QED BY <1>1, <1>2, <1>3 DEF NonEmpty

LEMMA FlattenNonEmpty ==
  ASSUME NEW T, NEW seqs \in Seq(NonEmpty(T)), Len(seqs) # 0
  PROVE  FlattenSeq(seqs) \in NonEmpty(T)
<1> DEFINE n == Len(seqs)
           Entry(f, i) == IF i = 1 THEN seqs[i] ELSE f[i-1] \o seqs[i]
           Builds(f, k) == /\ f \in [1..k -> NonEmpty(T)]
                           /\ \A i \in 1..k : f[i] = Entry(f, i)
           stuck == {k \in 1..n : ~\E f : Builds(f, k)}
           Whole(f) == f = [i \in 1..n |-> Entry(f, i)]
<1>1. n \in Nat \ {0} /\ \A i \in 1..n : seqs[i] \in NonEmpty(T)
  OBVIOUS
<1>2. stuck = {}
  <2> SUFFICES ASSUME stuck # {} PROVE FALSE
    OBVIOUS
  <2> DEFINE k == Min(stuck)
  <2>1. k \in stuck /\ \A m \in stuck : k <= m
    <3>1. stuck \in SUBSET Nat
      BY <1>1
    <3> HIDE DEF stuck
    <3> QED BY <3>1, MinOfNaturals
  <2>2. k \in 1..n /\ ~\E f : Builds(f, k)
    BY <2>1
  <2> HIDE DEF k
  <2>3. CASE k = 1
    <3> DEFINE one == [i \in 1..1 |-> seqs[1]]
    <3>1. Builds(one, 1)
      BY <1>1
    <3> QED BY <2>2, <2>3, <3>1
  <2>4. CASE k # 1
    <3>1. k - 1 \in 1..n /\ k - 1 \notin stuck
      <4>1. k - 1 \in 1..n /\ ~(k <= k - 1)
        BY <1>1, <2>2, <2>4
      <4> HIDE DEF stuck
      <4> QED BY <2>1, <4>1
    <3>2. PICK f : Builds(f, k - 1)
      BY <3>1
    <3> DEFINE g == [i \in 1..k |-> IF i = k THEN f[k - 1] \o seqs[k] ELSE f[i]]
    <3>3. f[k - 1] \in NonEmpty(T) /\ seqs[k] \in NonEmpty(T)
      BY <1>1, <2>2, <2>4, <3>1, <3>2
    <3>4. f[k - 1] \o seqs[k] \in NonEmpty(T)
      BY <3>3, ConcatNonEmpty
    <3>5. g \in [1..k -> NonEmpty(T)]
      BY <1>1, <2>2, <3>2, <3>4
    <3>6. ASSUME NEW i \in 1..k PROVE g[i] = Entry(g, i)
      <4>1. CASE i = k
        <5>1. k - 1 \in 1..k /\ k \in 1..k /\ k - 1 # k
          BY <1>1, <2>2, <2>4
        <5>2. g[k] = f[k - 1] \o seqs[k] /\ g[k - 1] = f[k - 1]
          BY <5>1
        <5> QED BY <2>4, <4>1, <5>2
      <4>2. CASE i # k
        <5>1. i \in 1..(k - 1) /\ (i # 1 => i - 1 \in 1..(k - 1))
          BY <1>1, <2>2, <4>2
        <5>2. g[i] = f[i] /\ (i # 1 => g[i - 1] = f[i - 1])
          BY <1>1, <2>2, <5>1
        <5> QED BY <3>2, <5>1, <5>2
      <4> QED BY <4>1, <4>2
    <3> QED BY <2>2, <3>5, <3>6
  <2> QED BY <2>3, <2>4
<1>3. \E f : Whole(f)
  <2>1. n \in 1..n
    BY <1>1
  <2>2. PICK f : Builds(f, n)
    BY <1>2, <2>1
  <2>3. f = [i \in 1..n |-> f[i]]
    BY <2>2
  <2> QED BY <2>2, <2>3
<1> DEFINE flatten == CHOOSE f : Whole(f)
<1>4. Whole(flatten)
  <2> HIDE DEF Whole
  <2> QED BY <1>3
<1>5. FlattenSeq(seqs) = flatten[n]
  BY DEF FlattenSeq
<1> HIDE DEF flatten
<1> DEFINE other == {k \in 1..n : flatten[k] \notin NonEmpty(T)}
<1>6. other = {}
  <2> SUFFICES ASSUME other # {} PROVE FALSE
    OBVIOUS
  <2> DEFINE k == Min(other)
  <2>1. k \in other /\ \A m \in other : k <= m
    <3>1. other \in SUBSET Nat
      BY <1>1
    <3> HIDE DEF other
    <3> QED BY <3>1, MinOfNaturals
  <2> HIDE DEF k
  <2>2. k \in 1..n /\ flatten[k] \notin NonEmpty(T) /\ flatten[k] = Entry(flatten, k)
    BY <1>4, <2>1
  <2>3. CASE k = 1
    BY <1>1, <2>2, <2>3
  <2>4. CASE k # 1
    <3>1. k - 1 \in 1..n /\ k - 1 \notin other
      BY <1>1, <2>1, <2>2, <2>4
    <3>2. flatten[k - 1] \in NonEmpty(T) /\ seqs[k] \in NonEmpty(T)
      BY <1>1, <2>2, <3>1
    <3> QED BY <2>2, <2>4, <3>2, ConcatNonEmpty
  <2> QED BY <2>3, <2>4
<1> QED BY <1>1, <1>5, <1>6

LEMMA MatchupIsSlug ==
  ASSUME NEW candidates \in Seq(Slugs), Len(candidates) # 0
  PROVE  Matchup(candidates) \in Slugs
<1> DEFINE T == Words \cup Nat
           pieces == [i \in DOMAIN candidates |->
                        IF i = 1 THEN candidates[i] ELSE <<Vs>> \o candidates[i]]
<1>1. Slugs = NonEmpty(T)
  BY DEF Slugs, NonEmpty
<1>2. <<Vs>> \in NonEmpty(T)
  BY VsAssumption DEF NonEmpty
<1> HIDE DEF T
<1>3. \A i \in DOMAIN candidates : candidates[i] \in NonEmpty(T)
  BY <1>1
<1>4. \A i \in DOMAIN candidates : <<Vs>> \o candidates[i] \in NonEmpty(T)
  BY <1>2, <1>3, ConcatNonEmpty
<1>5. pieces \in Seq(NonEmpty(T)) /\ Len(pieces) # 0
  <2>1. DOMAIN candidates = 1..Len(candidates) /\ Len(candidates) \in Nat
    OBVIOUS
  <2>2. pieces \in [1..Len(candidates) -> NonEmpty(T)]
    BY <1>3, <1>4, <2>1
  <2> HIDE DEF pieces
  <2> QED BY <2>1, <2>2
<1> QED BY <1>1, <1>5, FlattenNonEmpty DEF Matchup

(***************************************************************************)
(* Sequences that grow at the end.                                         *)
(***************************************************************************)
LEMMA PrefixEntries ==
  ASSUME NEW S, NEW old \in Seq(S), NEW new \in Seq(S), IsPrefix(old, new)
  PROVE  /\ Len(old) <= Len(new)
         /\ DOMAIN old \subseteq DOMAIN new
         /\ \A i \in DOMAIN old : new[i] = old[i]
<1>1. Len(old) <= Len(new) /\ SubSeq(old, 1, Len(old)) = SubSeq(new, 1, Len(old))
  BY DEF IsPrefix
<1>2. DOMAIN old = 1..Len(old) /\ DOMAIN new = 1..Len(new)
  OBVIOUS
<1>3. \A i \in 1..Len(old) : SubSeq(old, 1, Len(old))[i] = old[i]
  OBVIOUS
<1>4. \A i \in 1..Len(old) : SubSeq(new, 1, Len(old))[i] = new[i]
  BY <1>1
<1> QED BY <1>1, <1>2, <1>3, <1>4

LEMMA PrefixReflexive == ASSUME NEW S, NEW s \in Seq(S) PROVE IsPrefix(s, s)
BY DEF IsPrefix

LEMMA AppendType ==
  ASSUME NEW S, NEW s \in Seq(S), NEW x \in S
  PROVE  /\ Append(s, x) \in Seq(S) /\ Len(Append(s, x)) = Len(s) + 1
         /\ DOMAIN Append(s, x) = DOMAIN s \cup {Len(s) + 1}
         /\ \A i \in DOMAIN s : Append(s, x)[i] = s[i]
         /\ Append(s, x)[Len(s) + 1] = x
OBVIOUS

LEMMA AppendsOneMore ==
  ASSUME NEW S, NEW s \in Seq(S), NEW x \in S
  PROVE  AppendsOne(s, Append(s, x)) /\ Last(Append(s, x)) = x
<1>1. Append(s, x) \in Seq(S) /\ Len(Append(s, x)) = Len(s) + 1
      /\ (\A i \in DOMAIN s : Append(s, x)[i] = s[i]) /\ Append(s, x)[Len(s) + 1] = x
  BY AppendType
<1>2. SubSeq(s, 1, Len(s)) = SubSeq(Append(s, x), 1, Len(s))
  BY <1>1
<1> QED BY <1>1, <1>2 DEF AppendsOne, IsPrefix, Last

LEMMA AppendsOneLast ==
  ASSUME NEW S, NEW old \in Seq(S), NEW new \in Seq(S), AppendsOne(old, new)
  PROVE  /\ DOMAIN new = DOMAIN old \cup {Len(new)}
         /\ Len(new) \notin DOMAIN old
         /\ \A i \in DOMAIN old : new[i] = old[i]
         /\ Last(new) = new[Len(new)]
<1>1. IsPrefix(old, new) /\ Len(new) = Len(old) + 1
  BY DEF AppendsOne
<1>2. DOMAIN old = 1..Len(old) /\ DOMAIN new = 1..Len(new) /\ Len(old) \in Nat
  OBVIOUS
<1>3. \A i \in DOMAIN old : new[i] = old[i]
  BY <1>1, PrefixEntries
<1> QED BY <1>1, <1>2, <1>3 DEF Last

(***************************************************************************)
(* Parts of Consistent, kept by the parts of the actions.                  *)
(***************************************************************************)
LEMMA AppendsAssetsUnique ==
  ASSUME NEW old \in Seq(Assets), NEW new \in Seq(Assets), AppendsAssets(old, new),
         UniqueIds(old), UniquePaths(old)
  PROVE  UniqueIds(new) /\ UniquePaths(new) /\ Ids(old) \subseteq Ids(new)
<1>1. IsPrefix(old, new)
  BY DEF AppendsAssets
<1>2. DOMAIN old \subseteq DOMAIN new /\ \A i \in DOMAIN old : new[i] = old[i]
  BY <1>1, PrefixEntries
<1>3. DOMAIN old = 1..Len(old) /\ DOMAIN new = 1..Len(new)
      /\ Len(old) \in Nat /\ Len(new) \in Nat
  OBVIOUS
<1>4. ASSUME NEW i \in DOMAIN new, NEW j \in DOMAIN new, j < i,
             new[i].id = new[j].id \/ new[i].path = new[j].path
      PROVE  FALSE
  <2>1. CASE i \in DOMAIN old
    <3>1. j \in DOMAIN old
      BY <2>1, <1>3, <1>4
    <3> QED BY <2>1, <3>1, <1>2, <1>3, <1>4 DEF UniqueIds, UniquePaths
  <2>2. CASE i \notin DOMAIN old
    <3>1. i \in DOMAIN new \ DOMAIN old /\ j \in 1..(i - 1)
      BY <2>2, <1>3, <1>4
    <3> QED BY <3>1, <1>4 DEF AppendsAssets
  <2> QED BY <2>1, <2>2
<1>5. \A i, j \in DOMAIN new :
         new[i].id = new[j].id \/ new[i].path = new[j].path => i = j
  <2> SUFFICES ASSUME NEW i \in DOMAIN new, NEW j \in DOMAIN new,
                      new[i].id = new[j].id \/ new[i].path = new[j].path, i # j
               PROVE  FALSE
    OBVIOUS
  <2>1. i < j \/ j < i
    BY <1>3
  <2> QED BY <2>1, <1>4
<1>6. Ids(old) \subseteq Ids(new)
  BY <1>2 DEF Ids
<1> QED BY <1>5, <1>6 DEF UniqueIds, UniquePaths

LEMMA AppendsNothing == ASSUME NEW s \in Seq(Assets) PROVE AppendsAssets(s, s)
BY PrefixReflexive DEF AppendsAssets

\* One asset more, of an id and a path that none before it has.
LEMMA AppendsAsset ==
  ASSUME NEW old \in Seq(Assets), NEW new \in Seq(Assets), AppendsAssets(old, new),
         NEW a \in Assets, a.id \notin Ids(new), \A i \in DOMAIN new : new[i].path # a.path
  PROVE  AppendsAssets(old, Append(new, a))
<1> DEFINE more == Append(new, a)
<1>1. more \in Seq(Assets) /\ Len(more) = Len(new) + 1 /\ more[Len(new) + 1] = a
      /\ DOMAIN more = DOMAIN new \cup {Len(new) + 1} /\ \A i \in DOMAIN new : more[i] = new[i]
  BY AppendType
<1>2. Len(old) <= Len(new) /\ Len(old) \in Nat /\ Len(new) \in Nat
      /\ SubSeq(old, 1, Len(old)) = SubSeq(new, 1, Len(old)) /\ DOMAIN new = 1..Len(new)
  BY DEF AppendsAssets, IsPrefix
<1> HIDE DEF more
<1>3. SubSeq(new, 1, Len(old)) = SubSeq(more, 1, Len(old))
  BY <1>1, <1>2
<1>4. IsPrefix(old, more)
  BY <1>1, <1>2, <1>3 DEF IsPrefix
<1>5. ASSUME NEW i \in DOMAIN more \ DOMAIN old, NEW j \in 1..(i - 1)
      PROVE  more[i].id # more[j].id /\ more[i].path # more[j].path
  <2>1. CASE i = Len(new) + 1
    <3>1. j \in DOMAIN new /\ more[j] = new[j] /\ more[i] = a
      BY <2>1, <1>1, <1>2
    <3> QED BY <3>1 DEF Ids
  <2>2. CASE i # Len(new) + 1
    <3>1. i \in DOMAIN new \ DOMAIN old
      BY <2>2, <1>1
    <3>2. j \in DOMAIN new
      <4>1. i \in 1..Len(new) /\ j \in 1..(i - 1)
        BY <3>1, <1>2
      <4> QED BY <4>1, <1>2
    <3>3. more[j] = new[j] /\ more[i] = new[i]
      BY <3>1, <3>2, <1>1
    <3> QED BY <3>1, <3>2, <3>3 DEF AppendsAssets
  <2> QED BY <2>1, <2>2
<1> QED BY <1>4, <1>5 DEF AppendsAssets, more

LEMMA IdsAppend ==
  ASSUME NEW S, NEW s \in Seq(S), NEW x \in S
  PROVE  Ids(Append(s, x)) = Ids(s) \cup {x.id}
BY AppendType DEF Ids

LEMMA IdsConcat ==
  ASSUME NEW S, NEW s \in Seq(S), NEW t \in Seq(S)
  PROVE  Ids(s \o t) = Ids(s) \cup Ids(t)
<1> DEFINE u == s \o t
<1>1. Len(s) \in Nat /\ Len(t) \in Nat /\ DOMAIN s = 1..Len(s) /\ DOMAIN t = 1..Len(t)
      /\ DOMAIN u = 1..(Len(s) + Len(t))
  OBVIOUS
<1>2. /\ \A i \in DOMAIN s : u[i] = s[i] /\ i \in DOMAIN u
      /\ \A i \in DOMAIN t : u[Len(s) + i] = t[i] /\ Len(s) + i \in DOMAIN u
      /\ \A i \in DOMAIN u \ DOMAIN s : u[i] = t[i - Len(s)] /\ i - Len(s) \in DOMAIN t
  BY <1>1
<1> HIDE DEF u
<1>3. Ids(u) = Ids(s) \cup Ids(t)
  <2>1. ASSUME NEW x \in Ids(u) PROVE x \in Ids(s) \cup Ids(t)
    <3>1. PICK i \in DOMAIN u : x = u[i].id
      BY DEF Ids
    <3>2. CASE i \in DOMAIN s
      BY <3>1, <3>2, <1>2 DEF Ids
    <3>3. CASE i \notin DOMAIN s
      BY <3>1, <3>3, <1>2 DEF Ids
    <3> QED BY <3>2, <3>3
  <2>2. ASSUME NEW x \in Ids(s) PROVE x \in Ids(u)
    <3>1. PICK i \in DOMAIN s : x = s[i].id
      BY DEF Ids
    <3> QED BY <3>1, <1>2 DEF Ids
  <2>3. ASSUME NEW x \in Ids(t) PROVE x \in Ids(u)
    <3>1. PICK i \in DOMAIN t : x = t[i].id
      BY DEF Ids
    <3>2. x = u[Len(s) + i].id /\ Len(s) + i \in DOMAIN u
      BY <3>1, <1>2
    <3> QED BY <3>2 DEF Ids
  <2> QED BY <2>1, <2>2, <2>3
<1> QED BY <1>3 DEF u

LEMMA IdsFinite == ASSUME NEW S, NEW s \in Seq(S) PROVE IsFiniteSet(Ids(s))
<1> DEFINE f == [i \in DOMAIN s |-> s[i].id]
<1>1. IsFiniteSet(DOMAIN s)
  BY FS_Interval
<1>2. f \in Surjection(DOMAIN s, Ids(s))
  BY DEF Ids, Surjection
<1> QED BY <1>1, <1>2, FS_Surjection

\* Growing by an entry whose id is new.
LEMMA AppendsOneUnique ==
  ASSUME NEW S, NEW old \in Seq(S), NEW new \in Seq(S), AppendsOne(old, new),
         UniqueIds(old), Last(new).id \notin Ids(old)
  PROVE  UniqueIds(new)
<1>1. /\ DOMAIN new = DOMAIN old \cup {Len(new)}
      /\ \A i \in DOMAIN old : new[i] = old[i]
      /\ Last(new) = new[Len(new)]
  BY AppendsOneLast
<1>2. \A i \in DOMAIN old : new[i].id # new[Len(new)].id
  BY <1>1 DEF Ids
<1>3. \A i, j \in DOMAIN old : new[i].id = new[j].id => i = j
  BY <1>1 DEF UniqueIds
<1> QED BY <1>1, <1>2, <1>3 DEF UniqueIds

LEMMA SameAssetFields ==
  ASSUME NEW a \in Assets, NEW b \in Assets, SameAsset(a, b)
  PROVE  a.id = b.id /\ a.path = b.path /\ a.sha256 = b.sha256
BY DEF SameAsset, Assets

LEMMA SameAssetReflexive == ASSUME NEW a \in Assets PROVE SameAsset(a, a)
BY DEF SameAsset, Assets

LEMMA RefreshesUnique ==
  ASSUME NEW old \in Seq(Assets), NEW new \in Seq(Assets), RefreshesAssets(old, new),
         UniqueIds(old), UniquePaths(old)
  PROVE  UniqueIds(new) /\ UniquePaths(new) /\ Ids(new) = Ids(old)
<1>1. DOMAIN old = DOMAIN new
  BY DEF RefreshesAssets
<1>2. \A i \in DOMAIN old : old[i].id = new[i].id /\ old[i].path = new[i].path
  BY <1>1, SameAssetFields DEF RefreshesAssets
<1> QED BY <1>1, <1>2 DEF UniqueIds, UniquePaths, Ids

LEMMA LinksGrow ==
  ASSUME NEW m, NEW n, NEW d, Links(d, Ids(m)), Ids(m) \subseteq Ids(n)
  PROVE  Links(d, Ids(n))
BY DEF Links

LEMMA ComparesGrow ==
  ASSUME NEW m, NEW n, NEW e, Compares(e, Ids(m)), Ids(m) \subseteq Ids(n)
  PROVE  Compares(e, Ids(n))
BY DEF Compares

\* Derivations and evaluations that were there name the same assets as before.
LEMMA NoDanglingGrows ==
  ASSUME NEW m, NEW n, NoDangling(m), Ids(m.assets) \subseteq Ids(n.assets),
         n.derivations = m.derivations, n.evaluations = m.evaluations
  PROVE  NoDangling(n)
BY LinksGrow, ComparesGrow DEF NoDangling

(***************************************************************************)
(* A command's change keeps a manifest consistent.                         *)
(***************************************************************************)
Changes(m, n) == Registers(m, n) \/ ImportsJob(m, n) \/ ImportsEvaluation(m, n) \/ Stamps(m, n)

LEMMA Parts ==
  ASSUME NEW m \in Manifests
  PROVE  /\ m.assets \in Seq(Assets)
         /\ m.derivations \in Seq(Derivations)
         /\ m.evaluations \in Seq(Evaluations)
BY DEF Manifests

LEMMA NewManifestConsistent == NewManifest \in Manifests /\ Consistent(NewManifest)
<1>1. NewManifest \in Manifests
  BY DEF NewManifest, Manifests
<1>2. NewManifest.assets = <<>> /\ NewManifest.derivations = <<>>
      /\ NewManifest.evaluations = <<>>
  BY DEF NewManifest
<1>3. Consistent(NewManifest)
  BY <1>2 DEF Consistent, UniqueIds, UniquePaths, UniqueJobs, UniqueRecords, NoDangling
<1> QED BY <1>1, <1>3

LEMMA RegistersConsistent ==
  ASSUME NEW m \in Manifests, NEW n \in Manifests, Consistent(m), Registers(m, n)
  PROVE  Consistent(n)
<1>1. AppendsAssets(m.assets, n.assets) /\ n.derivations = m.derivations
      /\ n.evaluations = m.evaluations
  BY DEF Registers
<1>2. UniqueIds(n.assets) /\ UniquePaths(n.assets) /\ Ids(m.assets) \subseteq Ids(n.assets)
  BY <1>1, Parts, AppendsAssetsUnique DEF Consistent
<1>3. NoDangling(n)
  BY <1>1, <1>2, NoDanglingGrows DEF Consistent
<1> QED BY <1>1, <1>2, <1>3 DEF Consistent

LEMMA StampsConsistent ==
  ASSUME NEW m \in Manifests, NEW n \in Manifests, Consistent(m), Stamps(m, n)
  PROVE  Consistent(n)
<1>1. RefreshesAssets(m.assets, n.assets) /\ n.derivations = m.derivations
      /\ n.evaluations = m.evaluations
  BY DEF Stamps
<1>2. UniqueIds(n.assets) /\ UniquePaths(n.assets) /\ Ids(n.assets) = Ids(m.assets)
  BY <1>1, Parts, RefreshesUnique DEF Consistent
<1>3. NoDangling(n)
  BY <1>1, <1>2, NoDanglingGrows DEF Consistent
<1> QED BY <1>1, <1>2, <1>3 DEF Consistent

LEMMA ImportsJobConsistent ==
  ASSUME NEW m \in Manifests, NEW n \in Manifests, Consistent(m), ImportsJob(m, n)
  PROVE  Consistent(n)
<1> DEFINE d == Last(n.derivations)
<1>1. /\ AppendsAssets(m.assets, n.assets)
      /\ AppendsOne(m.derivations, n.derivations)
      /\ n.evaluations = m.evaluations
  BY DEF ImportsJob
<1>2. /\ d.id \notin Ids(m.derivations)
      /\ d.job # None
      /\ \A i \in DOMAIN m.derivations :
            m.derivations[i].job # None => m.derivations[i].job.sha256 # d.job.sha256
      /\ Links(d, Ids(n.assets))
  BY DEF ImportsJob
<1>3. UniqueIds(n.assets) /\ UniquePaths(n.assets) /\ Ids(m.assets) \subseteq Ids(n.assets)
  BY <1>1, Parts, AppendsAssetsUnique DEF Consistent
<1>4. UniqueIds(n.derivations)
  BY <1>1, <1>2, Parts, AppendsOneUnique DEF Consistent
<1>5. /\ DOMAIN n.derivations = DOMAIN m.derivations \cup {Len(n.derivations)}
      /\ Len(n.derivations) \notin DOMAIN m.derivations
      /\ \A i \in DOMAIN m.derivations : n.derivations[i] = m.derivations[i]
      /\ d = n.derivations[Len(n.derivations)]
  <2>1. m.derivations \in Seq(Derivations) /\ n.derivations \in Seq(Derivations)
    BY Parts
  <2>2. AppendsOne(m.derivations, n.derivations)
    BY <1>1
  <2> QED BY <2>1, <2>2, AppendsOneLast
<1>6. UniqueJobs(n.derivations)
  BY <1>2, <1>5 DEF Consistent, UniqueJobs
<1>7. NoDangling(n)
  <2>1. ASSUME NEW i \in DOMAIN n.derivations
        PROVE  Links(n.derivations[i], Ids(n.assets))
    <3>1. CASE i \in DOMAIN m.derivations
      BY <3>1, <1>3, <1>5, LinksGrow DEF Consistent, NoDangling
    <3>2. CASE i = Len(n.derivations)
      BY <3>2, <1>2, <1>5
    <3> QED BY <3>1, <3>2, <1>5
  <2>2. ASSUME NEW i \in DOMAIN n.evaluations
        PROVE  Compares(n.evaluations[i], Ids(n.assets))
    BY <1>1, <1>3, ComparesGrow DEF Consistent, NoDangling
  <2> QED BY <2>1, <2>2 DEF NoDangling
<1> QED BY <1>1, <1>3, <1>4, <1>6, <1>7 DEF Consistent

LEMMA ImportsEvaluationConsistent ==
  ASSUME NEW m \in Manifests, NEW n \in Manifests, Consistent(m), ImportsEvaluation(m, n)
  PROVE  Consistent(n)
<1> DEFINE e == Last(n.evaluations)
<1>1. /\ n.assets = m.assets /\ n.derivations = m.derivations
      /\ AppendsOne(m.evaluations, n.evaluations)
      /\ e.id \notin Ids(m.evaluations)
      /\ \A i \in DOMAIN m.evaluations :
            m.evaluations[i].record.sha256 # e.record.sha256
      /\ Compares(e, Ids(m.assets))
  BY DEF ImportsEvaluation
<1>2. UniqueIds(n.evaluations)
  BY <1>1, Parts, AppendsOneUnique DEF Consistent
<1>3. /\ DOMAIN n.evaluations = DOMAIN m.evaluations \cup {Len(n.evaluations)}
      /\ Len(n.evaluations) \notin DOMAIN m.evaluations
      /\ \A i \in DOMAIN m.evaluations : n.evaluations[i] = m.evaluations[i]
      /\ e = n.evaluations[Len(n.evaluations)]
  <2>1. m.evaluations \in Seq(Evaluations) /\ n.evaluations \in Seq(Evaluations)
    BY Parts
  <2>2. AppendsOne(m.evaluations, n.evaluations)
    BY <1>1
  <2> QED BY <2>1, <2>2, AppendsOneLast
<1>4. UniqueRecords(n.evaluations)
  BY <1>1, <1>3 DEF Consistent, UniqueRecords
<1>5. NoDangling(n)
  BY <1>1, <1>3 DEF Consistent, NoDangling
<1> QED BY <1>1, <1>2, <1>4, <1>5 DEF Consistent

LEMMA ChangesConsistent ==
  ASSUME NEW m \in Manifests, NEW n \in Manifests, Consistent(m), Changes(m, n)
  PROVE  Consistent(n)
BY RegistersConsistent, StampsConsistent, ImportsJobConsistent, ImportsEvaluationConsistent
DEF Changes

\* No change loses or alters what is recorded.
LEMMA ChangesExtend ==
  ASSUME NEW m \in Manifests, NEW n \in Manifests, Changes(m, n)
  PROVE  Extends(m, n)
<1>1. Len(m.assets) <= Len(n.assets)
      /\ \A i \in DOMAIN m.assets : SameAsset(m.assets[i], n.assets[i])
  <2>1. CASE IsPrefix(m.assets, n.assets)
    BY <2>1, Parts, PrefixEntries, SameAssetReflexive
  <2>2. CASE RefreshesAssets(m.assets, n.assets)
    BY <2>2, Parts DEF RefreshesAssets
  <2>3. m.assets = n.assets => IsPrefix(m.assets, n.assets)
    BY Parts, PrefixReflexive
  <2> QED
    BY <2>1, <2>2, <2>3
    DEF Changes, Registers, ImportsJob, ImportsEvaluation, Stamps, AppendsAssets
<1>2. IsPrefix(m.derivations, n.derivations) /\ IsPrefix(m.evaluations, n.evaluations)
  BY Parts, PrefixReflexive
  DEF Changes, Registers, ImportsJob, ImportsEvaluation, Stamps, AppendsOne
<1> QED BY <1>1, <1>2 DEF Extends

LEMMA ExtendsReflexive == ASSUME NEW m \in Manifests PROVE Extends(m, m)
BY Parts, PrefixReflexive, SameAssetReflexive DEF Extends

LEMMA ExtendsTransitive ==
  ASSUME NEW l \in Manifests, NEW m \in Manifests, NEW n \in Manifests,
         Extends(l, m), Extends(m, n)
  PROVE  Extends(l, n)
<1>1. /\ l.assets \in Seq(Assets) /\ m.assets \in Seq(Assets) /\ n.assets \in Seq(Assets)
      /\ l.derivations \in Seq(Derivations) /\ m.derivations \in Seq(Derivations)
      /\ n.derivations \in Seq(Derivations)
      /\ l.evaluations \in Seq(Evaluations) /\ m.evaluations \in Seq(Evaluations)
      /\ n.evaluations \in Seq(Evaluations)
  BY Parts
<1>2. ASSUME NEW S, NEW a \in Seq(S), NEW b \in Seq(S), NEW c \in Seq(S),
             IsPrefix(a, b), IsPrefix(b, c)
      PROVE  IsPrefix(a, c)
  <2>1. /\ Len(a) \in Nat /\ Len(b) \in Nat /\ Len(c) \in Nat
        /\ Len(a) <= Len(b) /\ Len(b) <= Len(c)
        /\ SubSeq(a, 1, Len(a)) = SubSeq(b, 1, Len(a))
        /\ SubSeq(b, 1, Len(b)) = SubSeq(c, 1, Len(b))
    BY <1>2 DEF IsPrefix
  <2>2. SubSeq(b, 1, Len(a)) = SubSeq(c, 1, Len(a))
    <3>1. \A i \in 1..Len(b) : b[i] = c[i]
      BY <1>2, PrefixEntries
    <3> QED BY <2>1, <3>1
  <2> QED BY <2>1, <2>2 DEF IsPrefix
<1>3. ASSUME NEW i \in DOMAIN l.assets PROVE SameAsset(l.assets[i], n.assets[i])
  <2>1. i \in DOMAIN m.assets /\ i \in DOMAIN n.assets
    BY <1>1 DEF Extends
  <2>2. l.assets[i] \in Assets /\ m.assets[i] \in Assets /\ n.assets[i] \in Assets
    BY <1>1, <2>1
  <2>3. SameAsset(l.assets[i], m.assets[i]) /\ SameAsset(m.assets[i], n.assets[i])
    BY <2>1 DEF Extends
  <2> QED BY <2>2, <2>3 DEF SameAsset, Assets
<1>4. Len(l.assets) <= Len(n.assets)
  BY <1>1 DEF Extends
<1> QED BY <1>1, <1>2, <1>3, <1>4 DEF Extends

LEMMA MeasuredConcat ==
  ASSUME NEW s \in Seq(Assets), NEW t \in Seq(Assets), Measured(s), Measured(t)
  PROVE  Measured(s \o t)
<1> DEFINE u == s \o t
<1>1. \A i \in DOMAIN u : \/ i \in DOMAIN s /\ u[i] = s[i]
                          \/ i - Len(s) \in DOMAIN t /\ u[i] = t[i - Len(s)]
  OBVIOUS
<1> HIDE DEF u
<1>2. Measured(u)
  BY <1>1 DEF Measured
<1> QED BY <1>2 DEF u
=============================================================================
