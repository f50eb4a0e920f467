------------------------------- MODULE Slugs --------------------------------
(***************************************************************************)
(* Ids as strings (manifest.rs, is_slug_start to mint_id_with): sequences  *)
(* of characters, a character being a string of length one.  Manifest and  *)
(* Project have words for what slugify returns; here is what it does.      *)
(***************************************************************************)
EXTENDS Integers, Sequences, FiniteSetsExt

CONSTANTS
    Chars,      \* the characters names are made of
    Alnum,      \* lower-case ASCII letters and digits
    LowerOf     \* to_ascii_lowercase

Dash == "-"
Marks == {".", "_", Dash}
Digit == <<"0", "1", "2", "3", "4", "5", "6", "7", "8", "9">>
Fallback == <<"a", "s", "s", "e", "t">>

ASSUME CharsAssumption ==
    /\ Alnum \subseteq Chars /\ Marks \subseteq Chars \ Alnum
    /\ {"a", "s", "e", "t"} \cup {Digit[d] : d \in 1..10} \subseteq Alnum
ASSUME LowerAssumption ==
    /\ LowerOf \in [Chars -> Chars]
    /\ \A c \in Alnum \cup Marks : LowerOf[c] = c

Strings == Seq(Chars)

(***************************************************************************)
(* The pattern ^[a-z0-9][a-z0-9._-]*$.                                     *)
(***************************************************************************)
IsSlugStart(c) == c \in Alnum
IsSlugChar(c) == IsSlugStart(c) \/ c \in Marks

IsValidSlug(s) ==
    s # <<>> /\ IsSlugStart(s[1]) /\ \A i \in DOMAIN s : IsSlugChar(s[i])

(***************************************************************************)
(* slugify: every character made lower-case, or a dash if no slug has it;  *)
(* then what comes before the first letter or digit, and the dashes at the *)
(* end, trimmed.                                                           *)
(***************************************************************************)
Cleaned(stem) ==
    [i \in DOMAIN stem |-> IF IsSlugChar(LowerOf[stem[i]]) THEN LowerOf[stem[i]] ELSE Dash]

StartsIn(s) == {i \in DOMAIN s : IsSlugStart(s[i])}
NotDashes(s) == {i \in DOMAIN s : s[i] # Dash}

\* A trim that takes off leading dashes only.
SlugifyTrimmingDashes(stem) ==
    LET out == Cleaned(stem)
    IN  IF NotDashes(out) = {} THEN Fallback
        ELSE SubSeq(out, Min(NotDashes(out)), Max(NotDashes(out)))

Slugify(stem) ==
    LET out == Cleaned(stem)
    IN  IF StartsIn(out) = {} THEN Fallback
        ELSE SubSeq(out, Min(StartsIn(out)), Max(NotDashes(out)))

(***************************************************************************)
(* mint_id_with: base, base-2, base-3 ... until one is not taken.          *)
(***************************************************************************)
Decimal[n \in Nat] ==
    IF n < 10 THEN <<Digit[n + 1]>> ELSE Append(Decimal[n \div 10], Digit[(n % 10) + 1])

Candidate(base, n) == IF n = 1 THEN base ELSE base \o <<Dash>> \o Decimal[n]

MintIdWith(base, taken) ==
    Candidate(base, Min({n \in 1..(Cardinality(taken) + 1) : Candidate(base, n) \notin taken}))
=============================================================================
