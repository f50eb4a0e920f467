------------------------------ MODULE Manifest ------------------------------
(***************************************************************************)
(* The manifest of an uncompose project as a value: what the commands read,*)
(* change and write back (crates/core/src/manifest.rs), and the ids they   *)
(* mint.                                                                   *)
(*                                                                         *)
(* Fields no property tells apart (schema, project, role, tool, params,    *)
(* confidence, added_at, created_at, ext) are left out.  A timestamp is a  *)
(* number of clock ticks, 0 standing for "never".                          *)
(***************************************************************************)
EXTENDS Integers, Sequences, FiniteSets, SequencesExt

CONSTANTS
    Words,      \* what an id is made of: the slugs file names are turned into
    Vs,         \* the separator "-vs-" of an evaluation's id
    Contents,   \* the byte strings a file may hold
    Names,      \* the paths a user, or a job record, may write
    SizeOf,     \* the length of each content
    None,       \* an optional field that is absent
    NoProject   \* there is no manifest file at the root

ASSUME VsAssumption == Vs \in Words
ASSUME SizeAssumption == SizeOf \in [Contents -> Nat]

(***************************************************************************)
(* Ids.  A slug is a non-empty sequence of tokens, "vocals-2" being        *)
(* <<vocals, 2>>: a minted suffix and a suffix that was part of the file's *)
(* name are the same token, so they may collide as the strings do.         *)
(***************************************************************************)
Slugs == Seq(Words \cup Nat) \ {<<>>}

Suffixed(base, n) == IF n = 1 THEN base ELSE Append(base, n)

\* The numbers whose candidate id nobody has taken; by the pigeonhole
\* principle one of the first |taken| + 1 is free, so the code's unbounded
\* search ends there.
FreeSuffixes(base, taken) ==
    {n \in 1..(Cardinality(taken) + 1) : Suffixed(base, n) \notin taken}

Mint(base, taken) == Suffixed(base, Min(FreeSuffixes(base, taken)))

\* "<a>-vs-<b>" from the ids of the compared assets, in their order.
Matchup(candidates) ==
    FlattenSeq([i \in DOMAIN candidates |->
                  IF i = 1 THEN candidates[i] ELSE <<Vs>> \o candidates[i]])

(***************************************************************************)
(* Hashing.  SHA-256 is taken to be injective.                             *)
(***************************************************************************)
Sha256(content) == <<"sha256", content>>
Hashes == {Sha256(c) : c \in Contents}

(***************************************************************************)
(* The document.                                                           *)
(***************************************************************************)
HashedRefs == [path : Names, sha256 : Hashes]

\* An absent field is told from an id and from a reference.
ASSUME NoneAssumption == None \notin Seq(Words \cup Nat) \cup HashedRefs

Assets == [id : Slugs, path : Names, sha256 : Hashes, size : Nat,
           last_verified : Nat]

Derivations == [id : Slugs, inputs : Seq(Slugs), outputs : Seq(Slugs),
                job : HashedRefs \cup {None}]

Evaluations == [id : Slugs, candidates : Seq(Slugs),
                preference : Slugs \cup {None}, record : HashedRefs]

Manifests == [assets : Seq(Assets), derivations : Seq(Derivations),
              evaluations : Seq(Evaluations)]

NewManifest == [assets |-> <<>>, derivations |-> <<>>, evaluations |-> <<>>]

Ids(entries) == {entries[i].id : i \in DOMAIN entries}

NewAsset(id, path, sha256, size) ==
    [id |-> id, path |-> path, sha256 |-> sha256, size |-> size,
     last_verified |-> 0]

(***************************************************************************)
(* What makes a manifest consistent.                                       *)
(***************************************************************************)
UniqueIds(entries) ==
    \A i, j \in DOMAIN entries : entries[i].id = entries[j].id => i = j

UniquePaths(assets) ==
    \A i, j \in DOMAIN assets : assets[i].path = assets[j].path => i = j

\* One derivation per job record, one evaluation per comparison record.
UniqueJobs(derivations) ==
    \A i, j \in DOMAIN derivations :
        /\ derivations[i].job # None
        /\ derivations[j].job # None
        /\ derivations[i].job.sha256 = derivations[j].job.sha256
        => i = j

UniqueRecords(evaluations) ==
    \A i, j \in DOMAIN evaluations :
        evaluations[i].record.sha256 = evaluations[j].record.sha256 => i = j

Links(d, ids) == Range(d.inputs) \cup Range(d.outputs) \subseteq ids

Compares(e, ids) ==
    /\ Range(e.candidates) \subseteq ids
    /\ e.preference # None => e.preference \in Range(e.candidates)

NoDangling(m) ==
    /\ \A i \in DOMAIN m.derivations : Links(m.derivations[i], Ids(m.assets))
    /\ \A i \in DOMAIN m.evaluations : Compares(m.evaluations[i], Ids(m.assets))

Consistent(m) ==
    /\ UniqueIds(m.assets) /\ UniqueIds(m.derivations) /\ UniqueIds(m.evaluations)
    /\ UniquePaths(m.assets)
    /\ UniqueJobs(m.derivations)
    /\ UniqueRecords(m.evaluations)
    /\ NoDangling(m)

\* The size recorded beside a hash is the length of the bytes that have it.
Measured(assets) ==
    \A i \in DOMAIN assets : \A c \in Contents :
        assets[i].sha256 = Sha256(c) => assets[i].size = SizeOf[c]

(***************************************************************************)
(* What one command may do to a manifest: add, import of a job record,     *)
(* import of a comparison record, verify's stamp.                          *)
(***************************************************************************)
\* The entry says what it said before, but for the time it was last verified.
SameAsset(a, b) == [b EXCEPT !.last_verified = a.last_verified] = a

\* New assets come last; each has an id and a path of its own.
AppendsAssets(old, new) ==
    /\ IsPrefix(old, new)
    /\ \A i \in DOMAIN new \ DOMAIN old : \A j \in 1..(i - 1) :
           new[i].id # new[j].id /\ new[i].path # new[j].path

AppendsOne(old, new) == IsPrefix(old, new) /\ Len(new) = Len(old) + 1

RefreshesAssets(old, new) ==
    /\ Len(old) = Len(new)
    /\ \A i \in DOMAIN old : /\ SameAsset(old[i], new[i])
                             /\ old[i].last_verified <= new[i].last_verified

Registers(old, new) ==
    /\ AppendsOne(old.assets, new.assets)
    /\ AppendsAssets(old.assets, new.assets)
    /\ new.derivations = old.derivations /\ new.evaluations = old.evaluations

ImportsJob(old, new) ==
    /\ AppendsAssets(old.assets, new.assets)
    /\ AppendsOne(old.derivations, new.derivations)
    /\ LET d == Last(new.derivations)
       IN  /\ d.id \notin Ids(old.derivations)
           /\ d.job # None
           /\ \A i \in DOMAIN old.derivations :
                 LET job == old.derivations[i].job
                 IN  job # None => job.sha256 # d.job.sha256
           /\ Links(d, Ids(new.assets))
    /\ new.evaluations = old.evaluations

ImportsEvaluation(old, new) ==
    /\ new.assets = old.assets /\ new.derivations = old.derivations
    /\ AppendsOne(old.evaluations, new.evaluations)
    /\ LET e == Last(new.evaluations)
       IN  /\ e.id \notin Ids(old.evaluations)
           /\ \A i \in DOMAIN old.evaluations :
                 old.evaluations[i].record.sha256 # e.record.sha256
           /\ Compares(e, Ids(old.assets))

Stamps(old, new) ==
    /\ RefreshesAssets(old.assets, new.assets)
    /\ new.derivations = old.derivations /\ new.evaluations = old.evaluations

\* Nothing recorded in old is lost or altered in new.
Extends(old, new) ==
    /\ Len(old.assets) <= Len(new.assets)
    /\ \A i \in DOMAIN old.assets : SameAsset(old.assets[i], new.assets[i])
    /\ IsPrefix(old.derivations, new.derivations)
    /\ IsPrefix(old.evaluations, new.evaluations)
=============================================================================
