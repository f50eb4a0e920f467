------------------------------- MODULE Naming -------------------------------
(***************************************************************************)
(* How files get into the manifest, by their real names: the ids and the   *)
(* paths add and import record, with Slugs' strings and Paths' tree.  One  *)
(* command runs at a time (Project has the interleavings) on files that    *)
(* stay as they are; each has bytes of its own, so that a location stands  *)
(* for a content and for its sha256.                                       *)
(***************************************************************************)
EXTENDS Slugs, Paths, TLC

CONSTANTS
    StemOf,         \* file_stem of a name, a string; empty if it is not UTF-8
    NameOf,         \* file_name of a name, likewise
    Args, AskedIds, \* bound: what add is called with, None for no --id
    Jobs,           \* bound: the job records there are
    MaxAssets,      \* bound: assets in a behaviour
    None, NoProject

ASSUME StemsAssumption ==
    /\ StemOf \in [Names -> Strings] /\ NameOf \in [Names -> Strings]
    /\ StemOf[Up] = <<>> /\ NameOf[Up] = <<>>

ASSUME InputsAssumption ==
    /\ Args \subseteq AnyPath /\ \A id \in AskedIds : id = None \/ id \in Strings
    /\ \A job \in Jobs :
        /\ job.arg \in AnyPath /\ job.input \in AnyPath /\ job.bytes \in Seq(Names)
        /\ job.stems \in Seq([name : Strings, path : AnyPath])

VARIABLES assets, derivations
vars == <<assets, derivations>>

IdsOf(entries) == {entries[i].id : i \in DOMAIN entries}

At(path, entries) == {i \in DOMAIN entries : entries[i].path = path}

Asset(id, path, at) == [id |-> id, path |-> path, at |-> at]

\* Why a command refuses: the reason, after the part of the record it is about.
Reasons == {"Missing", "Unreadable", "Outside", "AbsolutePath"}
Refusals ==
    {<<why>> : why \in Reasons \cup {"DuplicatePath", "InvalidSlug", "IdInUse",
        "AlreadyImported", "InputHashMismatch", "InputPathConflict", "StemPathConflict"}}
    \cup ({"Job", "Stem", "Input"} \X Reasons)
Accepted == <<>>

\* Whatever the reason, nothing is written.
Refuse(why) == why \in Refusals /\ UNCHANGED vars

\* Numbers given out by how many ids there are.
MintByCount(stem, entries) == Candidate(Slugify(stem), Len(entries) + 1)

MintFor(stem, entries) == MintIdWith(Slugify(stem), IdsOf(entries))

(***************************************************************************)
(* What an argument or a name in a job record leads to, with the path that *)
(* gets recorded.  Files stay as they are: resolving early changes nothing.*)
(***************************************************************************)
Target(path, real) ==
    [error |-> IF real.error = "none" /\ real.at \notin Files THEN "Unreadable" ELSE real.error,
     at |-> real.at,
     path |-> IF real.error = "none" THEN Stored(path, real.at) ELSE <<>>]

AddTarget == [arg \in Args |-> Target(arg, ResolveInsideRoot(arg))]

\* job_folder.join("<name>.wav"), in the folder of the record's real place.
StemPath(job, stem) ==
    IF stem.path.absolute THEN stem.path
    ELSE FromTop(Front(Canonical(job.arg).at) \o stem.path.parts)

Resolve(job) ==
    [job |-> Target(job.arg, Canonical(job.arg)),
     input |-> [file |-> Target(job.input, ResolveInsideRoot(job.input)), bytes |-> job.bytes],
     stems |-> [n \in DOMAIN job.stems |->
        LET path == StemPath(job, job.stems[n])
        IN  [file |-> Target(path, Canonical(path)), name |-> job.stems[n].name]]]

JobTargets == {Resolve(job) : job \in Jobs}

(***************************************************************************)
(* add: the id comes from the last component of the argument.              *)
(***************************************************************************)
AddRefusal(to, id) ==
    CASE to.error # "none" -> <<to.error>>
      [] OTHER -> IF At(to.path, assets) # {} THEN <<"DuplicatePath">>
                  ELSE IF id = None THEN Accepted
                  ELSE IF ~IsValidSlug(id) THEN <<"InvalidSlug">>
                  ELSE IF id \in IdsOf(assets) THEN <<"IdInUse">> ELSE Accepted

Add(arg, id) ==
    \E to \in {AddTarget[arg]}, why \in {AddRefusal(AddTarget[arg], id)} :
        IF why # Accepted THEN Refuse(why)
        ELSE /\ Len(assets) < MaxAssets
             /\ assets' = Append(assets,
                   Asset(IF id = None THEN MintFor(StemOf[LastName(arg.parts)], assets) ELSE id,
                         to.path, to.at))
             /\ UNCHANGED derivations

(***************************************************************************)
(* import of a job record.                                                 *)
(***************************************************************************)
\* One file of the record: the asset that has its path, or a new one.
Registered(book, to, name) ==
    IF At(to.path, book) # {} THEN book
    ELSE Append(book, Asset(MintFor(name, book), to.path, to.at))

\* The stems in turn, under the names the record gives them.
WithStems(stems, book) ==
    LET after[n \in 0..Len(stems)] ==
            IF n = 0 THEN book ELSE Registered(after[n - 1], stems[n].file, stems[n].name)
    IN  after[Len(stems)]

\* The asset that has the input's bytes, or the file the record points at, with
\* an id from the stored path.
InputKnown(input) == \E i \in DOMAIN assets : assets[i].at = input.bytes
WithInput(input) ==
    IF InputKnown(input) THEN assets
    ELSE Registered(assets, input.file, StemOf[LastName(input.file.path)])

InputRefusal(input) ==
    CASE input.file.error # "none" -> <<"Input", input.file.error>>
      [] OTHER -> IF input.file.at # input.bytes THEN <<"InputHashMismatch">>
                  ELSE IF At(input.file.path, assets) # {} THEN <<"InputPathConflict">>
                  ELSE Accepted

\* The stems, each resolved then opened; the first to fail is reported.
StemRefusal(stems) ==
    LET bad == {n \in DOMAIN stems : stems[n].file.error # "none"}
    IN  IF bad = {} THEN Accepted ELSE <<"Stem", stems[Min(bad)].file.error>>

\* An asset has the path of a stem, and other bytes: one that was there, or one
\* an earlier file of the record just became.
StemsClash(stems, book) ==
    \E n \in DOMAIN stems :
        \E i \in At(stems[n].file.path, book) : book[i].at # stems[n].file.at

ImportRefusal(to) ==
    CASE to.job.error # "none" -> <<"Job", to.job.error>>
      [] OTHER -> IF StemRefusal(to.stems) # Accepted THEN StemRefusal(to.stems)
                  ELSE IF \E i \in DOMAIN derivations : derivations[i].job = to.job.at
                       THEN <<"AlreadyImported">>
                  ELSE IF InputKnown(to.input) THEN Accepted ELSE InputRefusal(to.input)

\* The derivation's id is the name of the record's folder; its inputs and outputs
\* are the ids by now recorded for the input's bytes and the stems' paths.
Derivation(to, book) ==
    [id |-> MintFor(NameOf[LastName(Front(to.job.at))], derivations), job |-> to.job.at,
     inputs |-> <<book[Min({i \in DOMAIN book : book[i].at = to.input.bytes})].id>>,
     outputs |-> [n \in DOMAIN to.stems |-> book[Min(At(to.stems[n].file.path, book))].id]]

ImportJob(to) ==
    \E why \in {ImportRefusal(to)} :
        IF why # Accepted THEN Refuse(why)
        ELSE \E book \in {WithStems(to.stems, WithInput(to.input))} :
            IF StemsClash(to.stems, book) THEN Refuse(<<"StemPathConflict">>)
            ELSE /\ Len(book) <= MaxAssets
                 /\ assets' = book
                 /\ derivations' = Append(derivations, Derivation(to, book))

Init == assets = <<>> /\ derivations = <<>>

Next == \/ \E arg \in Args, id \in AskedIds : Add(arg, id)
        \/ \E to \in JobTargets : ImportJob(to)

Spec == Init /\ [][Next]_vars

(***************************************************************************)
(* Properties.                                                             *)
(***************************************************************************)
\* Every id, asked for or minted from whatever a file, a folder or a stem is
\* called, is a slug, and no two entries of a kind have the same.
IdsAreSlugs ==
    \A entries \in {assets, derivations} :
        /\ \A i \in DOMAIN entries : IsValidSlug(entries[i].id)
        /\ \A i, j \in DOMAIN entries : entries[i].id = entries[j].id => i = j

\* The recorded path leads verify to the very file that was hashed, by whatever
\* links and dots the user came to it; where a name is not UTF-8 nothing is said.
IsUtf8(at) == \A i \in DOMAIN at : LossyOf[at[i]] = at[i]
RecordedPathsResolve ==
    \A i \in DOMAIN assets :
        IsUtf8(assets[i].at) => ReadBack(assets[i].path) = Found(assets[i].at)

\* No file is registered twice under two of its names.
OneEntryPerFile ==
    \A i, j \in DOMAIN assets : assets[i].at = assets[j].at => i = j

\* Only files inside the root are registered, and only evidence there read.
Confined == /\ \A i \in DOMAIN assets : Inside(assets[i].at)
            /\ \A i \in DOMAIN derivations : Inside(derivations[i].job)

\* With strings for its words and locations for its contents, this is what
\* Registry allows.
Recorded ==
    [assets |-> [i \in DOMAIN assets |->
        [id |-> assets[i].id, path |-> assets[i].path, size |-> 0,
         sha256 |-> <<"sha256", assets[i].at>>, last_verified |-> 0]],
     derivations |-> [i \in DOMAIN derivations |->
        LET d == derivations[i]
        IN  [id |-> d.id, inputs |-> d.inputs, outputs |-> d.outputs,
             job |-> [path |-> StoredForm(d.job), sha256 |-> <<"sha256", d.job>>]]],
     evaluations |-> <<>>]

Abstract == INSTANCE Registry WITH
    Words <- Chars, Vs <- Dash, Contents <- Files, SizeOf <- [f \in Files |-> 0],
    Names <- {StoredForm(f) : f \in {f \in Files : Inside(f)}},
    Starts <- {[assets |-> <<>>, derivations |-> <<>>, evaluations |-> <<>>]},
    manifest <- Recorded

ASSUME AbsentAssumption ==
    NoProject \notin Abstract!Manifests /\ None \notin Abstract!HashedRefs

ImplementsRegistry == Abstract!Spec

(***************************************************************************)
(* What the documents say and the code does not do (the run that ends in a *)
(* violation).                                                             *)
(***************************************************************************)
\* A recorded path, relative to the root, resolves to the registered file.
EveryPathResolves ==
    \A i \in DOMAIN assets : ReadBack(assets[i].path) = Found(assets[i].at)
=============================================================================
