--------------------------- MODULE ImportCommand ----------------------------
(***************************************************************************)
(* import (manifest.rs, fn import and fn import_evaluation): read the      *)
(* evidence file, dispatch on its schema, hash a job's stems, all before   *)
(* the lock; under it, decide what is new and write once.                  *)
(***************************************************************************)
EXTENDS Workspace

CONSTANTS
    StemNames,      \* the stem names job records use
    Evidence,       \* what each content parses to
    Beside,         \* Beside[path, stem]: "<stem>.wav" in the folder of path
    FolderOf        \* slugify(the name of the folder of a path)

JobRecords == [kind : {"job"}, success : BOOLEAN, input : Names,
               input_sha256 : Hashes, stems : Seq(StemNames)]

CompareRecords == [kind : {"compare"},
                   candidates : Seq([label : STRING, asset : Slugs \cup {None}]),
                   preference : STRING \cup {None}]

ASSUME EvidenceAssumption ==
    \A c \in Contents :
        Evidence[c] \in JobRecords \cup CompareRecords
            \cup [kind : {"malformed", "unrecognized", "nonconforming"}]

\* Compare's schema asks for two candidates or more.
ASSUME CandidatesAssumption ==
    \A c \in Contents : Evidence[c].kind = "compare" => Len(Evidence[c].candidates) >= 2

ASSUME FoldersAssumption ==
    /\ StemNames \subseteq DOMAIN BaseOf
    /\ Beside \in [Names \X StemNames -> Names]
    /\ FolderOf \in [Names -> Slugs]

Record(p) == Evidence[my[p].bytes]
RecordSha256(p) == Sha256(my[p].bytes)
RecordRef(p) == [path |-> my[p].source, sha256 |-> RecordSha256(p)]

Importing(p, kind, label) ==
    Running(p, "import", label) /\ Record(p).kind = kind

(***************************************************************************)
(* Before the lock: the evidence file.                                     *)
(***************************************************************************)
\* The project must exist, and its directory resolve.
ImportCheck(p) ==
    /\ Running(p, "import", "start")
    /\ \/ manifest = NoProject /\ Refuse(p, "NotAProject")
       \/ manifest # NoProject /\ Refuse(p, "Io")
       \/ manifest # NoProject /\ Continue(p, "resolve", my[p])

ImportLocate(p) ==
    LET name == cmd[p].name
    IN  /\ Running(p, "import", "resolve")
        /\ \/ On(name) = Absent /\ Refuse(p, "JobMissing")
           \/ Refuse(p, "JobUnreadable")
           \/ /\ On(name) # Absent
              /\ IF links[name] = Outside
                 THEN Refuse(p, "JobOutsideRoot")
                 ELSE Continue(p, "read", [my[p] EXCEPT !.source = links[name]])

\* The label of the candidate the record prefers must be one of its labels.
PreferenceKnown(r) ==
    r.preference = None \/ \E i \in DOMAIN r.candidates : r.candidates[i].label = r.preference

\* A dispatch that looks the candidates up before it has the lock.
DispatchLooking(p, mine, r) ==
    IF /\ r.kind = "compare"
       /\ ~({r.candidates[i].asset : i \in DOMAIN r.candidates} \subseteq Ids(manifest.assets))
    THEN Continue(p, "return", [mine EXCEPT !.result = [kind |-> "UnknownAsset", id |-> None]])
    ELSE r.kind = "compare" /\ Continue(p, "lock", mine)

\* What reading the evidence alone can tell: go on at a label, or refuse.  A job
\* record whose time no timestamp can express is malformed too.
Dispatch(p, mine, r) ==
    \/ r.kind = "malformed" /\ Refuse(p, "MalformedJob")
    \/ r.kind = "unrecognized" /\ Refuse(p, "UnrecognizedImportSchema")
    \/ r.kind = "nonconforming" /\ Refuse(p, "RecordNotConforming")
    \/ /\ r.kind = "job"
       /\ IF r.success THEN Continue(p, "stem", mine) ELSE Refuse(p, "NotSuccess")
    \/ /\ r.kind = "compare"
       /\ IF \E i \in DOMAIN r.candidates : r.candidates[i].asset = None
          THEN Refuse(p, "CandidateMissingAsset")
          ELSE IF PreferenceKnown(r) THEN Continue(p, "lock", mine)
                                     ELSE Refuse(p, "UnknownPreference")

ImportRead(p) ==
    LET bytes == On(my[p].source)
    IN  /\ Running(p, "import", "read")
        /\ IF Readable(my[p].source)
           THEN Dispatch(p, [my[p] EXCEPT !.bytes = bytes], Evidence[bytes])
           ELSE Refuse(p, "JobUnreadable")

(***************************************************************************)
(* Before the lock: a job's stems, in order, each resolved then hashed.    *)
(***************************************************************************)
NextStem(p) == Record(p).stems[Len(my[p].stems) + 1]

StemsHashed(p) == Len(my[p].stems) = Len(Record(p).stems)

ImportResolveStem(p) ==
    LET name == Beside[my[p].source, NextStem(p)]
    IN  /\ Importing(p, "job", "stem")
        /\ \/ StemsHashed(p) /\ Continue(p, "lock", my[p])
           \/ ~StemsHashed(p) /\ On(name) = Absent /\ Refuse(p, "StemMissing")
           \/ ~StemsHashed(p) /\ Refuse(p, "StemUnreadable")
           \/ /\ ~StemsHashed(p) /\ On(name) # Absent
              /\ IF links[name] = Outside
                 THEN Refuse(p, "StemOutsideRoot")
                 ELSE Continue(p, "stemhash", [my[p] EXCEPT !.path = links[name]])

\* A hash saved: bytes as long as the last stem's are taken for the same bytes.
ImportHashStemBySize(p) ==
    LET path == my[p].path
        same == my[p].stems # <<>> /\ Last(my[p].stems).size = SizeOf[On(path)]
        stem == [name |-> NextStem(p), path |-> path, size |-> SizeOf[On(path)],
                 sha256 |-> IF same THEN Last(my[p].stems).sha256 ELSE Sha256(On(path))]
    IN  /\ Importing(p, "job", "stemhash")
        /\ Readable(path)
        /\ Continue(p, "stem", [my[p] EXCEPT !.stems = Append(@, stem)])

ImportHashStem(p) ==
    LET path == my[p].path
        stem == [name |-> NextStem(p), path |-> path,
                 sha256 |-> Sha256(On(path)), size |-> SizeOf[On(path)]]
    IN  /\ Importing(p, "job", "stemhash")
        /\ IF Readable(path)
           THEN Continue(p, "stem", [my[p] EXCEPT !.stems = Append(@, stem)])
           ELSE Refuse(p, "StemUnreadable")

(***************************************************************************)
(* Under the lock: has this job been imported, and where is its input?     *)
(***************************************************************************)
\* No idempotency: a job is imported however often it is asked for.
JobsNeverDone(p) == {i \in DOMAIN my[p].m.derivations : FALSE}

JobsDone(p) ==
    {i \in DOMAIN my[p].m.derivations :
        LET job == my[p].m.derivations[i].job
        IN  job # None /\ job.sha256 = RecordSha256(p)}

InputByHash(p) ==
    {i \in DOMAIN my[p].m.assets : my[p].m.assets[i].sha256 = Record(p).input_sha256}

ImportDecide(p) ==
    LET m == my[p].m
        input == Record(p).input
    IN  /\ Importing(p, "job", "decide")
        /\ \/ /\ JobsDone(p) # {}
              /\ End(p, "AlreadyImported", m.derivations[Min(JobsDone(p))].id)
           \/ /\ JobsDone(p) = {} /\ InputByHash(p) # {}
              /\ Continue(p, "register",
                    [my[p] EXCEPT !.input = m.assets[Min(InputByHash(p))].id])
           \/ /\ JobsDone(p) = {} /\ InputByHash(p) = {}
              /\ \/ input \in Absolute /\ Refuse(p, "InputAbsolutePath")
                 \/ input \notin Absolute /\ On(input) = Absent /\ Refuse(p, "InputMissing")
                 \/ input \notin Absolute /\ Refuse(p, "InputUnreadable")
                 \/ /\ input \notin Absolute /\ On(input) # Absent
                    /\ IF links[input] = Outside
                       THEN Refuse(p, "InputOutsideRoot")
                       ELSE Continue(p, "inputhash", [my[p] EXCEPT !.path = links[input]])

PathTaken(assets, path) == \E i \in DOMAIN assets : assets[i].path = path

\* Ids checked against the manifest alone.
TakenInManifest(p) == Ids(my[p].m.assets)

\* The ids import must not mint again: the manifest's and its own.
Taken(p) == Ids(my[p].m.assets) \cup Ids(my[p].fresh)

\* An input registered without a look at what its file holds now.
ImportInputUnchecked(p) ==
    LET path  == my[p].path
        bytes == On(path)
        asset == NewAsset(Mint(BaseOf[path], Taken(p)), path, Sha256(bytes), SizeOf[bytes])
    IN  /\ Importing(p, "job", "inputhash")
        /\ Readable(path) /\ ~PathTaken(my[p].m.assets, path)
        /\ Continue(p, "register", [my[p] EXCEPT !.input = asset.id, !.fresh = <<asset>>])

\* The one hash taken under the lock.
ImportInput(p) ==
    LET path  == my[p].path
        bytes == On(path)
        asset == NewAsset(Mint(BaseOf[path], Taken(p)), path, Sha256(bytes), SizeOf[bytes])
    IN  /\ Importing(p, "job", "inputhash")
        /\ \/ ~Readable(path) /\ Refuse(p, "InputUnreadable")
           \/ /\ Readable(path) /\ Sha256(bytes) # Record(p).input_sha256
              /\ Refuse(p, "InputHashMismatch")
           \/ /\ Readable(path) /\ Sha256(bytes) = Record(p).input_sha256
              /\ IF PathTaken(my[p].m.assets, path)
                 THEN Refuse(p, "InputPathConflict")
                 ELSE Continue(p, "register",
                         [my[p] EXCEPT !.input = asset.id, !.fresh = <<asset>>])

(***************************************************************************)
(* Under the lock: one step of the loop over the hashed stems.  A path     *)
(* already registered with the same hash is linked, not registered again.  *)
(***************************************************************************)
\* A dedupe that does not look at what this import has just registered.
KnownInManifest(p) == my[p].m.assets

Known(p) == my[p].m.assets \o my[p].fresh

ImportStem(p) ==
    LET stem  == my[p].stems[Len(my[p].outputs) + 1]
        same  == {i \in DOMAIN Known(p) : Known(p)[i].path = stem.path}
        asset == NewAsset(Mint(BaseOf[stem.name], Taken(p)), stem.path, stem.sha256, stem.size)
    IN  /\ Importing(p, "job", "register")
        /\ Len(my[p].outputs) < Len(my[p].stems)
        /\ \/ /\ same = {}
              /\ Continue(p, "register", [my[p] EXCEPT !.fresh = Append(@, asset),
                                                       !.outputs = Append(@, asset.id)])
           \/ /\ same # {}
              /\ LET known == Known(p)[Min(same)]
                 IN  IF known.sha256 = stem.sha256
                     THEN Continue(p, "register", [my[p] EXCEPT !.outputs = Append(@, known.id)])
                     ELSE Refuse(p, "StemPathConflict")

\* Both collections grow in the one write.
ImportWriteJob(p) ==
    LET m == my[p].m
        derivation == [id      |-> Mint(FolderOf[my[p].source], Ids(m.derivations)),
                       inputs  |-> <<my[p].input>>,
                       outputs |-> my[p].outputs,
                       job     |-> RecordRef(p)]
    IN  /\ Importing(p, "job", "register")
        /\ Len(my[p].outputs) = Len(my[p].stems)
        /\ Commit(p, [m EXCEPT !.assets = @ \o my[p].fresh,
                               !.derivations = Append(@, derivation)],
                  "Imported", derivation.id)

(***************************************************************************)
(* Under the lock: a comparison record.                                    *)
(***************************************************************************)
Candidates(r) == [i \in DOMAIN r.candidates |-> r.candidates[i].asset]

\* A preference taken by its place in the alphabet, not looked up.
PreferenceByLetter(r) ==
    IF r.preference = None THEN None
    ELSE r.candidates[IF r.preference = "A" THEN 1 ELSE 2].asset

\* The first candidate that carries the preferred label.
Preference(r) ==
    IF r.preference = None THEN None
    ELSE LET labelled == {i \in DOMAIN r.candidates : r.candidates[i].label = r.preference}
         IN  r.candidates[Min(labelled)].asset

\* No-op detection that compares the record's path.
RecordsDoneByPath(p) ==
    {i \in DOMAIN my[p].m.evaluations :
        my[p].m.evaluations[i].record.path = my[p].source}

RecordsDone(p) ==
    {i \in DOMAIN my[p].m.evaluations :
        my[p].m.evaluations[i].record.sha256 = RecordSha256(p)}

AllRegistered(candidates, m) == Range(candidates) \subseteq Ids(m.assets)

ImportEvaluation(p) ==
    LET m == my[p].m
        candidates == Candidates(Record(p))
        evaluation == [id |-> Mint(Matchup(candidates), Ids(m.evaluations)),
                       candidates |-> candidates,
                       preference |-> Preference(Record(p)),
                       record     |-> RecordRef(p)]
    IN  /\ Importing(p, "compare", "decide")
        /\ \/ /\ RecordsDone(p) # {}
              /\ End(p, "EvaluationAlreadyImported", m.evaluations[Min(RecordsDone(p))].id)
           \/ /\ RecordsDone(p) = {} /\ ~AllRegistered(candidates, m)
              /\ Refuse(p, "UnknownAsset")
           \/ /\ RecordsDone(p) = {} /\ AllRegistered(candidates, m)
              /\ Commit(p, [m EXCEPT !.evaluations = Append(@, evaluation)],
                        "EvaluationImported", evaluation.id)

ImportBeforeLock(p) == ImportCheck(p) \/ ImportLocate(p) \/ ImportRead(p)
                         \/ ImportResolveStem(p) \/ ImportHashStem(p)

Import(p) == ImportBeforeLock(p) \/ ImportDecide(p) \/ ImportInput(p)
               \/ ImportStem(p) \/ ImportWriteJob(p) \/ ImportEvaluation(p)
=============================================================================
