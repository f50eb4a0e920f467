------------------------------ MODULE Project -------------------------------
(***************************************************************************)
(* An uncompose project: any number of commands at once on one directory,  *)
(* while files change under them.  This module adds init and show to the   *)
(* other commands, composes them and states what they guarantee.           *)
(***************************************************************************)
EXTENDS AddCommand, ImportCommand, VerifyCommand

(***************************************************************************)
(* init: the existence check and the write are both under the lock.        *)
(***************************************************************************)
\* Without --name the directory must have a name that is text.
InitStart(p) ==
    /\ Running(p, "init", "start")
    /\ IF cmd[p].named THEN Continue(p, "lock", my[p]) ELSE Refuse(p, "NoName")

\* An init that does not look again once it has the lock.
InitOverwrites(p) == Running(p, "init", "load") /\ Continue(p, "write", my[p])

InitExists(p) ==
    /\ Running(p, "init", "load")
    /\ IF manifest = NoProject THEN Continue(p, "write", my[p])
                               ELSE Refuse(p, "AlreadyExists")

InitWrite(p) ==
    /\ Running(p, "init", "write")
    /\ Commit(p, NewManifest, "Created", None)

InitProject(p) == InitStart(p) \/ InitExists(p) \/ InitWrite(p)

(***************************************************************************)
(* show: one read, no lock.  The bytes it prints with --json may not all   *)
(* get out.                                                                *)
(***************************************************************************)
ShowLoad(p) ==
    /\ Running(p, "show", "start")
    /\ IF manifest = NoProject
       THEN Refuse(p, "NotAProject")
       ELSE Continue(p, "print", [my[p] EXCEPT !.snapshot = manifest])

ShowPrint(p) ==
    /\ Running(p, "show", "print")
    /\ \/ End(p, "Shown", None)
       \/ cmd[p].json /\ Refuse(p, "Io")

Show(p) == ShowLoad(p) \/ ShowPrint(p)

(***************************************************************************)
(* What the exit status tells: a command exits 0 for these answers only.   *)
(***************************************************************************)
InitSucceeds == {"Created"}
AddSucceeds == {"Added"}
ImportSucceeds == {"Imported", "AlreadyImported",
                   "EvaluationImported", "EvaluationAlreadyImported"}
VerifySucceeds == {"AllVerified"}
ShowSucceeds == {"Shown"}

ExitsZero(p) ==
    my[p].result.kind \in InitSucceeds \cup AddSucceeds \cup ImportSucceeds
                             \cup VerifySucceeds \cup ShowSucceeds

(***************************************************************************)
(* The whole.                                                              *)
(***************************************************************************)
Command(p) ==
    \/ Acquire(p) \/ Load(p) \/ Return(p)
    \/ InitProject(p) \/ Add(p) \/ Import(p) \/ Verify(p) \/ Show(p)

\* Nothing is left to run.
Quiet == (\A p \in Procs : pc[p] \in Ended) /\ UNCHANGED vars

Next == \/ \E p \in Procs : Command(p) \/ AcquireFails(p) \/ Crash(p)
        \/ Edit \/ Relink \/ Tick
        \/ Quiet

Spec == Init /\ [][Next]_vars

\* A command that runs keeps running: its next step is not put off forever.
\* Nothing makes an acquire that waits fail, so a lock never dropped would be
\* waited for forever.
FairSpec == Spec /\ \A p \in Procs : WF_vars(Command(p))

(***************************************************************************)
(* What the manifest holds, whoever wrote it in whatever order.            *)
(***************************************************************************)
\* The commands together do what Registry allows: each changes the manifest in
\* one step, to one that extends what was there when it was written.
Abstract == INSTANCE Registry

ImplementsRegistry == Abstract!Spec

\* However the commands interleave or die, ids, paths and imported records stay
\* unique and no entry names an asset the manifest does not hold.
ManifestConsistent == manifest # NoProject => Consistent(manifest)

\* Between its load and its write a command holds the lock, and the manifest it
\* decides on is the one its write will replace: nobody else's write comes
\* between, and for init there still is none.
UnderLock == {"decide", "inputhash", "register", "write"}
SnapshotIsCurrent ==
    \A p \in Procs : pc[p] \in UnderLock => lock = p /\ my[p].m = manifest

\* No command's write erases or alters what another one recorded.
NothingIsLost == manifest # NoProject =>
    manifest' # NoProject /\ Extends(manifest, manifest')
NoLostUpdate == [][NothingIsLost]_vars

\* A success reported to the user stays true: the asset, derivation or
\* evaluation it names is in the manifest, and is the one the command wrote.
ReportedIsRecorded ==
    \A p \in Procs : pc[p] = "done" =>
       LET result == my[p].result
       IN  /\ ExitsZero(p) => manifest # NoProject
           /\ result.kind = "Added" =>
                 \E i \in DOMAIN manifest.assets :
                    /\ manifest.assets[i].id = result.id
                    /\ manifest.assets[i].path = my[p].path
                    /\ manifest.assets[i].sha256 = my[p].hash
           /\ result.kind \in {"Imported", "AlreadyImported"} =>
                 \E i \in DOMAIN manifest.derivations :
                    LET d == manifest.derivations[i]
                    IN  /\ d.id = result.id
                        /\ d.job # None /\ d.job.sha256 = RecordSha256(p)
           /\ result.kind \in {"EvaluationImported", "EvaluationAlreadyImported"} =>
                 \E i \in DOMAIN manifest.evaluations :
                    LET e == manifest.evaluations[i]
                    IN  e.id = result.id /\ e.record.sha256 = RecordSha256(p)

\* What a refusal that blames the manifest says of it.
InputRefusals == {"InputAbsolutePath", "InputMissing", "InputUnreadable",
                  "InputOutsideRoot", "InputHashMismatch", "InputPathConflict"}

Justified(c, mine, m) ==
    LET why    == mine.result.kind
        record == Evidence[mine.bytes]
        known  == m.assets \o mine.fresh
    IN  /\ why = "AlreadyExists" => m # NoProject
        /\ why = "DuplicatePath" => PathTaken(m.assets, mine.path)
        /\ why = "IdInUse" => c.id \in Ids(m.assets)
        /\ why = "UnknownAsset" => ~AllRegistered(Candidates(record), m)
        /\ why \in InputRefusals =>
              \A i \in DOMAIN m.assets : m.assets[i].sha256 # record.input_sha256
        /\ why = "InputPathConflict" => PathTaken(m.assets, mine.path)
        /\ why = "StemPathConflict" =>
              \E i \in DOMAIN mine.stems, j \in DOMAIN known :
                 /\ known[j].path = mine.stems[i].path
                 /\ known[j].sha256 # mine.stems[i].sha256

\* A refusal that blames the manifest is true of the manifest there is when the
\* command returns: what another command has just registered is never reported
\* as unknown, and nothing is reported as taken that is free.
RefusalsAreCurrent ==
    \A p \in Procs : pc[p] = "return" => Justified(cmd[p], my[p], manifest)

(***************************************************************************)
(* What an imported entry says is what the evidence says.                  *)
(***************************************************************************)
\* The evidence whose bytes have this hash.
EvidenceOf(sha256) == Evidence[CHOOSE c \in Contents : Sha256(c) = sha256]

AssetOf(id) == CHOOSE i \in DOMAIN manifest.assets : manifest.assets[i].id = id

MatchesJob(d) ==
    LET job == EvidenceOf(d.job.sha256)
        Asset(id) == manifest.assets[AssetOf(id)]
    IN  /\ job.kind = "job"
        /\ Len(d.inputs) = 1 /\ Len(d.outputs) = Len(job.stems)
        /\ Asset(d.inputs[1]).sha256 = job.input_sha256
        /\ \A i \in DOMAIN d.outputs :
              Asset(d.outputs[i]).path = links[Beside[d.job.path, job.stems[i]]]

\* The input a derivation links is, byte for byte, the mix the job separated,
\* and its outputs are the job's stems in their order, whatever was registered
\* or edited before the import took the lock.
LineageIsTrue ==
    manifest # NoProject =>
        \A i \in DOMAIN manifest.derivations :
            manifest.derivations[i].job # None => MatchesJob(manifest.derivations[i])

MatchesRecord(e) ==
    LET r == EvidenceOf(e.record.sha256)
    IN  /\ r.kind = "compare"
        /\ Len(e.candidates) = Len(r.candidates)
        /\ \A i \in DOMAIN e.candidates : e.candidates[i] = r.candidates[i].asset
        /\ IF r.preference = None
           THEN e.preference = None
           ELSE \E i \in DOMAIN e.candidates :
                   /\ r.candidates[i].label = r.preference
                   /\ e.candidates[i] = e.preference

\* A verdict is its record's: the candidates in the record's order, and as the
\* preferred asset one that the preferred label stands for, in whatever order
\* the labels come and whether or not two candidates share one, or none at all
\* where the record has no preference.
VerdictIsTrue ==
    manifest # NoProject =>
        \A i \in DOMAIN manifest.evaluations : MatchesRecord(manifest.evaluations[i])

(***************************************************************************)
(* What a command says of the disk was true while it ran.                  *)
(***************************************************************************)
Witnessed(p, path, sha256) ==
    \E c \in Contents : <<path, c>> \in seen[p] /\ Sha256(c) = sha256

\* Nobody moves the link add is given, nor the place it leads to.
Unmoved(p) == \A e \in Relinks : e[1] \notin {cmd[p].name, my[p].path}

\* The identity add records is of bytes the name it was given led to at some
\* moment of the command, and where that name stays put of bytes at the path it
\* records; the one import records is always of bytes at the path beside it.
IdentityWasReal ==
    \A p \in Procs : pc[p] = "return" =>
        /\ my[p].result.kind = "Added" =>
              /\ Witnessed(p, cmd[p].name, my[p].hash)
              /\ Unmoved(p) => Witnessed(p, my[p].path, my[p].hash)
        /\ my[p].result.kind = "Imported" =>
              \A i \in DOMAIN my[p].fresh :
                 Witnessed(p, my[p].fresh[i].path, my[p].fresh[i].sha256)

\* Each status verify reports was the file's during the pass: a verified file
\* held the recorded bytes, a missing one was absent, a modified one held
\* other bytes.  A passing verdict covers the comparison records too.
StatusWasReal ==
    \A p \in Procs : pc[p] = "return" /\ cmd[p].do = "verify" =>
        LET mine == my[p]
        IN  /\ \A i \in DOMAIN mine.statuses :
                 LET a == mine.snapshot.assets[i]
                 IN  CASE mine.statuses[i] = "verified" -> Witnessed(p, a.path, a.sha256)
                       [] mine.statuses[i] = "missing"  -> <<a.path, Absent>> \in seen[p]
                       [] mine.statuses[i] = "modified" ->
                            \E c \in Contents : /\ <<a.path, c>> \in seen[p]
                                                /\ Sha256(c) # a.sha256
            /\ ExitsZero(p) =>
                 /\ \A i \in DOMAIN mine.snapshot.assets :
                       Witnessed(p, mine.snapshot.assets[i].path, mine.snapshot.assets[i].sha256)
                 /\ \A i \in DOMAIN mine.snapshot.evaluations :
                       LET r == mine.snapshot.evaluations[i].record
                       IN  Witnessed(p, r.path, r.sha256)

\* What a pass found good is stamped with a time of that pass, whatever else it
\* found: one bad file does not cost the others their stamps.
PassingAssetsAreStamped ==
    \A p \in Procs :
        pc[p] = "return" /\ my[p].result.kind \in {"AllVerified", "NotAllVerified"} =>
            \A i \in DOMAIN my[p].statuses :
                my[p].statuses[i] = "verified" =>
                    \E j \in DOMAIN manifest.assets :
                       /\ manifest.assets[j].id = my[p].snapshot.assets[i].id
                       /\ manifest.assets[j].last_verified = my[p].time
                       /\ my[p].time # 0

\* last_verified moves only for an asset whose recorded bytes were at its path
\* during the pass of the verify that moves it.
StampedWasGood ==
    manifest # NoProject /\ manifest' # NoProject =>
        \A i \in DOMAIN manifest.assets :
            manifest'.assets[i].last_verified # manifest.assets[i].last_verified =>
                Witnessed(lock, manifest.assets[i].path, manifest.assets[i].sha256)
StampIsEarned == [][StampedWasGood]_vars

(***************************************************************************)
(* What the documents say and the code does not do (each checked by a run  *)
(* that ends in a violation).                                              *)
(***************************************************************************)
\* ADR-0010: a byte-identical re-run is a no-op regardless of what else changed
\* on disk.  The code hashes the stems before it looks for the job.  A refusal for
\* an error of the file system is not meant.
IoErrors == {"Io", "JobUnreadable", "StemUnreadable", "InputUnreadable"}

RecordedJobIsNoOp ==
    \A p \in Procs :
        /\ pc[p] = "return" /\ cmd[p].do = "import" /\ my[p].bytes # None
        /\ my[p].result.kind \in Refusals \ IoErrors
        => ~\E i \in DOMAIN manifest.derivations :
               manifest.derivations[i].job # None
                 /\ manifest.derivations[i].job.sha256 = RecordSha256(p)

\* ADR-0003: the file exists when add runs, to be hashed, and "the checks share
\* one resolution".  The code resolves the name for the path it records and then
\* opens the name again for the bytes.
AddRecordsOneFile ==
    \A p \in Procs : pc[p] = "return" =>
        (my[p].result.kind = "Added" => Witnessed(p, my[p].path, my[p].hash))

(***************************************************************************)
(* Every command ends: nothing waits for a lock nobody will drop.          *)
(***************************************************************************)
EveryCommandEnds == \A p \in Procs : <>(pc[p] \in Ended)
=============================================================================
