----------------------------- MODULE Workspace ------------------------------
(***************************************************************************)
(* What the commands share: the project directory (the manifest and the    *)
(* files around it), the project lock, the clock, and the state of each    *)
(* running command.  A process runs one command; a step is one access to   *)
(* something shared, with the local work up to the next one.               *)
(*                                                                         *)
(* The lock is the abstract Mutex that Flock implements; the manifest      *)
(* changes in one step because write_atomic is atomic (AtomicWrite).       *)
(***************************************************************************)
EXTENDS Manifest

CONSTANTS
    Procs, Free,
    Invocations,    \* the command lines a process may run
    Paths,          \* root-relative canonical paths: names of regular places
    Outside,        \* the place of every file outside the root
    Absolute,       \* the names that are absolute paths
    Absent,         \* no file
    Denied,         \* places that exist but this user may not open
    BaseOf,         \* slugify(file stem), of names and of stem names
    Starts, StartFiles, StartLinks,     \* what a project may be found as
    Rewrites,       \* the edits users and other tools make: <<place, content>>
    Relinks,        \* the links they move: <<name, place>>
    MaxEdits,       \* bound: edits and relinks in a behaviour
    MaxTime,        \* bound: clock ticks
    Mortal          \* processes that may be killed

Places == Paths \cup {Outside}

ASSUME PathsAssumption == Paths \subseteq Names /\ Absolute \subseteq Names \ Paths
ASSUME PlacesAssumption == Outside \notin Names /\ Denied \subseteq Places
ASSUME FreeAssumption == Free \notin Procs
ASSUME AbsentAssumption == Absent \notin Contents
ASSUME BoundsAssumption == MaxEdits \in Nat /\ MaxTime \in Nat
ASSUME InvocationsAssumption ==
    \A c \in Invocations : c.do \in {"add", "import"} => c.name \in Names
ASSUME BaseAssumption == BaseOf \in [DOMAIN BaseOf -> Slugs] /\ Names \subseteq DOMAIN BaseOf
ASSUME DiskAssumption ==
    /\ StartFiles \subseteq [Places -> Contents \cup {Absent}]
    /\ StartLinks \subseteq [Names -> Places]
    /\ Rewrites \subseteq Places \X (Contents \cup {Absent})
    /\ Relinks \subseteq Names \X Places
\* A canonical place resolves to itself; a name that leads to it may be any.
ASSUME CanonicalAssumption ==
    \A l \in StartLinks : \A n \in Names : l[n] \in Paths => l[l[n]] = l[n]
ASSUME StartsAssumption ==
    \A m \in Starts : m = NoProject \/ (m \in Manifests /\ Consistent(m))
\* The clock does not run back: no project was stamped later than it shows.
ASSUME ClockAssumption ==
    \A m \in Starts : m # NoProject =>
        \A i \in DOMAIN m.assets : m.assets[i].last_verified <= 1
ASSUME MeasuredAssumption == \A m \in Starts : m # NoProject => Measured(m.assets)
ASSUME NoProjectAssumption == NoProject \notin Manifests

VARIABLES
    manifest,   \* what uncompose.project.json holds, or NoProject
    files,      \* the content at each place, or Absent
    links,      \* the place each name resolves to
    lock,       \* the holder of the project lock, or Free
    now,        \* the clock
    edits,      \* edits made so far
    cmd,        \* the command line of each process
    pc,
    my,         \* the local variables of each command
    seen        \* history: the <<name, content>> pairs true during each command

disk == <<files, links, edits>>
shared == <<manifest, lock, now, cmd, seen>>
vars == <<manifest, files, links, lock, now, edits, cmd, pc, my, seen>>

L == INSTANCE Mutex WITH owner <- lock

(***************************************************************************)
(* The local variables of a command.                                       *)
(***************************************************************************)
Refusals ==
    {"NotAProject", "AlreadyExists", "AbsolutePath", "OutsideRoot",
     "MissingFile", "Unreadable", "DuplicatePath", "InvalidSlug", "IdInUse",
     "JobMissing", "JobUnreadable", "JobOutsideRoot", "MalformedJob",
     "UnrecognizedImportSchema", "NotSuccess", "StemMissing",
     "StemUnreadable", "StemOutsideRoot", "StemPathConflict",
     "InputAbsolutePath", "InputMissing", "InputUnreadable",
     "InputOutsideRoot", "InputHashMismatch", "InputPathConflict",
     "RecordNotConforming", "CandidateMissingAsset", "UnknownPreference",
     "UnknownAsset", "Io", "NoName"}

Successes == {"Created", "Added", "Imported", "AlreadyImported",
              "EvaluationImported", "EvaluationAlreadyImported",
              "AllVerified", "NotAllVerified", "Shown"}

Results == [kind : Refusals \cup Successes \cup {"none"}, id : Slugs \cup {None}]

Integrities == {"verified", "modified", "missing"}

PreStems == [name : DOMAIN BaseOf, path : Names, sha256 : Hashes, size : Nat]

Locals == [
    result : Results,
    path   : Names \cup {None},             \* the path resolved last
    hash   : Hashes \cup {None}, size : Nat,
    source : Names \cup {None},             \* the evidence file's path ...
    bytes  : Contents \cup {None},          \* ... and content
    stems  : Seq(PreStems),                 \* stems hashed before the lock
    m      : Manifests \cup {NoProject},    \* the manifest read under the lock
    snapshot : Manifests \cup {NoProject},  \* the one verify checks the disk against
    input  : Slugs \cup {None},
    fresh  : Seq(Assets),                   \* assets this import registers
    outputs  : Seq(Slugs),
    statuses : Seq(Integrities),            \* verify's, of the snapshot's assets
    records  : Seq(Integrities),            \* verify's, of its evaluations
    time     : Nat]                         \* the time verify stamps, 0 before it

Blank == [result |-> [kind |-> "none", id |-> None],
          path |-> None, hash |-> None, size |-> 0, source |-> None,
          bytes |-> None, stems |-> <<>>, m |-> NoProject,
          snapshot |-> NoProject, input |-> None,
          fresh |-> <<>>, outputs |-> <<>>, statuses |-> <<>>, records |-> <<>>,
          time |-> 0]

Labels == {"start", "resolve", "hash", "read", "stem", "stemhash", "check",
           "lock", "load", "decide", "inputhash", "register",
           "write", "print", "return", "done", "crashed"}

Ended == {"done", "crashed"}

(***************************************************************************)
(* The directory.  Opening or stating a name follows its link.             *)
(***************************************************************************)
On(name) == files[links[name]]
Readable(name) == On(name) # Absent /\ links[name] \notin Denied

(***************************************************************************)
(* Building blocks of the commands' steps.                                 *)
(***************************************************************************)
Running(p, do, label) == cmd[p].do = do /\ pc[p] = label

Continue(p, label, mine) ==
    /\ pc' = [pc EXCEPT ![p] = label]
    /\ my' = [my EXCEPT ![p] = mine]
    /\ UNCHANGED <<shared, disk>>

Answer(p, kind, id) == [my[p] EXCEPT !.result = [kind |-> kind, id |-> id]]

End(p, kind, id) == Continue(p, "return", Answer(p, kind, id))

Refuse(p, why) == End(p, why, None)

\* A command that goes on without the lock.
AcquireSkipped(p) ==
    /\ pc[p] = "lock"
    /\ pc' = [pc EXCEPT ![p] = "load"]
    /\ UNCHANGED <<manifest, lock, now, cmd, my, seen, disk>>

\* ProjectLock::acquire: waits for the lock, or fails.
Acquire(p) ==
    /\ pc[p] = "lock"
    /\ L!Enter(p)
    /\ pc' = [pc EXCEPT ![p] = "load"]
    /\ UNCHANGED <<manifest, now, cmd, my, seen, disk>>

AcquireFails(p) == pc[p] = "lock" /\ Refuse(p, "Io")

\* A load that keeps the snapshot taken before the lock, if there is one.
LoadStale(p) ==
    /\ pc[p] = "load" /\ cmd[p].do # "init"
    /\ Continue(p, IF cmd[p].do = "import" THEN "decide" ELSE "write",
                [my[p] EXCEPT !.m = IF my[p].snapshot = NoProject THEN manifest
                                                         ELSE my[p].snapshot])

\* load_manifest under the lock.
Load(p) ==
    /\ pc[p] = "load" /\ cmd[p].do # "init"
    /\ IF manifest = NoProject
       THEN Refuse(p, "NotAProject")
       ELSE Continue(p, IF cmd[p].do = "import" THEN "decide" ELSE "write",
                     [my[p] EXCEPT !.m = manifest])

\* write_atomic: the new manifest is in place, or nothing has changed.
Commit(p, new, kind, id) ==
    \/ /\ manifest' = new
       /\ pc' = [pc EXCEPT ![p] = "return"]
       /\ my' = [my EXCEPT ![p] = Answer(p, kind, id)]
       /\ UNCHANGED <<lock, now, cmd, seen, disk>>
    \/ Refuse(p, "Io")

\* A refusal that forgets to drop the lock.
ReturnHolding(p) ==
    /\ pc[p] = "return"
    /\ IF lock = p /\ my[p].result.kind \in Successes THEN L!Leave(p) ELSE UNCHANGED lock
    /\ pc' = [pc EXCEPT ![p] = "done"]
    /\ seen' = [seen EXCEPT ![p] = {}]
    /\ UNCHANGED <<manifest, now, cmd, my, disk>>

\* The command returns, dropping the lock if it holds it, and its process exits.
Return(p) ==
    /\ pc[p] = "return"
    /\ IF lock = p THEN L!Leave(p) ELSE UNCHANGED lock
    /\ pc' = [pc EXCEPT ![p] = "done"]
    /\ seen' = [seen EXCEPT ![p] = {}]
    /\ UNCHANGED <<manifest, now, cmd, my, disk>>

\* The process is killed; the kernel drops its lock.
Crash(p) ==
    /\ p \in Mortal /\ pc[p] \notin Ended
    /\ IF lock = p THEN L!Leave(p) ELSE UNCHANGED lock
    /\ pc' = [pc EXCEPT ![p] = "crashed"]
    /\ seen' = [seen EXCEPT ![p] = {}]
    /\ UNCHANGED <<manifest, now, cmd, my, disk>>

(***************************************************************************)
(* The world around the commands.                                          *)
(***************************************************************************)
\* What every name holds once the files and links are f and l.
Facts(f, l) == {<<n, f[l[n]]>> : n \in Names}

Witness(f, l) ==
    seen' = [p \in Procs |->
                 CASE pc[p] = "start"  -> Facts(f, l)
                   [] pc[p] \in Ended  -> {}
                   [] OTHER            -> seen[p] \cup Facts(f, l)]

Edit ==
    \E e \in Rewrites :
       /\ edits < MaxEdits /\ files[e[1]] # e[2]
       /\ files' = [files EXCEPT ![e[1]] = e[2]]
       /\ edits' = edits + 1
       /\ Witness(files', links)
       /\ UNCHANGED <<manifest, links, lock, now, cmd, pc, my>>

Relink ==
    \E e \in Relinks :
       /\ edits < MaxEdits /\ links[e[1]] # e[2]
       /\ links' = [links EXCEPT ![e[1]] = e[2]]
       /\ edits' = edits + 1
       /\ Witness(files, links')
       /\ UNCHANGED <<manifest, files, lock, now, cmd, pc, my>>

Tick ==
    /\ now < MaxTime
    /\ now' = now + 1
    /\ UNCHANGED <<manifest, lock, cmd, pc, my, seen, disk>>

Init ==
    /\ manifest \in Starts
    /\ files \in StartFiles /\ links \in StartLinks
    /\ lock = Free /\ now = 1 /\ edits = 0
    /\ cmd \in [Procs -> Invocations]
    /\ pc = [p \in Procs |-> "start"]
    /\ my = [p \in Procs |-> Blank]
    /\ seen = [p \in Procs |-> Facts(files, links)]

TypeOK ==
    /\ manifest \in Manifests \cup {NoProject}
    /\ files \in [Places -> Contents \cup {Absent}]
    /\ links \in [Names -> Places]
    /\ lock \in Procs \cup {Free}
    /\ now \in Nat /\ edits \in 0..MaxEdits
    /\ cmd \in [Procs -> Invocations]
    /\ pc \in [Procs -> Labels]
    /\ my \in [Procs -> Locals]
    /\ seen \in [Procs -> SUBSET (Names \X (Contents \cup {Absent}))]
=============================================================================
