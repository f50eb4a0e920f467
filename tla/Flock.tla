------------------------------- MODULE Flock --------------------------------
(***************************************************************************)
(* The sidecar lock (crates/core/src/lock.rs): each mutating command opens *)
(* <root>/.uncompose.project.lock, creating it if absent, tries flock once *)
(* without blocking, then blocks; it drops the lock by closing the file.   *)
(* The kernel's part: flock excludes descriptors of the same inode only,   *)
(* and closes the files of a process that dies.                            *)
(*                                                                         *)
(* A process runs up to Rounds commands one after another.                 *)
(***************************************************************************)
EXTENDS Naturals, FiniteSets

CONSTANTS
    Procs,      \* processes that run mutating commands
    Inodes,     \* inodes the lock file may get
    NoFile,     \* no lock file yet, or no descriptor
    Free,       \* the abstract lock is free
    Rounds      \* bound: commands per process

ASSUME NoFileAssumption == NoFile \notin Inodes
ASSUME RoundsAssumption == Rounds \in Nat \ {0}
ASSUME FreeAssumption == Free \notin Procs

VARIABLES
    lockFile,   \* the inode the lock's path names
    fd,         \* the inode each process has open
    locked,     \* the processes whose descriptor holds the flock
    pc,
    left        \* commands each process has yet to run

vars == <<lockFile, fd, locked, pc, left>>

TypeOK ==
    /\ lockFile \in Inodes \cup {NoFile}
    /\ fd \in [Procs -> Inodes \cup {NoFile}]
    /\ locked \subseteq Procs
    /\ pc \in [Procs -> {"idle", "open", "try", "blocked", "holding"}]
    /\ left \in [Procs -> 0..Rounds]

Init ==
    /\ lockFile = NoFile
    /\ fd = [p \in Procs |-> NoFile]
    /\ locked = {}
    /\ pc = [p \in Procs |-> "idle"]
    /\ left = [p \in Procs |-> Rounds]

Goto(p, label) == pc' = [pc EXCEPT ![p] = label]

Start(p) ==
    /\ pc[p] = "idle" /\ left[p] > 0
    /\ left' = [left EXCEPT ![p] = @ - 1]
    /\ Goto(p, "open")
    /\ UNCHANGED <<lockFile, fd, locked>>

\* open(O_RDWR | O_CREAT): one inode, created by whoever comes first.
Open(p) ==
    /\ pc[p] = "open"
    /\ IF lockFile = NoFile
       THEN \E i \in Inodes : lockFile' = i /\ fd' = [fd EXCEPT ![p] = i]
       ELSE UNCHANGED lockFile /\ fd' = [fd EXCEPT ![p] = lockFile]
    /\ Goto(p, "try")
    /\ UNCHANGED <<locked, left>>

\* The kernel grants an exclusive flock when no descriptor of that inode has one.
Available(p) == \A q \in locked : fd[q] # fd[p]

\* A grant that leaves the conflict test out.
GrantUnchecked(p) ==
    /\ locked' = locked \cup {p}
    /\ Goto(p, "holding")
    /\ UNCHANGED <<lockFile, fd, left>>

Grant(p) ==
    /\ Available(p)
    /\ locked' = locked \cup {p}
    /\ Goto(p, "holding")
    /\ UNCHANGED <<lockFile, fd, left>>

TryGranted(p) == pc[p] = "try" /\ Grant(p)

\* LOCK_NB answers WouldBlock: print the notice, then wait.
TryWouldBlock(p) ==
    /\ pc[p] = "try" /\ ~Available(p)
    /\ Goto(p, "blocked")
    /\ UNCHANGED <<lockFile, fd, locked, left>>

BlockedGranted(p) == pc[p] = "blocked" /\ Grant(p)

\* The file is closed: on drop, on an error return, and by the kernel on a crash.
Close(p) ==
    /\ fd' = [fd EXCEPT ![p] = NoFile]
    /\ locked' = locked \ {p}
    /\ Goto(p, "idle")

\* A lock that outlives its holder, as a lock file holding a pid does.
CloseLeavingLock(p) ==
    /\ UNCHANGED <<fd, locked>>
    /\ Goto(p, "idle")

\* A release that tidies the lock file away.
ReleaseRemovingFile(p) ==
    /\ pc[p] = "holding"
    /\ Close(p)
    /\ lockFile' = NoFile
    /\ UNCHANGED left

Release(p) ==
    /\ pc[p] = "holding"
    /\ Close(p)
    /\ UNCHANGED <<lockFile, left>>

\* A crash after which nothing closes the file.
CrashHolding(p) ==
    /\ pc[p] # "idle"
    /\ CloseLeavingLock(p)
    /\ UNCHANGED <<lockFile, left>>

\* An open or a flock that fails ends the command; a crash ends it anywhere.
Fail(p) ==
    /\ pc[p] \in {"open", "try", "blocked"}
    /\ Close(p)
    /\ UNCHANGED <<lockFile, left>>

Crash(p) ==
    /\ pc[p] # "idle"
    /\ Close(p)
    /\ UNCHANGED <<lockFile, left>>

Step(p) == Open(p) \/ TryGranted(p) \/ TryWouldBlock(p) \/ BlockedGranted(p)
             \/ Release(p)

\* Every process has run its commands and ended the last one.
AllIdle ==
    /\ \A p \in Procs : pc[p] = "idle" /\ left[p] = 0
    /\ UNCHANGED vars

Next == \/ \E p \in Procs : Start(p) \/ Step(p) \/ Fail(p) \/ Crash(p)
        \/ AllIdle

\* A command that has begun goes on: its steps are never put off forever.
\* The holder releases because what it does under the lock is finite.
Fairness == \A p \in Procs : WF_vars(Step(p))

Spec == Init /\ [][Next]_vars /\ Fairness

(***************************************************************************)
(* Properties.                                                             *)
(***************************************************************************)
\* Two commands are never both between a successful acquire and the drop,
\* whoever created the lock file, failed or crashed before.
MutualExclusion ==
    \A p, q \in Procs : pc[p] = "holding" /\ pc[q] = "holding" => p = q

\* A command that waits for the lock gets it, fails or dies: a crashed holder
\* never wedges the next one.
NobodyWaitsForever ==
    \A p \in Procs : pc[p] = "blocked" ~> pc[p] # "blocked"

\* The abstract lock.
Owner == IF locked = {} THEN Free ELSE CHOOSE p \in Procs : p \in locked

Abstract == INSTANCE Mutex WITH owner <- Owner

ImplementsMutex == Abstract!Spec

(***************************************************************************)
(* The inductive invariant: there is one inode to contend for, and the     *)
(* descriptors that hold a flock have different ones.                      *)
(***************************************************************************)
OneInode == \A p \in Procs : fd[p] # NoFile => fd[p] = lockFile
HoldersOpen == locked = {p \in Procs : pc[p] = "holding"}
OpenFds == \A p \in Procs : pc[p] \in {"try", "blocked", "holding"} => fd[p] # NoFile
KernelExcludes == \A p, q \in locked : fd[p] = fd[q] => p = q

IInv == TypeOK /\ OneInode /\ HoldersOpen /\ OpenFds /\ KernelExcludes
=============================================================================
