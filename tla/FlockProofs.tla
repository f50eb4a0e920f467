---------------------------- MODULE FlockProofs -----------------------------
(***************************************************************************)
(* Flock for every number of processes, inodes and rounds: IInv is         *)
(* inductive, so at most one command holds the lock, and what they do to   *)
(* it is what Mutex allows.                                                *)
(***************************************************************************)
EXTENDS Flock, TLAPS

LEMMA InitIInv == Init => IInv
BY NoFileAssumption, RoundsAssumption
DEF Init, IInv, TypeOK, OneInode, HoldersOpen, OpenFds, KernelExcludes

(***************************************************************************)
(* Each kind of step keeps IInv.                                           *)
(***************************************************************************)
LEMMA StartIInv == ASSUME IInv, NEW p \in Procs, Start(p) PROVE IInv'
<1> USE DEF IInv, TypeOK, OneInode, HoldersOpen, OpenFds, KernelExcludes, Start, Goto
<1>1. TypeOK'
  BY RoundsAssumption
<1>2. OneInode' /\ HoldersOpen' /\ OpenFds' /\ KernelExcludes'
  OBVIOUS
<1> QED BY <1>1, <1>2

LEMMA OpenIInv == ASSUME IInv, NEW p \in Procs, Open(p) PROVE IInv'
<1> USE DEF IInv, TypeOK, OneInode, HoldersOpen, OpenFds, KernelExcludes, Open, Goto
<1>1. TypeOK'
  OBVIOUS
<1>2. OneInode'
  BY NoFileAssumption
<1>3. HoldersOpen'
  OBVIOUS
<1>4. OpenFds'
  BY NoFileAssumption
<1>5. KernelExcludes'
  OBVIOUS
<1> QED BY <1>1, <1>2, <1>3, <1>4, <1>5

LEMMA GrantIInv ==
  ASSUME IInv, NEW p \in Procs, pc[p] \in {"try", "blocked"}, Grant(p)
  PROVE  IInv'
<1> USE DEF IInv, TypeOK, OneInode, HoldersOpen, OpenFds, KernelExcludes, Grant, Goto
<1>1. TypeOK' /\ OneInode' /\ HoldersOpen' /\ OpenFds'
  OBVIOUS
<1>2. KernelExcludes'
  BY DEF Available
<1> QED BY <1>1, <1>2

LEMMA WaitIInv == ASSUME IInv, NEW p \in Procs, TryWouldBlock(p) PROVE IInv'
BY DEF IInv, TypeOK, OneInode, HoldersOpen, OpenFds, KernelExcludes, TryWouldBlock, Goto

\* Release, Fail and Crash close the file and leave the lock file's name alone.
LEMMA CloseIInv ==
  ASSUME IInv, NEW p \in Procs, Close(p), UNCHANGED <<lockFile, left>>
  PROVE  IInv'
<1> USE DEF IInv, TypeOK, OneInode, HoldersOpen, OpenFds, KernelExcludes, Close, Goto
<1>1. TypeOK' /\ OneInode' /\ HoldersOpen' /\ OpenFds'
  OBVIOUS
<1>2. KernelExcludes'
  OBVIOUS
<1> QED BY <1>1, <1>2

LEMMA NextIInv == IInv /\ [Next]_vars => IInv'
<1> SUFFICES ASSUME IInv, [Next]_vars PROVE IInv'
  OBVIOUS
<1>1. CASE UNCHANGED vars
  BY <1>1 DEF vars, IInv, TypeOK, OneInode, HoldersOpen, OpenFds, KernelExcludes
<1>2. ASSUME NEW p \in Procs, Start(p) PROVE IInv'
  BY <1>2, StartIInv
<1>3. ASSUME NEW p \in Procs, Open(p) PROVE IInv'
  BY <1>3, OpenIInv
<1>4. ASSUME NEW p \in Procs, TryGranted(p) \/ BlockedGranted(p) PROVE IInv'
  BY <1>4, GrantIInv DEF TryGranted, BlockedGranted
<1>5. ASSUME NEW p \in Procs, TryWouldBlock(p) PROVE IInv'
  BY <1>5, WaitIInv
<1>6. ASSUME NEW p \in Procs, Release(p) \/ Fail(p) \/ Crash(p) PROVE IInv'
  BY <1>6, CloseIInv DEF Release, Fail, Crash
<1> QED
  BY <1>1, <1>2, <1>3, <1>4, <1>5, <1>6 DEF Next, Step, AllIdle

\* The state of the lock stays well formed: one lock file for everybody, and a
\* flock is held exactly by the processes that go on as holders
\* (ProjectLock::acquire and Drop).
THEOREM InductiveInvariant == Spec => []IInv
BY InitIInv, NextIInv, PTL DEF Spec

LEMMA HoldersExclude == IInv => MutualExclusion
BY NoFileAssumption
DEF IInv, TypeOK, OneInode, HoldersOpen, OpenFds, KernelExcludes, MutualExclusion

\* No two commands are ever both between acquire and the drop, however many
\* there are and whichever fail or are killed.
THEOREM HolderIsAlone == Spec => []MutualExclusion
BY InductiveInvariant, HoldersExclude, PTL

(***************************************************************************)
(* Refinement.                                                             *)
(***************************************************************************)
LEMMA OwnerIsHolder ==
  ASSUME IInv, NEW p \in Procs
  PROVE  /\ locked = {} <=> Owner = Free
         /\ p \in locked <=> Owner = p
<1>1. \A q, r \in locked : q = r
  BY HoldersExclude DEF IInv, HoldersOpen, MutualExclusion
<1>2. locked \subseteq Procs
  BY DEF IInv, TypeOK
<1>3. CASE locked = {}
  BY <1>3, FreeAssumption DEF Owner
<1>4. CASE locked # {}
  <2>1. Owner \in locked
    BY <1>2, <1>4 DEF Owner
  <2> QED BY <1>1, <1>2, <1>4, <2>1, FreeAssumption
<1> QED BY <1>3, <1>4

LEMMA SameHolders == locked' = locked => UNCHANGED Owner
<1> DEFINE OwnerOf(S) == IF S = {} THEN Free ELSE CHOOSE p \in Procs : p \in S
<1>1. Owner = OwnerOf(locked) /\ Owner' = OwnerOf(locked')
  BY DEF Owner
<1> HIDE DEF OwnerOf
<1> QED BY <1>1

LEMMA GrantEnters ==
  ASSUME IInv, IInv', NEW p \in Procs, pc[p] \in {"try", "blocked"}, Grant(p)
  PROVE  Abstract!Enter(p)
<1>1. locked = {}
  BY NoFileAssumption
  DEF IInv, TypeOK, OneInode, HoldersOpen, OpenFds, Grant, Available
<1>2. Owner = Free
  BY <1>1 DEF Owner
<1>3. p \in locked'
  BY DEF Grant
<1>4. locked' # {} /\ \A q, r \in locked' : q = r
  BY <1>1, <1>3 DEF Grant
<1>5. Owner' = p
  BY <1>3, <1>4 DEF Owner
<1> QED BY <1>2, <1>5 DEF Abstract!Enter

LEMMA CloseLeaves ==
  ASSUME IInv, NEW p \in Procs, Close(p)
  PROVE  Abstract!Leave(p) \/ UNCHANGED Owner
<1>1. CASE p \in locked
  <2>1. Owner = p
    BY <1>1, OwnerIsHolder
  <2>2. \A q \in locked : q = p
    BY <1>1, HoldersExclude DEF IInv, HoldersOpen, MutualExclusion
  <2>3. locked' = {}
    BY <2>2 DEF Close
  <2> QED BY <2>1, <2>3 DEF Abstract!Leave, Owner
<1>2. CASE p \notin locked
  <2>1. locked' = locked
    BY <1>2 DEF Close
  <2> QED BY <2>1, SameHolders
<1> QED BY <1>1, <1>2

LEMMA StepRefines == IInv /\ IInv' /\ [Next]_vars => [Abstract!Next]_Owner
<1> SUFFICES ASSUME IInv, IInv', [Next]_vars PROVE [Abstract!Next]_Owner
  OBVIOUS
<1>1. CASE UNCHANGED vars
  BY <1>1, SameHolders DEF vars
<1>2. ASSUME NEW p \in Procs, Start(p) \/ Open(p) \/ TryWouldBlock(p)
      PROVE  UNCHANGED Owner
  BY <1>2, SameHolders DEF Start, Open, TryWouldBlock
<1>3. ASSUME NEW p \in Procs, TryGranted(p) \/ BlockedGranted(p)
      PROVE  Abstract!Next
  BY <1>3, GrantEnters DEF TryGranted, BlockedGranted, Abstract!Next
<1>4. ASSUME NEW p \in Procs, Release(p) \/ Fail(p) \/ Crash(p)
      PROVE  Abstract!Next \/ UNCHANGED Owner
  BY <1>4, CloseLeaves DEF Release, Fail, Crash, Abstract!Next
<1> QED
  BY <1>1, <1>2, <1>3, <1>4 DEF Next, Step, AllIdle

\* What the commands do to the lock file and its descriptors is, to them, a
\* lock with one owner: entered when free, left by the owner, by a drop or by
\* its death.
THEOREM LockIsMutex == Spec => ImplementsMutex
<1>1. Init => Abstract!Init
  BY DEF Init, Abstract!Init, Owner
<1> QED
  BY <1>1, StepRefines, InductiveInvariant, PTL
  DEF Spec, ImplementsMutex, Abstract!Spec
=============================================================================
