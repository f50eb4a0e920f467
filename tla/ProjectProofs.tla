--------------------------- MODULE ProjectProofs ----------------------------
(***************************************************************************)
(* Project for every number of commands, every disk, every evidence and    *)
(* every edit: first that the reads, decisions and writes of a command     *)
(* under the lock are one step as far as the manifest is concerned, then   *)
(* the types (a command goes through many steps between its reads and its  *)
(* write; TInv says what it knows at each label), then what follows of the *)
(* manifest: consistency, the refinement of Registry, and that a success   *)
(* reported is recorded.                                                   *)
(***************************************************************************)
EXTENDS Project, ManifestProofs, TLAPS

\* The steps of a command that has not read the manifest it will change.
BeforeLoad == {"start", "resolve", "hash", "read", "stem", "stemhash",
               "check", "lock", "load"}

\* Each process has its state, and keeps no manifest from before the lock.
Shape ==
    /\ DOMAIN pc = Procs /\ DOMAIN my = Procs
    /\ \A p \in Procs : /\ "m" \in DOMAIN my[p]
                        /\ pc[p] \in BeforeLoad => my[p].m = NoProject

HoldsFromLoad == \A p \in Procs : pc[p] \in UnderLock \cup {"load"} => lock = p

IInv == Shape /\ HoldsFromLoad /\ SnapshotIsCurrent

LEMMA InitIInv == Init => IInv
BY DEF Init, IInv, Shape, HoldsFromLoad, SnapshotIsCurrent, Blank, BeforeLoad, UnderLock

(***************************************************************************)
(* The building blocks.                                                    *)
(***************************************************************************)
\* A step to a label the command may be at with what it then knows.
LEMMA ContinueIInv ==
  ASSUME IInv, NEW p \in Procs, NEW label, NEW mine, Continue(p, label, mine),
         "m" \in DOMAIN mine,
         label \in BeforeLoad => mine.m = NoProject,
         label \in UnderLock \cup {"load"} => lock = p,
         label \in UnderLock => mine.m = manifest
  PROVE  IInv'
<1> USE DEF Continue, IInv, Shape, HoldsFromLoad, SnapshotIsCurrent, shared, disk
<1>1. pc'[p] = label /\ my'[p] = mine /\ DOMAIN pc' = Procs /\ DOMAIN my' = Procs
  OBVIOUS
<1>2. \A q \in Procs \ {p} : pc'[q] = pc[q] /\ my'[q] = my[q]
  OBVIOUS
<1>3. manifest' = manifest /\ lock' = lock
  OBVIOUS
<1> QED BY <1>1, <1>2, <1>3

\* A command that has its answer.
LEMMA EndIInv ==
  ASSUME IInv, NEW p \in Procs, NEW kind, NEW id, End(p, kind, id) PROVE IInv'
<1>1. Continue(p, "return", Answer(p, kind, id))
  BY DEF End
<1>2. "m" \in DOMAIN Answer(p, kind, id)
  BY DEF Answer, IInv, Shape
<1>3. "return" \notin BeforeLoad /\ "return" \notin UnderLock \cup {"load"}
  BY DEF BeforeLoad, UnderLock
<1> QED BY <1>1, <1>2, <1>3, ContinueIInv

LEMMA RefuseIInv ==
  ASSUME IInv, NEW p \in Procs, NEW why, Refuse(p, why) PROVE IInv'
BY EndIInv DEF Refuse

\* A step before the lock that keeps whatever manifest the command has: none.
LEMMA StayIInv ==
  ASSUME IInv, NEW p \in Procs, pc[p] \in BeforeLoad \ {"load"},
         NEW label \in BeforeLoad \ {"load"}, NEW mine, Continue(p, label, mine),
         "m" \in DOMAIN mine, mine.m = my[p].m
  PROVE  IInv'
<1>1. mine.m = NoProject
  BY DEF IInv, Shape
<1>2. label \notin UnderLock \cup {"load"}
  BY DEF BeforeLoad, UnderLock
<1> QED BY <1>1, <1>2, ContinueIInv

\* A step under the lock that keeps the manifest the command has read.
LEMMA DecideIInv ==
  ASSUME IInv, NEW p \in Procs, pc[p] \in UnderLock,
         NEW label \in UnderLock, NEW mine, Continue(p, label, mine),
         "m" \in DOMAIN mine, mine.m = my[p].m
  PROVE  IInv'
<1>1. lock = p /\ mine.m = manifest
  BY DEF IInv, SnapshotIsCurrent
<1>2. label \notin BeforeLoad
  BY DEF BeforeLoad, UnderLock
<1> QED BY <1>1, <1>2, ContinueIInv

\* The one write: the others are not under the lock, so none of them holds a
\* manifest that the write makes stale.
LEMMA CommitIInv ==
  ASSUME IInv, NEW p \in Procs, pc[p] \in UnderLock,
         NEW new, NEW kind, NEW id, Commit(p, new, kind, id)
  PROVE  IInv'
<1>1. CASE Refuse(p, "Io")
  BY <1>1, RefuseIInv
<1>2. CASE /\ pc' = [pc EXCEPT ![p] = "return"]
           /\ my' = [my EXCEPT ![p] = Answer(p, kind, id)]
           /\ UNCHANGED <<lock, now, cmd, seen, disk>>
  <2>1. lock = p /\ \A q \in Procs \ {p} : pc[q] \notin UnderLock
    BY DEF IInv, SnapshotIsCurrent
  <2>2. pc'[p] \notin BeforeLoad /\ pc'[p] \notin UnderLock \cup {"load"}
    BY <1>2 DEF IInv, Shape, BeforeLoad, UnderLock
  <2>3. \A q \in Procs \ {p} : pc'[q] = pc[q] /\ my'[q] = my[q]
    BY <1>2 DEF IInv, Shape
  <2>4. DOMAIN pc' = Procs /\ DOMAIN my' = Procs /\ "m" \in DOMAIN my'[p]
    BY <1>2 DEF IInv, Shape, Answer
  <2> QED BY <1>2, <2>1, <2>2, <2>3, <2>4 DEF IInv, Shape, HoldsFromLoad, SnapshotIsCurrent
<1> QED BY <1>1, <1>2 DEF Commit

\* A command that ends, or whose process does, drops the lock if it has it.
LEMMA LeaveIInv ==
  ASSUME IInv, NEW p \in Procs, NEW label \in Ended,
         pc' = [pc EXCEPT ![p] = label],
         IF lock = p THEN L!Leave(p) ELSE UNCHANGED lock,
         UNCHANGED <<manifest, my>>
  PROVE  IInv'
<1>1. pc'[p] \notin BeforeLoad /\ pc'[p] \notin UnderLock \cup {"load"}
  BY DEF IInv, Shape, BeforeLoad, UnderLock, Ended
<1>2. \A q \in Procs \ {p} : pc'[q] = pc[q]
  BY DEF IInv, Shape
<1>3. \A q \in Procs \ {p} : lock = q => lock' = q
  BY DEF L!Leave
<1> QED BY <1>1, <1>2, <1>3 DEF IInv, Shape, HoldsFromLoad, SnapshotIsCurrent

(***************************************************************************)
(* The steps of the commands.                                              *)
(***************************************************************************)
LEMMA LockIInv ==
  ASSUME IInv, NEW p \in Procs, Acquire(p) \/ AcquireFails(p) PROVE IInv'
<1>1. CASE AcquireFails(p)
  BY <1>1, RefuseIInv DEF AcquireFails
<1>2. CASE Acquire(p)
  <2>1. lock = Free /\ lock' = p /\ pc'[p] = "load" /\ my' = my /\ manifest' = manifest
    BY <1>2 DEF Acquire, L!Enter, IInv, Shape
  <2>2. \A q \in Procs : pc[q] \notin UnderLock \cup {"load"}
    BY <2>1, FreeAssumption DEF IInv, HoldsFromLoad
  <2>3. \A q \in Procs \ {p} : pc'[q] = pc[q]
    BY <1>2 DEF Acquire, IInv, Shape
  <2>4. DOMAIN pc' = Procs /\ pc[p] \in BeforeLoad /\ pc'[p] \notin UnderLock
    BY <1>2, <2>1 DEF Acquire, IInv, Shape, BeforeLoad, UnderLock
  <2> QED BY <2>1, <2>2, <2>3, <2>4 DEF IInv, Shape, HoldsFromLoad, SnapshotIsCurrent
<1> QED BY <1>1, <1>2

LEMMA LoadIInv == ASSUME IInv, NEW p \in Procs, Load(p) PROVE IInv'
<1> DEFINE next == IF cmd[p].do = "import" THEN "decide" ELSE "write"
           mine == [my[p] EXCEPT !.m = manifest]
<1>1. CASE manifest = NoProject
  BY <1>1, RefuseIInv DEF Load
<1>2. CASE manifest # NoProject
  <2>1. Continue(p, next, mine)
    BY <1>2 DEF Load
  <2>2. "m" \in DOMAIN mine /\ mine.m = manifest
    BY DEF IInv, Shape
  <2>3. next \in UnderLock \ BeforeLoad
    BY DEF UnderLock, BeforeLoad
  <2>4. lock = p
    BY DEF Load, IInv, HoldsFromLoad
  <2> QED BY <2>1, <2>2, <2>3, <2>4, ContinueIInv
<1> QED BY <1>1, <1>2

LEMMA InitProjectIInv == ASSUME IInv, NEW p \in Procs, InitProject(p) PROVE IInv'
<1>1. "m" \in DOMAIN my[p]
  BY DEF IInv, Shape
<1>2. CASE InitStart(p)
  BY <1>1, <1>2, RefuseIInv, StayIInv DEF InitStart, Running, BeforeLoad
<1>3. CASE InitExists(p)
  <2>1. CASE manifest = NoProject
    <3>1. Continue(p, "write", my[p]) /\ pc[p] = "load"
      BY <1>3, <2>1 DEF InitExists, Running
    <3>2. lock = p /\ my[p].m = manifest
      BY <2>1, <3>1 DEF IInv, Shape, HoldsFromLoad, BeforeLoad
    <3>3. "write" \notin BeforeLoad
      BY DEF BeforeLoad
    <3> QED BY <1>1, <3>1, <3>2, <3>3, ContinueIInv
  <2>2. CASE manifest # NoProject
    BY <1>3, <2>2, RefuseIInv DEF InitExists
  <2> QED BY <2>1, <2>2
<1>4. CASE InitWrite(p)
  BY <1>4, CommitIInv DEF InitWrite, Running, UnderLock
<1> QED BY <1>2, <1>3, <1>4 DEF InitProject

LEMMA AddIInv == ASSUME IInv, NEW p \in Procs, Add(p) PROVE IInv'
<1>1. "m" \in DOMAIN my[p]
  BY DEF IInv, Shape
<1>2. CASE AddCheck(p)
  BY <1>1, <1>2, RefuseIInv, StayIInv DEF AddCheck, Running, BeforeLoad
<1>3. CASE AddResolve(p)
  <2> DEFINE mine == [my[p] EXCEPT !.path = links[cmd[p].name]]
  <2>1. "m" \in DOMAIN mine /\ mine.m = my[p].m
    BY <1>1
  <2>2. pc[p] = "resolve" /\ ((\E why : Refuse(p, why)) \/ Continue(p, "hash", mine))
    BY <1>3 DEF AddResolve, Running
  <2> HIDE DEF mine
  <2> QED BY <2>1, <2>2, RefuseIInv, StayIInv DEF BeforeLoad
<1>4. CASE AddHash(p)
  <2> DEFINE name == cmd[p].name
             mine == [my[p] EXCEPT !.hash = Sha256(On(name)), !.size = SizeOf[On(name)]]
  <2>1. "m" \in DOMAIN mine /\ mine.m = my[p].m
    BY <1>1
  <2>2. pc[p] = "hash" /\ ((\E why : Refuse(p, why)) \/ Continue(p, "lock", mine))
    BY <1>4 DEF AddHash, Running
  <2> HIDE DEF mine
  <2> QED BY <2>1, <2>2, RefuseIInv, StayIInv DEF BeforeLoad
<1>5. CASE AddWrite(p)
  <2>1. pc[p] = "write" /\ (\/ \E why : Refuse(p, why)
                            \/ \E new, kind, id : Commit(p, new, kind, id))
    BY <1>5 DEF AddWrite, Running
  <2> QED BY <2>1, RefuseIInv, CommitIInv DEF UnderLock
<1> QED BY <1>2, <1>3, <1>4, <1>5 DEF Add

\* show is never under the lock and keeps no manifest to write.
LEMMA ShowIInv == ASSUME IInv, NEW p \in Procs, Show(p) PROVE IInv'
<1> DEFINE mine == [my[p] EXCEPT !.snapshot = manifest]
<1>1. "m" \in DOMAIN mine
  BY DEF IInv, Shape
<1>2. "print" \notin BeforeLoad /\ "print" \notin UnderLock \cup {"load"}
  BY DEF BeforeLoad, UnderLock
<1>3. CASE ShowLoad(p)
  <2>1. Refuse(p, "NotAProject") \/ Continue(p, "print", mine)
    BY <1>3 DEF ShowLoad
  <2> HIDE DEF mine
  <2> QED BY <1>1, <1>2, <2>1, RefuseIInv, ContinueIInv
<1>4. CASE ShowPrint(p)
  BY <1>4, EndIInv, RefuseIInv DEF ShowPrint
<1> QED BY <1>3, <1>4 DEF Show

LEMMA ImportBeforeLockIInv ==
  ASSUME IInv, NEW p \in Procs, ImportBeforeLock(p) PROVE IInv'
<1> DEFINE Keeps(mine) == "m" \in DOMAIN mine /\ mine.m = my[p].m
           Stays == /\ pc[p] \in BeforeLoad \ {"load"}
                    /\ \/ \E why : Refuse(p, why)
                       \/ \E label \in BeforeLoad \ {"load"} : \E mine :
                             Keeps(mine) /\ Continue(p, label, mine)
<1>1. ASSUME Stays PROVE IInv'
  BY <1>1, RefuseIInv, StayIInv
<1>2. "m" \in DOMAIN my[p]
  BY DEF IInv, Shape
<1>3. CASE ImportCheck(p)
  BY <1>1, <1>2, <1>3 DEF ImportCheck, Running, BeforeLoad
<1>4. CASE ImportLocate(p)
  <2> DEFINE mine == [my[p] EXCEPT !.source = links[cmd[p].name]]
  <2>1. Keeps(mine)
    BY <1>2
  <2>2. pc[p] = "resolve" /\ ((\E why : Refuse(p, why)) \/ Continue(p, "read", mine))
    BY <1>4 DEF ImportLocate, Running
  <2> HIDE DEF mine
  <2> QED BY <1>1, <2>1, <2>2 DEF BeforeLoad
<1>5. CASE ImportRead(p)
  <2> DEFINE mine == [my[p] EXCEPT !.bytes = On(my[p].source)]
  <2>1. Keeps(mine)
    BY <1>2
  <2>2. CASE Refuse(p, "JobUnreadable") /\ pc[p] = "read"
    BY <1>1, <2>2 DEF BeforeLoad
  <2>3. CASE Dispatch(p, mine, Evidence[On(my[p].source)]) /\ pc[p] = "read"
    <3> DEFINE r == Evidence[On(my[p].source)]
    <3>1. \/ \E why : Refuse(p, why)
          \/ Continue(p, "stem", mine) \/ Continue(p, "lock", mine)
      <4>1. Dispatch(p, mine, r)
        BY <2>3
      <4> HIDE DEF mine, r
      <4> QED BY <4>1 DEF Dispatch
    <3> HIDE DEF mine
    <3> QED BY <1>1, <2>1, <2>3, <3>1 DEF BeforeLoad
  <2> QED BY <1>5, <2>2, <2>3 DEF ImportRead, Running
<1>6. CASE ImportResolveStem(p)
  <2> DEFINE mine == [my[p] EXCEPT !.path = links[Beside[my[p].source, NextStem(p)]]]
  <2>1. Keeps(mine)
    BY <1>2
  <2>2. pc[p] = "stem" /\ (\/ \E why : Refuse(p, why)
                           \/ Continue(p, "lock", my[p]) \/ Continue(p, "stemhash", mine))
    BY <1>6 DEF ImportResolveStem, Importing, Running
  <2> HIDE DEF mine
  <2> QED BY <1>1, <1>2, <2>1, <2>2 DEF BeforeLoad
<1>7. CASE ImportHashStem(p)
  <2> DEFINE path == my[p].path
             stem == [name |-> NextStem(p), path |-> path,
                      sha256 |-> Sha256(On(path)), size |-> SizeOf[On(path)]]
             mine == [my[p] EXCEPT !.stems = Append(@, stem)]
  <2>1. Keeps(mine)
    BY <1>2
  <2>2. pc[p] = "stemhash" /\ ((\E why : Refuse(p, why)) \/ Continue(p, "stem", mine))
    BY <1>7 DEF ImportHashStem, Importing, Running
  <2> HIDE DEF mine
  <2> QED BY <1>1, <2>1, <2>2 DEF BeforeLoad
<1> QED BY <1>3, <1>4, <1>5, <1>6, <1>7 DEF ImportBeforeLock

LEMMA ImportUnderLockIInv ==
  ASSUME IInv, NEW p \in Procs,
         \/ ImportDecide(p) \/ ImportInput(p) \/ ImportStem(p)
         \/ ImportWriteJob(p) \/ ImportEvaluation(p)
  PROVE  IInv'
<1> DEFINE Keeps(mine) == "m" \in DOMAIN mine /\ mine.m = my[p].m
           Decides == /\ pc[p] \in UnderLock
                      /\ \/ \E kind, id : End(p, kind, id) \/ Refuse(p, kind)
                         \/ \E new, kind, id : Commit(p, new, kind, id)
                         \/ \E label \in UnderLock : \E mine :
                               Keeps(mine) /\ Continue(p, label, mine)
<1>1. ASSUME Decides PROVE IInv'
  BY <1>1, EndIInv, RefuseIInv, CommitIInv, DecideIInv
<1>2. "m" \in DOMAIN my[p]
  BY DEF IInv, Shape
<1>3. CASE ImportDecide(p)
  <2> DEFINE known == [my[p] EXCEPT !.input = my[p].m.assets[Min(InputByHash(p))].id]
             found == [my[p] EXCEPT !.path = links[Record(p).input]]
  <2>1. Keeps(known) /\ Keeps(found)
    BY <1>2
  <2>2. pc[p] = "decide" /\ (\/ \E kind, id : End(p, kind, id) \/ Refuse(p, kind)
                             \/ Continue(p, "register", known)
                             \/ Continue(p, "inputhash", found))
    <3>1. pc[p] = "decide"
      BY <1>3 DEF ImportDecide, Importing, Running
    <3>2. CASE JobsDone(p) # {}
      BY <1>3, <3>1, <3>2 DEF ImportDecide
    <3>3. CASE JobsDone(p) = {} /\ InputByHash(p) # {}
      BY <1>3, <3>1, <3>3 DEF ImportDecide
    <3>4. CASE JobsDone(p) = {} /\ InputByHash(p) = {}
      <4> DEFINE input == Record(p).input
      <4>1. CASE input \in Absolute
        BY <1>3, <3>1, <3>4, <4>1 DEF ImportDecide
      <4>2. CASE input \notin Absolute /\ On(input) = Absent
        BY <1>3, <3>1, <3>4, <4>2 DEF ImportDecide
      <4>3. CASE input \notin Absolute /\ On(input) # Absent
        BY <1>3, <3>1, <3>4, <4>3 DEF ImportDecide
      <4> QED BY <4>1, <4>2, <4>3
    <3> QED BY <3>2, <3>3, <3>4
  <2> HIDE DEF known, found
  <2> QED BY <1>1, <2>1, <2>2 DEF UnderLock
<1>4. CASE ImportInput(p)
  <2> DEFINE path  == my[p].path
             bytes == On(path)
             asset == NewAsset(Mint(BaseOf[path], Taken(p)), path, Sha256(bytes), SizeOf[bytes])
             mine  == [my[p] EXCEPT !.input = asset.id, !.fresh = <<asset>>]
  <2>1. Keeps(mine)
    BY <1>2
  <2>2. pc[p] = "inputhash" /\ ((\E kind : Refuse(p, kind)) \/ Continue(p, "register", mine))
    BY <1>4 DEF ImportInput, Importing, Running
  <2> HIDE DEF mine
  <2> QED BY <1>1, <2>1, <2>2 DEF UnderLock
<1>5. CASE ImportStem(p)
  <2> DEFINE stem  == my[p].stems[Len(my[p].outputs) + 1]
             same  == {i \in DOMAIN Known(p) : Known(p)[i].path = stem.path}
             asset == NewAsset(Mint(BaseOf[stem.name], Taken(p)), stem.path, stem.sha256, stem.size)
             fresh == [my[p] EXCEPT !.fresh = Append(@, asset), !.outputs = Append(@, asset.id)]
             known == [my[p] EXCEPT !.outputs = Append(@, Known(p)[Min(same)].id)]
  <2>1. Keeps(fresh) /\ Keeps(known)
    BY <1>2
  <2>2. pc[p] = "register" /\ (\/ \E kind : Refuse(p, kind)
                               \/ Continue(p, "register", fresh)
                               \/ Continue(p, "register", known))
    BY <1>5 DEF ImportStem, Importing, Running
  <2> HIDE DEF fresh, known
  <2> QED BY <1>1, <2>1, <2>2 DEF UnderLock
<1>6. CASE ImportWriteJob(p)
  <2>1. pc[p] = "register" /\ \E new, kind, id : Commit(p, new, kind, id)
    BY <1>6 DEF ImportWriteJob, Importing, Running
  <2> QED BY <1>1, <2>1 DEF UnderLock
<1>7. CASE ImportEvaluation(p)
  <2>1. pc[p] = "decide" /\ (\/ \E kind, id : End(p, kind, id) \/ Refuse(p, kind)
                             \/ \E new, kind, id : Commit(p, new, kind, id))
    BY <1>7 DEF ImportEvaluation, Importing, Running
  <2> QED BY <1>1, <2>1 DEF UnderLock
<1> QED BY <1>3, <1>4, <1>5, <1>6, <1>7

LEMMA VerifyIInv == ASSUME IInv, NEW p \in Procs, Verify(p) PROVE IInv'
<1> DEFINE Keeps(mine) == "m" \in DOMAIN mine /\ mine.m = my[p].m
           Stays == /\ pc[p] \in BeforeLoad \ {"load"}
                    /\ \/ \E kind, id : End(p, kind, id) \/ Refuse(p, kind)
                       \/ \E label \in BeforeLoad \ {"load"} : \E mine :
                             Keeps(mine) /\ Continue(p, label, mine)
<1>1. ASSUME Stays PROVE IInv'
  BY <1>1, EndIInv, RefuseIInv, StayIInv
<1>2. Keeps(my[p]) /\ \A integrity : Keeps(Status(p, integrity))
  BY DEF IInv, Shape, Status
<1>3. CASE VerifyLoad(p)
  <2> DEFINE mine == [my[p] EXCEPT !.snapshot = manifest]
  <2>1. Keeps(mine)
    BY <1>2
  <2>2. pc[p] = "start" /\ ((\E kind : Refuse(p, kind)) \/ Continue(p, "check", mine))
    BY <1>3 DEF VerifyLoad, Running
  <2> HIDE DEF mine
  <2> QED BY <1>1, <2>1, <2>2 DEF BeforeLoad
<1>4. CASE VerifyStat(p)
  <2>1. pc[p] = "check" /\ (\/ \E kind : Refuse(p, kind)
                            \/ \E integrity : Continue(p, "check", Status(p, integrity))
                            \/ Continue(p, "hash", my[p]))
    BY <1>4 DEF VerifyStat, Running
  <2> QED BY <1>1, <1>2, <2>1 DEF BeforeLoad
<1>5. CASE VerifyHash(p)
  <2>1. pc[p] = "hash" /\ (\/ \E kind : Refuse(p, kind)
                           \/ \E integrity : Continue(p, "check", Status(p, integrity)))
    BY <1>5 DEF VerifyHash, Running
  <2> QED BY <1>1, <1>2, <2>1 DEF BeforeLoad
<1>6. CASE VerifyRecord(p)
  <2> DEFINE Found(integrity) == [my[p] EXCEPT !.records = Append(@, integrity)]
  <2>1. \A integrity : Keeps(Found(integrity))
    BY <1>2
  <2>2. pc[p] = "check" /\ (\/ \E kind : Refuse(p, kind)
                            \/ \E integrity : Continue(p, "check", Found(integrity)))
    BY <1>6 DEF VerifyRecord, Running
  <2> HIDE DEF Found
  <2> QED BY <1>1, <2>1, <2>2 DEF BeforeLoad
<1>7. CASE VerifyReport(p)
  <2>1. pc[p] = "check" /\ ((\E kind, id : End(p, kind, id)) \/ Continue(p, "lock", my[p]))
    BY <1>7 DEF VerifyReport, Running
  <2> QED BY <1>1, <1>2, <2>1 DEF BeforeLoad
<1>8. CASE VerifyStamp(p)
  <2>1. pc[p] = "write" /\ (\/ \E kind, id : End(p, kind, id)
                            \/ \E new, kind, id : Commit(p, new, kind, id))
    BY <1>8 DEF VerifyStamp, Running
  <2> QED BY <2>1, EndIInv, CommitIInv DEF UnderLock
<1>9. CASE VerifyClock(p)
  <2> DEFINE mine == [my[p] EXCEPT !.time = now]
  <2>1. Keeps(mine)
    BY <1>2
  <2>2. pc[p] = "write" /\ Continue(p, "write", mine)
    BY <1>9 DEF VerifyClock, Running
  <2> HIDE DEF mine
  <2> QED BY <2>1, <2>2, DecideIInv DEF UnderLock
<1> QED BY <1>3, <1>4, <1>5, <1>6, <1>7, <1>8, <1>9 DEF Verify

LEMMA WorldIInv == ASSUME IInv, Edit \/ Relink \/ Tick PROVE IInv'
BY DEF Edit, Relink, Tick, IInv, Shape, HoldsFromLoad, SnapshotIsCurrent

(***************************************************************************)
(* The theorems.                                                           *)
(***************************************************************************)
LEMMA NextIInv == IInv /\ [Next]_vars => IInv'
<1> SUFFICES ASSUME IInv, [Next]_vars PROVE IInv'
  OBVIOUS
<1>1. CASE UNCHANGED vars
  BY <1>1 DEF vars, IInv, Shape, HoldsFromLoad, SnapshotIsCurrent
<1>2. ASSUME NEW p \in Procs, Return(p) PROVE IInv'
  BY <1>2, LeaveIInv DEF Return, Ended
<1>3. ASSUME NEW p \in Procs, Crash(p) PROVE IInv'
  BY <1>3, LeaveIInv DEF Crash, Ended
<1>4. ASSUME NEW p \in Procs, Import(p) PROVE IInv'
  BY <1>4, ImportBeforeLockIInv, ImportUnderLockIInv DEF Import
<1>5. ASSUME NEW p \in Procs, Command(p) PROVE IInv'
  BY <1>2, <1>4, <1>5, LockIInv, LoadIInv, InitProjectIInv, AddIInv, VerifyIInv, ShowIInv
  DEF Command
<1>6. CASE Quiet
  BY <1>1, <1>6 DEF Quiet
<1> QED BY <1>1, <1>3, <1>5, <1>6, LockIInv, WorldIInv DEF Next

THEOREM InductiveInvariant == Spec => []IInv
BY InitIInv, NextIInv, PTL DEF Spec

(***************************************************************************)
(* For any commands, any disk and any edits, the manifest a command has    *)
(* read under the lock is still the one in place when it writes.           *)
(***************************************************************************)
THEOREM SnapshotAlwaysCurrent == Spec => []SnapshotIsCurrent
<1>1. IInv => SnapshotIsCurrent
  BY DEF IInv
<1> QED BY <1>1, InductiveInvariant, PTL

(***************************************************************************)
(* Who writes: the command that holds the lock, over what it has read.     *)
(***************************************************************************)
ReplacesWhatItRead ==
    manifest' # manifest =>
        \E p \in Procs : pc[p] \in UnderLock /\ lock = p /\ my[p].m = manifest

\* The five steps that write.
Writes(p) == \/ InitWrite(p) \/ AddWrite(p) \/ ImportWriteJob(p) \/ ImportEvaluation(p)
             \/ VerifyStamp(p)

\* No other step of a command changes the manifest.
LEMMA OnlyWrites ==
  ASSUME NEW p \in Procs, Command(p), manifest' # manifest PROVE Writes(p)
<1>1. /\ \A label, mine : ~Continue(p, label, mine)
      /\ \A kind, id : ~End(p, kind, id) /\ ~Refuse(p, kind)
  BY DEF Continue, End, Refuse, shared
<1>2. ~(Acquire(p) \/ Load(p) \/ Return(p) \/ Show(p))
  BY <1>1 DEF Acquire, Load, Return, Show, ShowLoad, ShowPrint
<1>3. CASE InitProject(p)
  BY <1>1, <1>3 DEF InitProject, InitStart, InitExists, Writes
<1>4. CASE Add(p)
  BY <1>1, <1>4 DEF Add, AddCheck, AddResolve, AddHash, Writes
<1>5. CASE Import(p)
  <2>1. ~(ImportCheck(p) \/ ImportLocate(p) \/ ImportRead(p))
    BY <1>1 DEF ImportCheck, ImportLocate, ImportRead, Dispatch
  <2>2. ~(ImportResolveStem(p) \/ ImportHashStem(p))
    BY <1>1 DEF ImportResolveStem, ImportHashStem
  <2>3. ~ImportDecide(p)
    <3> DEFINE input == Record(p).input
    <3>1. CASE input \in Absolute
      BY <1>1, <3>1 DEF ImportDecide
    <3>2. CASE input \notin Absolute /\ On(input) = Absent
      BY <1>1, <3>2 DEF ImportDecide
    <3>3. CASE input \notin Absolute /\ On(input) # Absent
      BY <1>1, <3>3 DEF ImportDecide
    <3> QED BY <3>1, <3>2, <3>3
  <2>4. ~(ImportInput(p) \/ ImportStem(p))
    BY <1>1 DEF ImportInput, ImportStem
  <2> QED BY <1>5, <2>1, <2>2, <2>3, <2>4 DEF Import, ImportBeforeLock, Writes
<1>6. CASE Verify(p)
  <2>1. ~(VerifyLoad(p) \/ VerifyStat(p) \/ VerifyHash(p))
    BY <1>1 DEF VerifyLoad, VerifyStat, VerifyHash
  <2>2. ~(VerifyRecord(p) \/ VerifyReport(p) \/ VerifyClock(p))
    BY <1>1 DEF VerifyRecord, VerifyReport, VerifyClock
  <2> QED BY <1>6, <2>1, <2>2 DEF Verify, Writes
<1> QED BY <1>2, <1>3, <1>4, <1>5, <1>6 DEF Command

\* A step that changes the manifest is one of them.
LEMMA WriteSteps ==
  ASSUME Next, manifest' # manifest PROVE \E p \in Procs : Writes(p)
<1>1. \A p \in Procs : ~AcquireFails(p) /\ ~Crash(p)
  BY DEF AcquireFails, Crash, Refuse, End, Continue, shared
<1>2. ~(Edit \/ Relink \/ Tick \/ Quiet)
  BY DEF Edit, Relink, Tick, Quiet, vars
<1> QED BY <1>1, <1>2, OnlyWrites DEF Next

LEMMA WritesUnderLock == ASSUME NEW p \in Procs, Writes(p) PROVE pc[p] \in UnderLock
BY DEF Writes, InitWrite, AddWrite, ImportWriteJob, ImportEvaluation, VerifyStamp, Importing,
       Running, UnderLock

\* Reading, deciding and writing are one step as far as the manifest goes: it
\* changes only under the hand of the command that holds the lock, and what
\* that command replaces is exactly what it has read.
THEOREM OneWriter == Spec => [][ReplacesWhatItRead]_vars
<1>1. IInv /\ [Next]_vars => [ReplacesWhatItRead]_vars
  <2> SUFFICES ASSUME IInv, Next, manifest' # manifest PROVE ReplacesWhatItRead
    BY DEF ReplacesWhatItRead, vars
  <2>1. PICK p \in Procs : Writes(p)
    BY WriteSteps
  <2>2. pc[p] \in UnderLock
    BY <2>1, WritesUnderLock
  <2> QED BY <2>2 DEF IInv, SnapshotIsCurrent, ReplacesWhatItRead
<1> QED BY <1>1, InductiveInvariant, PTL DEF Spec


(***************************************************************************)
(* What the locals of a command hold at each label.  Everything is said of *)
(* the command line c, the label at and the locals mine, so that a step of *)
(* another command disturbs nothing.                                       *)
(***************************************************************************)
AddKnows(at, mine) ==
    /\ at \in {"hash", "lock", "load", "write"} => mine.path \in Paths
    /\ at \in {"lock", "load", "write"} => mine.hash \in Hashes

HasRecord == {"stem", "stemhash", "lock", "load", "decide", "inputhash", "register"}

TakenIds(mine) == Ids(mine.m.assets) \cup Ids(mine.fresh)

\* No derivation of the manifest read is the record's.
JobIsNew(mine) ==
    \A i \in DOMAIN mine.m.derivations :
        LET job == mine.m.derivations[i].job
        IN  job # None => job.sha256 # Sha256(mine.bytes)

\* The assets an import is about to add, and those it links.
Registering(mine) ==
    /\ AppendsAssets(mine.m.assets, mine.m.assets \o mine.fresh)
    /\ mine.input \in TakenIds(mine) /\ Range(mine.outputs) \subseteq TakenIds(mine)
    /\ \A i \in DOMAIN mine.fresh : mine.fresh[i].last_verified = 0
    /\ JobIsNew(mine)

ImportKnows(at, mine) ==
    LET record == Evidence[mine.bytes]
    IN  /\ at \in HasRecord \cup {"read"} => mine.source \in Paths
        /\ at \in HasRecord => mine.bytes \in Contents /\ record.kind \in {"job", "compare"}
        /\ at \in {"stemhash", "inputhash"} => mine.path \in Paths
        /\ at \in {"start", "resolve", "read"} => mine.stems = <<>>
        /\ at = "stem" /\ record.kind = "job" => Len(mine.stems) <= Len(record.stems)
        /\ at = "stemhash" => record.kind = "job" /\ Len(mine.stems) < Len(record.stems)
        /\ at \in {"lock", "load", "decide"} /\ record.kind = "compare" =>
              /\ PreferenceKnown(record)
              /\ \A i \in DOMAIN record.candidates : record.candidates[i].asset # None
        /\ at \in {"start", "read", "resolve", "inputhash"} \cup (HasRecord \ {"register"}) =>
              mine.fresh = <<>> /\ mine.outputs = <<>>
        /\ at = "inputhash" => record.kind = "job" /\ JobIsNew(mine)
        /\ at = "register" => record.kind = "job" /\ Registering(mine)

VerifyKnows(at, mine) ==
    /\ at \in {"check", "hash", "lock", "load", "write"} => mine.snapshot \in Manifests
    /\ at = "start" => mine.statuses = <<>> /\ mine.records = <<>>
    /\ at \in {"check", "hash"} =>
          /\ Len(mine.statuses) <= Len(mine.snapshot.assets)
          /\ Len(mine.records) <= Len(mine.snapshot.evaluations)
    /\ at = "hash" => Len(mine.statuses) < Len(mine.snapshot.assets)
    /\ at \in {"lock", "load", "write"} =>
          /\ Len(mine.statuses) = Len(mine.snapshot.assets)
          /\ Len(mine.records) = Len(mine.snapshot.evaluations)
    /\ at \in {"start", "check", "hash", "lock", "load"} => mine.time = 0

Knows(c, at, mine) ==
    /\ c.do = "init" /\ at \in {"start", "lock", "load", "write"} => mine.m = NoProject
    /\ c.do = "add" => AddKnows(at, mine)
    /\ c.do = "import" => ImportKnows(at, mine)
    /\ c.do = "verify" => VerifyKnows(at, mine)
    /\ at \in UnderLock /\ c.do # "init" => mine.m \in Manifests

TInv == TypeOK /\ \A p \in Procs : Knows(cmd[p], pc[p], my[p])

\* A command with an answer, or none, has nothing more to know.
LEMMA NothingToKnow == ASSUME NEW c, NEW mine, NEW at \in {"return", "done", "crashed", "print"}
                       PROVE  Knows(c, at, mine)
BY DEF Knows, AddKnows, ImportKnows, VerifyKnows, HasRecord, UnderLock

(***************************************************************************)
(* Init.                                                                   *)
(***************************************************************************)
LEMMA FactsType ==
  ASSUME NEW f \in [Places -> Contents \cup {Absent}], NEW l \in [Names -> Places]
  PROVE  Facts(f, l) \subseteq Names \X (Contents \cup {Absent})
BY DEF Facts

LEMMA BlankType == Blank \in Locals
BY DEF Blank, Locals, Results

LEMMA InitTInv == Init => TInv
<1> SUFFICES ASSUME Init PROVE TInv
  OBVIOUS
<1>1. files \in [Places -> Contents \cup {Absent}] /\ links \in [Names -> Places]
  BY DiskAssumption DEF Init
<1>2. TypeOK
  BY <1>1, FactsType, BlankType, StartsAssumption, BoundsAssumption DEF Init, TypeOK, Labels
<1>3. \A c : Knows(c, "start", Blank)
  BY DEF Knows, AddKnows, ImportKnows, VerifyKnows, Blank, HasRecord, UnderLock
<1> QED BY <1>2, <1>3 DEF Init, TInv

(***************************************************************************)
(* The building blocks.                                                    *)
(***************************************************************************)
LEMMA ContinueTInv ==
  ASSUME TInv, NEW p \in Procs, NEW label \in Labels, NEW mine \in Locals,
         Continue(p, label, mine), Knows(cmd[p], label, mine)
  PROVE  TInv'
<1>1. TypeOK'
  BY DEF TInv, TypeOK, Continue, shared, disk
<1>2. ASSUME NEW q \in Procs PROVE Knows(cmd'[q], pc'[q], my'[q])
  BY DEF TInv, TypeOK, Continue, shared, disk
<1> QED BY <1>1, <1>2 DEF TInv

LEMMA MyType ==
  ASSUME TInv, NEW p \in Procs
  PROVE  my[p] \in Locals /\ pc[p] \in Labels /\ cmd[p] \in Invocations
         /\ Knows(cmd[p], pc[p], my[p])
BY DEF TInv, TypeOK

LEMMA AnswerType ==
  ASSUME TInv, NEW p \in Procs, NEW kind \in Refusals \cup Successes,
         NEW id \in Slugs \cup {None}
  PROVE  Answer(p, kind, id) \in Locals
<1>1. my[p] \in Locals
  BY MyType
<1>2. [kind |-> kind, id |-> id] \in Results
  BY DEF Results
<1> QED BY <1>1, <1>2 DEF Answer, Locals

LEMMA EndTInv ==
  ASSUME TInv, NEW p \in Procs, NEW kind \in Refusals \cup Successes,
         NEW id \in Slugs \cup {None}, End(p, kind, id)
  PROVE  TInv'
BY ContinueTInv, AnswerType, NothingToKnow DEF End, Labels

LEMMA RefuseTInv ==
  ASSUME TInv, NEW p \in Procs, NEW why \in Refusals, Refuse(p, why) PROVE TInv'
BY EndTInv DEF Refuse

LEMMA CommitTInv ==
  ASSUME TInv, NEW p \in Procs, NEW new \in Manifests, NEW kind \in Successes,
         NEW id \in Slugs \cup {None}, Commit(p, new, kind, id)
  PROVE  TInv'
<1>1. CASE Refuse(p, "Io")
  BY <1>1, RefuseTInv DEF Refusals
<1>2. CASE /\ manifest' = new
           /\ pc' = [pc EXCEPT ![p] = "return"]
           /\ my' = [my EXCEPT ![p] = Answer(p, kind, id)]
           /\ UNCHANGED <<lock, now, cmd, seen, disk>>
  <2>1. TypeOK'
    BY <1>2, AnswerType DEF TInv, TypeOK, disk, Labels
  <2>2. ASSUME NEW q \in Procs PROVE Knows(cmd'[q], pc'[q], my'[q])
    BY <1>2, NothingToKnow DEF TInv, TypeOK
  <2> QED BY <2>1, <2>2 DEF TInv
<1> QED BY <1>1, <1>2 DEF Commit

LEMMA LeaveTInv ==
  ASSUME TInv, NEW p \in Procs, Return(p) \/ Crash(p) PROVE TInv'
<1>1. TypeOK'
  BY DEF Return, Crash, L!Leave, TInv, TypeOK, disk, Labels
<1>2. ASSUME NEW q \in Procs PROVE Knows(cmd'[q], pc'[q], my'[q])
  BY NothingToKnow DEF Return, Crash, TInv, TypeOK
<1> QED BY <1>1, <1>2 DEF TInv

(***************************************************************************)
(* The disk: what a name leads to.                                         *)
(***************************************************************************)
LEMMA OnType ==
  ASSUME TInv, NEW name \in Names
  PROVE  /\ links[name] \in Places /\ On(name) \in Contents \cup {Absent}
         /\ On(name) # Absent =>
               On(name) \in Contents /\ Sha256(On(name)) \in Hashes /\ SizeOf[On(name)] \in Nat
         /\ Readable(name) => On(name) # Absent
BY SizeAssumption DEF TInv, TypeOK, On, Readable, Hashes

(***************************************************************************)
(* The lock, the load and init.                                            *)
(***************************************************************************)
LEMMA LockTInv ==
  ASSUME TInv, NEW p \in Procs, Acquire(p) \/ AcquireFails(p) PROVE TInv'
<1>1. CASE AcquireFails(p)
  BY <1>1, RefuseTInv DEF AcquireFails, Refusals
<1>2. CASE Acquire(p)
  <2>1. TypeOK'
    BY <1>2 DEF Acquire, L!Enter, TInv, TypeOK, disk, Labels
  <2>2. Knows(cmd[p], "load", my[p])
    BY <1>2, MyType DEF Acquire, Knows, AddKnows, ImportKnows, VerifyKnows, HasRecord, UnderLock
  <2>3. ASSUME NEW q \in Procs PROVE Knows(cmd'[q], pc'[q], my'[q])
    BY <1>2, <2>2, MyType DEF Acquire, TInv, TypeOK
  <2> QED BY <2>1, <2>3 DEF TInv
<1> QED BY <1>1, <1>2

LEMMA LoadTInv == ASSUME TInv, NEW p \in Procs, Load(p) PROVE TInv'
<1> DEFINE next == IF cmd[p].do = "import" THEN "decide" ELSE "write"
           mine == [my[p] EXCEPT !.m = manifest]
<1>1. CASE manifest = NoProject
  BY <1>1, RefuseTInv DEF Load, Refusals
<1>2. CASE manifest # NoProject
  <2>1. Continue(p, next, mine) /\ pc[p] = "load" /\ cmd[p].do # "init"
    BY <1>2 DEF Load
  <2>2. my[p] \in Locals /\ manifest \in Manifests /\ Knows(cmd[p], "load", my[p])
    BY <1>2, <2>1, MyType DEF TInv, TypeOK
  <2>3. mine \in Locals /\ mine.m = manifest
    BY <2>2 DEF Locals
  <2>4. /\ mine.path = my[p].path /\ mine.hash = my[p].hash /\ mine.source = my[p].source
        /\ mine.bytes = my[p].bytes /\ mine.stems = my[p].stems /\ mine.fresh = my[p].fresh
        /\ mine.outputs = my[p].outputs /\ mine.snapshot = my[p].snapshot
        /\ mine.statuses = my[p].statuses /\ mine.records = my[p].records
    OBVIOUS
  <2> HIDE DEF mine
  <2>5. Knows(cmd[p], next, mine)
    BY <2>1, <2>2, <2>3, <2>4 DEF Knows, AddKnows, ImportKnows, VerifyKnows, HasRecord, UnderLock
  <2> QED BY <2>1, <2>3, <2>5, ContinueTInv DEF Labels
<1> QED BY <1>1, <1>2

LEMMA InitProjectTInv == ASSUME TInv, NEW p \in Procs, InitProject(p) PROVE TInv'
<1>1. my[p] \in Locals /\ None \in Slugs \cup {None}
  BY MyType
<1>2. cmd[p].do = "init" /\ pc[p] \in {"start", "load"} => \A at : Knows(cmd[p], at, my[p])
  BY MyType DEF Knows
<1>3. CASE InitStart(p)
  BY <1>1, <1>2, <1>3, RefuseTInv, ContinueTInv DEF InitStart, Running, Refusals, Labels
<1>4. CASE InitExists(p)
  BY <1>1, <1>2, <1>4, RefuseTInv, ContinueTInv DEF InitExists, Running, Refusals, Labels
<1>5. CASE InitWrite(p)
  BY <1>1, <1>5, NewManifestConsistent, CommitTInv DEF InitWrite, Successes
<1> QED BY <1>3, <1>4, <1>5 DEF InitProject

LEMMA ShowTInv == ASSUME TInv, NEW p \in Procs, Show(p) PROVE TInv'
<1>1. CASE ShowLoad(p)
  <2> DEFINE mine == [my[p] EXCEPT !.snapshot = manifest]
  <2>1. my[p] \in Locals /\ manifest \in Manifests \cup {NoProject}
    BY MyType DEF TInv, TypeOK
  <2>2. mine \in Locals
    BY <2>1 DEF Locals
  <2>3. Refuse(p, "NotAProject") \/ Continue(p, "print", mine)
    BY <1>1 DEF ShowLoad
  <2> HIDE DEF mine
  <2> QED BY <2>2, <2>3, NothingToKnow, RefuseTInv, ContinueTInv DEF Refusals, Labels
<1>2. CASE ShowPrint(p)
  BY <1>2, EndTInv, RefuseTInv DEF ShowPrint, Successes, Refusals
<1> QED BY <1>1, <1>2 DEF Show

(***************************************************************************)
(* add.                                                                    *)
(***************************************************************************)
\* What add writes: one asset more, of an id and a path nobody has.
LEMMA AddRegisters ==
  ASSUME TInv, NEW p \in Procs, AddWrite(p)
  PROVE  \/ \E why \in Refusals : Refuse(p, why)
         \/ \E new \in Manifests, id \in Slugs : 
               /\ Commit(p, new, "Added", id) /\ Registers(my[p].m, new)
               /\ \E a \in Assets :
                     /\ new.assets = Append(my[p].m.assets, a)
                     /\ a = NewAsset(id, my[p].path, my[p].hash, my[p].size)
<1> DEFINE m == my[p].m
           assets == m.assets
           asset == NewAsset(AddId(p), my[p].path, my[p].hash, my[p].size)
           new == [m EXCEPT !.assets = Append(@, asset)]
<1>1. /\ my[p] \in Locals /\ m \in Manifests /\ my[p].path \in Paths /\ my[p].hash \in Hashes
      /\ cmd[p].do = "add" /\ cmd[p] \in Invocations
  BY MyType DEF AddWrite, Running, Knows, AddKnows, UnderLock
<1>2. assets \in Seq(Assets) /\ cmd[p].name \in Names
  BY <1>1, Parts, InvocationsAssumption
<1>3. SUFFICES ASSUME ~AddPathTaken(p), cmd[p].id = None \/ cmd[p].id \in Slugs \ Ids(assets),
                      Commit(p, new, "Added", asset.id)
               PROVE  /\ new \in Manifests /\ asset.id \in Slugs /\ Registers(m, new)
                      /\ asset \in Assets /\ new.assets = Append(assets, asset)
                      /\ asset = NewAsset(asset.id, my[p].path, my[p].hash, my[p].size)
  BY DEF AddWrite, Refusals
<1>4. AddId(p) \in Slugs \ Ids(assets)
  <2>1. BaseOf[cmd[p].name] \in Slugs
    BY <1>2, BaseAssumption
  <2> QED BY <1>2, <1>3, <2>1, IdsFinite, MintIsFresh DEF AddId
<1>5. asset \in Assets /\ asset.id = AddId(p) /\ asset.path = my[p].path
  BY <1>1, <1>4, PathsAssumption DEF NewAsset, Assets, Locals
<1> HIDE DEF asset
<1>6. Append(assets, asset) \in Seq(Assets)
  BY <1>2, <1>5, AppendType
<1>7. /\ new \in Manifests /\ new.assets = Append(assets, asset)
      /\ new.derivations = m.derivations /\ new.evaluations = m.evaluations
  BY <1>1, <1>6 DEF Manifests
<1>8. AppendsOne(assets, new.assets)
  BY <1>2, <1>5, <1>7, AppendsOneMore
<1>9. AppendsAssets(assets, new.assets)
  BY <1>2, <1>3, <1>4, <1>5, <1>7, AppendsNothing, AppendsAsset DEF AddPathTaken
<1>10. asset = NewAsset(asset.id, my[p].path, my[p].hash, my[p].size)
  BY <1>5 DEF asset
<1> QED BY <1>4, <1>5, <1>7, <1>8, <1>9, <1>10 DEF Registers

LEMMA AddTInv == ASSUME TInv, NEW p \in Procs, Add(p) PROVE TInv'
<1>1. my[p] \in Locals /\ Knows(cmd[p], pc[p], my[p])
  BY MyType
<1>2. cmd[p].do = "add" => cmd[p].name \in Names
  BY MyType, InvocationsAssumption
<1>3. CASE AddCheck(p)
  <2>1. cmd[p].do = "add" => Knows(cmd[p], "resolve", my[p])
    BY DEF Knows, AddKnows, UnderLock
  <2> QED BY <1>1, <1>3, <2>1, RefuseTInv, ContinueTInv DEF AddCheck, Running, Refusals, Labels
<1>4. CASE AddResolve(p)
  <2> DEFINE mine == [my[p] EXCEPT !.path = links[cmd[p].name]]
  <2>1. /\ cmd[p].do = "add"
        /\ \/ \E why \in Refusals : Refuse(p, why)
           \/ links[cmd[p].name] # Outside /\ Continue(p, "hash", mine)
    BY <1>4 DEF AddResolve, Running, Refusals
  <2>2. links[cmd[p].name] # Outside => links[cmd[p].name] \in Paths
    BY <1>2, <2>1, OnType DEF Places
  <2>3. links[cmd[p].name] \in Paths => mine \in Locals /\ mine.path \in Paths
    BY <1>1, PathsAssumption DEF Locals
  <2> HIDE DEF mine
  <2>4. mine.path \in Paths => Knows(cmd[p], "hash", mine)
    BY <2>1 DEF Knows, AddKnows, UnderLock
  <2> QED BY <2>1, <2>2, <2>3, <2>4, RefuseTInv, ContinueTInv DEF Labels
<1>5. CASE AddHash(p)
  <2> DEFINE name == cmd[p].name
             mine == [my[p] EXCEPT !.hash = Sha256(On(name)), !.size = SizeOf[On(name)]]
  <2>1. /\ cmd[p].do = "add" /\ pc[p] = "hash"
        /\ \/ \E why \in Refusals : Refuse(p, why)
           \/ Readable(name) /\ Continue(p, "lock", mine)
    BY <1>5 DEF AddHash, Running, Refusals
  <2>2. Readable(name) => Sha256(On(name)) \in Hashes /\ SizeOf[On(name)] \in Nat
    BY <1>2, <2>1, OnType
  <2>3. Readable(name) => mine \in Locals /\ mine.hash \in Hashes /\ mine.path = my[p].path
    BY <1>1, <2>2 DEF Locals
  <2> HIDE DEF mine
  <2>4. Readable(name) => Knows(cmd[p], "lock", mine)
    BY <1>1, <2>1, <2>3 DEF Knows, AddKnows, UnderLock
  <2> QED BY <2>1, <2>3, <2>4, RefuseTInv, ContinueTInv DEF Labels
<1>6. CASE AddWrite(p)
  BY <1>6, AddRegisters, RefuseTInv, CommitTInv DEF Successes
<1> QED BY <1>3, <1>4, <1>5, <1>6 DEF Add

(***************************************************************************)
(* import before the lock.                                                 *)
(***************************************************************************)
LEMMA RecordType ==
  ASSUME NEW c \in Contents
  PROVE  /\ Evidence[c].kind = "job" =>
               /\ Evidence[c].input \in Names /\ Evidence[c].input_sha256 \in Hashes
               /\ Evidence[c].stems \in Seq(StemNames)
         /\ Evidence[c].kind = "compare" =>
               /\ Evidence[c].candidates \in Seq([label : STRING, asset : Slugs \cup {None}])
               /\ Evidence[c].preference \in STRING \cup {None}
               /\ Len(Evidence[c].candidates) >= 2
BY EvidenceAssumption, CandidatesAssumption DEF JobRecords, CompareRecords

LEMMA StemType ==
  ASSUME TInv, NEW p \in Procs, my[p].bytes \in Contents, my[p].source \in Paths,
         Record(p).kind = "job", Len(my[p].stems) < Len(Record(p).stems)
  PROVE  NextStem(p) \in StemNames /\ Beside[my[p].source, NextStem(p)] \in Names
<1>1. Record(p).stems \in Seq(StemNames) /\ Len(my[p].stems) \in Nat
  BY RecordType, MyType DEF Record, Locals
<1>2. NextStem(p) \in StemNames
  BY <1>1 DEF NextStem
<1> QED BY <1>2, PathsAssumption, FoldersAssumption

LEMMA ImportBeforeLockTInv ==
  ASSUME TInv, NEW p \in Procs, ImportBeforeLock(p) PROVE TInv'
<1>1. my[p] \in Locals /\ Knows(cmd[p], pc[p], my[p])
  BY MyType
<1>2. cmd[p].do = "import" => cmd[p].name \in Names
  BY MyType, InvocationsAssumption
<1>3. CASE ImportCheck(p)
  <2>1. cmd[p].do = "import" /\ pc[p] = "start" => Knows(cmd[p], "resolve", my[p])
    BY <1>1 DEF Knows, ImportKnows, HasRecord, UnderLock
  <2> QED BY <1>1, <1>3, <2>1, RefuseTInv, ContinueTInv DEF ImportCheck, Running, Refusals, Labels
<1>4. CASE ImportLocate(p)
  <2> DEFINE place == links[cmd[p].name]
             mine == [my[p] EXCEPT !.source = place]
  <2>1. /\ cmd[p].do = "import" /\ pc[p] = "resolve"
        /\ \/ \E why \in Refusals : Refuse(p, why)
           \/ place # Outside /\ Continue(p, "read", mine)
    BY <1>4 DEF ImportLocate, Running, Refusals
  <2>2. place # Outside => place \in Paths
    BY <1>2, <2>1, OnType DEF Places
  <2>3. place \in Paths => /\ mine \in Locals /\ mine.source \in Paths
                          /\ mine.stems = my[p].stems /\ mine.fresh = my[p].fresh
                          /\ mine.outputs = my[p].outputs
    BY <1>1, PathsAssumption DEF Locals
  <2> HIDE DEF mine
  <2>4. place \in Paths => Knows(cmd[p], "read", mine)
    BY <1>1, <2>1, <2>3 DEF Knows, ImportKnows, HasRecord, UnderLock
  <2> QED BY <2>1, <2>2, <2>3, <2>4, RefuseTInv, ContinueTInv DEF Labels
<1>5. CASE ImportRead(p)
  <2> DEFINE bytes == On(my[p].source)
             mine == [my[p] EXCEPT !.bytes = bytes]
             r == Evidence[bytes]
  <2>1. /\ cmd[p].do = "import" /\ pc[p] = "read"
        /\ \/ Refuse(p, "JobUnreadable")
           \/ Readable(my[p].source) /\ Dispatch(p, mine, r)
    BY <1>5 DEF ImportRead, Running
  <2>2. my[p].source \in Paths /\ (Readable(my[p].source) => bytes \in Contents)
    BY <1>1, <2>1, OnType, PathsAssumption DEF Knows, ImportKnows
  <2>3. bytes \in Contents => /\ mine \in Locals /\ mine.bytes = bytes
                              /\ mine.source = my[p].source /\ mine.stems = my[p].stems
                              /\ mine.fresh = my[p].fresh /\ mine.outputs = my[p].outputs
    BY <1>1 DEF Locals
  <2>4. my[p].stems = <<>> /\ my[p].fresh = <<>> /\ my[p].outputs = <<>>
    BY <1>1, <2>1 DEF Knows, ImportKnows
  <2> HIDE DEF mine, bytes
  <2>5. Dispatch(p, mine, r) =>
          \/ \E why \in Refusals : Refuse(p, why)
          \/ r.kind = "job" /\ Continue(p, "stem", mine)
          \/ /\ r.kind = "compare" /\ PreferenceKnown(r) /\ Continue(p, "lock", mine)
             /\ \A i \in DOMAIN r.candidates : r.candidates[i].asset # None
    BY DEF Dispatch, Refusals
  <2>6. bytes \in Contents /\ r.kind = "job" => Knows(cmd[p], "stem", mine)
    <3>1. bytes \in Contents /\ r.kind = "job" => Len(r.stems) \in Nat
      BY RecordType
    <3> QED BY <2>1, <2>2, <2>3, <2>4, <3>1 DEF Knows, ImportKnows, HasRecord, UnderLock
  <2>7. /\ bytes \in Contents /\ r.kind = "compare" /\ PreferenceKnown(r)
        /\ \A i \in DOMAIN r.candidates : r.candidates[i].asset # None
        => Knows(cmd[p], "lock", mine)
    BY <2>1, <2>2, <2>3, <2>4 DEF Knows, ImportKnows, HasRecord, UnderLock
  <2> QED BY <2>1, <2>2, <2>3, <2>5, <2>6, <2>7, RefuseTInv, ContinueTInv DEF Labels, Refusals
<1>6. CASE ImportResolveStem(p)
  <2> DEFINE name == Beside[my[p].source, NextStem(p)]
             mine == [my[p] EXCEPT !.path = links[name]]
  <2>1. /\ cmd[p].do = "import" /\ pc[p] = "stem" /\ Record(p).kind = "job"
        /\ \/ StemsHashed(p) /\ Continue(p, "lock", my[p])
           \/ \E why \in Refusals : Refuse(p, why)
           \/ ~StemsHashed(p) /\ links[name] # Outside /\ Continue(p, "stemhash", mine)
    BY <1>6 DEF ImportResolveStem, Importing, Running, Refusals
  <2>2. my[p].source \in Paths /\ my[p].bytes \in Contents
        /\ Len(my[p].stems) <= Len(Record(p).stems)
    BY <1>1, <2>1 DEF Knows, ImportKnows, HasRecord, Record
  <2>3. Len(my[p].stems) \in Nat /\ Len(Record(p).stems) \in Nat
    <3>1. my[p].stems \in Seq(PreStems)
      BY <1>1 DEF Locals
    <3>2. Record(p).stems \in Seq(StemNames)
      BY <2>1, <2>2, RecordType DEF Record
    <3> QED BY <3>1, <3>2
  <2>4. ~StemsHashed(p) => Len(my[p].stems) < Len(Record(p).stems)
    BY <2>2, <2>3 DEF StemsHashed
  <2>5. ~StemsHashed(p) /\ links[name] # Outside => links[name] \in Paths
    BY <2>1, <2>2, <2>4, StemType, OnType DEF Places
  <2>6. links[name] \in Paths =>
           /\ mine \in Locals /\ mine.path \in Paths /\ mine.bytes = my[p].bytes
           /\ mine.source = my[p].source /\ mine.stems = my[p].stems
           /\ mine.fresh = my[p].fresh /\ mine.outputs = my[p].outputs
    BY <1>1, PathsAssumption DEF Locals
  <2> HIDE DEF mine
  <2>7. ~StemsHashed(p) /\ links[name] # Outside => Knows(cmd[p], "stemhash", mine)
    BY <1>1, <2>1, <2>2, <2>4, <2>5, <2>6 DEF Knows, ImportKnows, HasRecord, UnderLock, Record
  <2>8. Knows(cmd[p], "lock", my[p])
    BY <1>1, <2>1, <2>2 DEF Knows, ImportKnows, HasRecord, UnderLock, Record
  <2> QED BY <1>1, <2>1, <2>5, <2>6, <2>7, <2>8, RefuseTInv, ContinueTInv DEF Labels
<1>7. CASE ImportHashStem(p)
  <2> DEFINE path == my[p].path
             stem == [name |-> NextStem(p), path |-> path,
                      sha256 |-> Sha256(On(path)), size |-> SizeOf[On(path)]]
             mine == [my[p] EXCEPT !.stems = Append(@, stem)]
  <2>1. /\ cmd[p].do = "import" /\ pc[p] = "stemhash" /\ Record(p).kind = "job"
        /\ \/ \E why \in Refusals : Refuse(p, why)
           \/ Readable(path) /\ Continue(p, "stem", mine)
    BY <1>7 DEF ImportHashStem, Importing, Running, Refusals
  <2>2. my[p].source \in Paths /\ my[p].bytes \in Contents /\ path \in Paths
        /\ Len(my[p].stems) < Len(Record(p).stems)
    BY <1>1, <2>1 DEF Knows, ImportKnows, HasRecord, Record
  <2>3. Readable(path) => stem \in PreStems
    BY <2>1, <2>2, StemType, OnType, PathsAssumption, FoldersAssumption DEF PreStems
  <2>4. my[p].stems \in Seq(PreStems) /\ Len(Record(p).stems) \in Nat
    BY <1>1, <2>1, <2>2, RecordType DEF Locals, Record
  <2> HIDE DEF stem
  <2>5. Readable(path) => /\ Append(my[p].stems, stem) \in Seq(PreStems)
                          /\ Len(Append(my[p].stems, stem)) <= Len(Record(p).stems)
    BY <2>2, <2>3, <2>4, AppendType
  <2>6. Readable(path) =>
           /\ mine \in Locals /\ mine.stems = Append(my[p].stems, stem)
           /\ mine.bytes = my[p].bytes /\ mine.source = my[p].source
           /\ mine.fresh = my[p].fresh /\ mine.outputs = my[p].outputs
    BY <1>1, <2>5 DEF Locals
  <2> HIDE DEF mine
  <2>7. Readable(path) => Knows(cmd[p], "stem", mine)
    BY <1>1, <2>1, <2>2, <2>5, <2>6 DEF Knows, ImportKnows, HasRecord, UnderLock, Record
  <2> QED BY <2>1, <2>6, <2>7, RefuseTInv, ContinueTInv DEF Labels
<1> QED BY <1>3, <1>4, <1>5, <1>6, <1>7 DEF ImportBeforeLock

(***************************************************************************)
(* import under the lock: a job record.                                    *)
(***************************************************************************)
\* What holds at every step of it: nothing the record or the manifest says is
\* out of type.
LEMMA DecidingType ==
  ASSUME TInv, NEW p \in Procs, NEW label \in {"decide", "inputhash", "register"},
         Running(p, "import", label)
  PROVE  /\ my[p] \in Locals /\ my[p].m \in Manifests /\ my[p].source \in Paths
         /\ my[p].bytes \in Contents /\ ImportKnows(label, my[p])
         /\ my[p].m.assets \in Seq(Assets) /\ my[p].m.derivations \in Seq(Derivations)
         /\ my[p].m.evaluations \in Seq(Evaluations)
         /\ my[p].fresh \in Seq(Assets) /\ my[p].outputs \in Seq(Slugs)
         /\ my[p].stems \in Seq(PreStems)
<1>1. my[p] \in Locals /\ Knows(cmd[p], label, my[p]) /\ cmd[p].do = "import"
  BY MyType DEF Running
<1>2. ImportKnows(label, my[p]) /\ my[p].m \in Manifests
  BY <1>1 DEF Knows, UnderLock
<1>3. my[p].source \in Paths /\ my[p].bytes \in Contents
  BY <1>2 DEF ImportKnows, HasRecord
<1>4. my[p].fresh \in Seq(Assets) /\ my[p].outputs \in Seq(Slugs) /\ my[p].stems \in Seq(PreStems)
  BY <1>1 DEF Locals
<1> QED BY <1>1, <1>2, <1>3, <1>4, Parts

LEMMA EntryIds ==
  /\ \A s \in Seq(Assets) : Ids(s) \subseteq Slugs
  /\ \A s \in Seq(Derivations) : Ids(s) \subseteq Slugs
  /\ \A s \in Seq(Evaluations) : Ids(s) \subseteq Slugs
<1>1. ASSUME NEW T, \A e \in T : e.id \in Slugs, NEW s \in Seq(T) PROVE Ids(s) \subseteq Slugs
  <2>1. \A i \in DOMAIN s : s[i] \in T
    OBVIOUS
  <2> QED BY <1>1, <2>1 DEF Ids
<1>2. \A e \in Assets \cup Derivations \cup Evaluations : e.id \in Slugs
  BY DEF Assets, Derivations, Evaluations
<1> QED BY <1>1, <1>2

LEMMA FirstOf ==
  ASSUME NEW T, NEW s \in Seq(T), NEW S \in SUBSET DOMAIN s, S # {}
  PROVE  Min(S) \in S /\ Min(S) \in DOMAIN s /\ s[Min(S)] \in T
<1>1. S \in SUBSET Nat
  OBVIOUS
<1>2. Min(S) \in S
  BY <1>1, MinOfNaturals
<1> QED BY <1>2

LEMMA ImportDecideTInv ==
  ASSUME TInv, NEW p \in Procs, ImportDecide(p) PROVE TInv'
<1> DEFINE m == my[p].m
           place == links[Record(p).input]
           known == [my[p] EXCEPT !.input = m.assets[Min(InputByHash(p))].id]
           found == [my[p] EXCEPT !.path = place]
<1>1. Running(p, "import", "decide") /\ Record(p).kind = "job"
  BY DEF ImportDecide, Importing
<1>2. /\ my[p] \in Locals /\ m \in Manifests /\ my[p].source \in Paths
      /\ my[p].bytes \in Contents /\ ImportKnows("decide", my[p])
      /\ m.assets \in Seq(Assets) /\ m.derivations \in Seq(Derivations)
  BY <1>1, DecidingType
<1>3. Record(p).input \in Names
  BY <1>1, <1>2, RecordType DEF Record
<1>4. my[p].fresh = <<>> /\ my[p].outputs = <<>>
  BY <1>2 DEF ImportKnows, HasRecord
<1>5. CASE JobsDone(p) # {}
  <2>1. m.derivations[Min(JobsDone(p))].id \in Slugs
    <3>1. JobsDone(p) \in SUBSET DOMAIN m.derivations
      BY DEF JobsDone
    <3>2. m.derivations[Min(JobsDone(p))] \in Derivations
      BY <1>2, <1>5, <3>1, FirstOf
    <3> QED BY <3>2 DEF Derivations
  <2>2. End(p, "AlreadyImported", m.derivations[Min(JobsDone(p))].id)
    BY <1>5 DEF ImportDecide
  <2> QED BY <2>1, <2>2, EndTInv DEF Successes
<1>6. JobsDone(p) = {} => JobIsNew(my[p])
  BY DEF JobsDone, JobIsNew, RecordSha256
<1>7. CASE JobsDone(p) = {} /\ InputByHash(p) # {}
  <2>1. Continue(p, "register", known)
    BY <1>7 DEF ImportDecide
  <2>2. known.input \in Ids(m.assets) /\ known \in Locals
    <3>1. InputByHash(p) \in SUBSET DOMAIN m.assets
      BY DEF InputByHash
    <3>2. Min(InputByHash(p)) \in DOMAIN m.assets
      BY <1>2, <1>7, <3>1, FirstOf
    <3>3. m.assets[Min(InputByHash(p))].id \in Ids(m.assets) \cap Slugs
      BY <1>2, <3>2, EntryIds DEF Ids
    <3> QED BY <1>2, <3>3 DEF Locals
  <2>3. /\ known.m = m /\ known.fresh = <<>> /\ known.outputs = <<>>
        /\ known.bytes = my[p].bytes /\ known.source = my[p].source
    BY <1>2, <1>4 DEF Locals
  <2> HIDE DEF known, m
  <2>4. AppendsAssets(m.assets, m.assets \o <<>>)
    <3>1. m.assets \o <<>> = m.assets
      BY <1>2
    <3> QED BY <1>2, <3>1, AppendsNothing
  <2>5. Registering(known)
    BY <1>6, <1>7, <2>2, <2>3, <2>4 DEF Registering, TakenIds, JobIsNew, Range, m
  <2>6. Knows(cmd[p], "register", known)
    BY <1>1, <1>2, <2>3, <2>5
    DEF Knows, ImportKnows, HasRecord, UnderLock, Running, Record
  <2> QED BY <2>1, <2>2, <2>6, ContinueTInv DEF Labels
<1>8. CASE JobsDone(p) = {} /\ InputByHash(p) = {}
  <2>1. \/ \E why \in Refusals : Refuse(p, why)
        \/ place # Outside /\ Continue(p, "inputhash", found)
    <3> DEFINE input == Record(p).input
    <3>1. CASE input \in Absolute
      BY <1>8, <3>1 DEF ImportDecide, Refusals
    <3>2. CASE input \notin Absolute /\ On(input) = Absent
      BY <1>8, <3>2 DEF ImportDecide, Refusals
    <3>3. CASE input \notin Absolute /\ On(input) # Absent
      BY <1>8, <3>3 DEF ImportDecide, Refusals
    <3> QED BY <3>1, <3>2, <3>3
  <2>2. place # Outside => place \in Paths
    BY <1>3, OnType DEF Places
  <2>3. place \in Paths => /\ found \in Locals /\ found.path \in Paths /\ found.m = m
                          /\ found.fresh = <<>> /\ found.outputs = <<>>
                          /\ found.bytes = my[p].bytes /\ found.source = my[p].source
    BY <1>2, <1>4, PathsAssumption DEF Locals
  <2> HIDE DEF found
  <2>4. place \in Paths => Knows(cmd[p], "inputhash", found)
    BY <1>1, <1>2, <1>6, <1>8, <2>3
    DEF Knows, ImportKnows, HasRecord, UnderLock, Running, Record, JobIsNew
  <2> QED BY <2>1, <2>2, <2>3, <2>4, RefuseTInv, ContinueTInv DEF Labels
<1> QED BY <1>5, <1>7, <1>8

\* An id that neither the manifest nor this import has.
LEMMA FreshId ==
  ASSUME NEW known \in Seq(Assets), NEW fresh \in Seq(Assets), NEW base \in Slugs
  PROVE  Mint(base, Ids(known) \cup Ids(fresh)) \in Slugs \ (Ids(known) \cup Ids(fresh))
BY IdsFinite, FS_Union, MintIsFresh

\* An asset with an id and a path of its own joins those about to be added.
LEMMA FreshAsset ==
  ASSUME NEW known \in Seq(Assets), NEW fresh \in Seq(Assets),
         AppendsAssets(known, known \o fresh),
         NEW asset \in Assets, asset.id \notin Ids(known) \cup Ids(fresh),
         ~PathTaken(known \o fresh, asset.path)
  PROVE  /\ Append(fresh, asset) \in Seq(Assets)
         /\ Ids(Append(fresh, asset)) = Ids(fresh) \cup {asset.id}
         /\ AppendsAssets(known, known \o Append(fresh, asset))
<1>1. known \o fresh \in Seq(Assets) /\ Ids(known \o fresh) = Ids(known) \cup Ids(fresh)
  BY IdsConcat
<1>2. \A i \in DOMAIN (known \o fresh) : (known \o fresh)[i].path # asset.path
  BY DEF PathTaken
<1>3. AppendsAssets(known, Append(known \o fresh, asset))
  BY <1>1, <1>2, AppendsAsset
<1>4. known \o Append(fresh, asset) = Append(known \o fresh, asset)
  OBVIOUS
<1>5. Append(fresh, asset) \in Seq(Assets)
  BY AppendType
<1>6. Ids(Append(fresh, asset)) = Ids(fresh) \cup {asset.id}
  BY IdsAppend
<1> QED BY <1>3, <1>4, <1>5, <1>6

LEMMA ImportInputTInv ==
  ASSUME TInv, NEW p \in Procs, ImportInput(p) PROVE TInv'
<1> DEFINE path  == my[p].path
           bytes == On(path)
           assets == my[p].m.assets
           id    == Mint(BaseOf[path], Taken(p))
           asset == NewAsset(id, path, Sha256(bytes), SizeOf[bytes])
           mine  == [my[p] EXCEPT !.input = asset.id, !.fresh = <<asset>>]
<1>1. /\ Running(p, "import", "inputhash") /\ Record(p).kind = "job"
      /\ \/ \E why \in Refusals : Refuse(p, why)
         \/ Readable(path) /\ ~PathTaken(assets, path) /\ Continue(p, "register", mine)
  BY DEF ImportInput, Importing, Refusals
<1>2. /\ my[p] \in Locals /\ my[p].m \in Manifests /\ my[p].source \in Paths
      /\ my[p].bytes \in Contents /\ ImportKnows("inputhash", my[p]) /\ assets \in Seq(Assets)
  BY <1>1, DecidingType
<1>3. path \in Paths /\ my[p].fresh = <<>> /\ my[p].outputs = <<>> /\ JobIsNew(my[p])
  BY <1>2 DEF ImportKnows
<1>4. SUFFICES ASSUME Readable(path), ~PathTaken(assets, path), Continue(p, "register", mine)
               PROVE  TInv'
  BY <1>1, RefuseTInv
<1>5. /\ path \in Names /\ BaseOf[path] \in Slugs /\ Sha256(bytes) \in Hashes
      /\ SizeOf[bytes] \in Nat
  BY <1>3, <1>4, OnType, PathsAssumption, BaseAssumption
<1>6. <<>> \in Seq(Assets) /\ assets \o <<>> = assets /\ Ids(<<>>) = {}
  BY <1>2 DEF Ids
<1>7. id \in Slugs \ (Ids(assets) \cup Ids(<<>>))
  <2>1. Taken(p) = Ids(assets) \cup Ids(<<>>)
    BY <1>3 DEF Taken
  <2> HIDE DEF assets
  <2> QED BY <1>2, <1>5, <1>6, <2>1, FreshId
<1>8. asset \in Assets /\ asset.id = id /\ asset.path = path /\ asset.last_verified = 0
  BY <1>5, <1>7 DEF NewAsset, Assets
<1>9. /\ Append(<<>>, asset) \in Seq(Assets) /\ Ids(Append(<<>>, asset)) = Ids(<<>>) \cup {id}
      /\ AppendsAssets(assets, assets \o Append(<<>>, asset))
  <2>1. AppendsAssets(assets, assets \o <<>>) /\ ~PathTaken(assets \o <<>>, path)
    BY <1>2, <1>4, <1>6, AppendsNothing
  <2> HIDE DEF assets, asset, id, path
  <2> QED BY <1>2, <1>6, <1>7, <1>8, <2>1, FreshAsset
<1>10. <<asset>> = Append(<<>>, asset)
  OBVIOUS
<1> HIDE DEF asset, id
<1>11. /\ mine \in Locals /\ mine.input = id /\ mine.fresh = Append(<<>>, asset)
       /\ mine.m = my[p].m /\ mine.outputs = <<>> /\ mine.bytes = my[p].bytes
       /\ mine.source = my[p].source
  BY <1>2, <1>3, <1>7, <1>8, <1>9, <1>10 DEF Locals
<1> HIDE DEF mine
<1>12. Registering(mine)
  <2>1. \A i \in DOMAIN Append(<<>>, asset) : Append(<<>>, asset)[i] = asset
    BY <1>10
  <2> QED BY <1>3, <1>6, <1>8, <1>9, <1>11, <2>1 DEF Registering, TakenIds, JobIsNew, Range
<1>13. Knows(cmd[p], "register", mine)
  BY <1>1, <1>2, <1>11, <1>12 DEF Knows, ImportKnows, HasRecord, UnderLock, Running, Record
<1> QED BY <1>4, <1>11, <1>13, ContinueTInv DEF Labels

LEMMA ImportStemTInv ==
  ASSUME TInv, NEW p \in Procs, ImportStem(p) PROVE TInv'
<1> DEFINE stem   == my[p].stems[Len(my[p].outputs) + 1]
           assets == my[p].m.assets
           same   == {i \in DOMAIN Known(p) : Known(p)[i].path = stem.path}
           id     == Mint(BaseOf[stem.name], Taken(p))
           asset  == NewAsset(id, stem.path, stem.sha256, stem.size)
           fresh  == [my[p] EXCEPT !.fresh = Append(@, asset), !.outputs = Append(@, asset.id)]
           old    == Known(p)[Min(same)].id
           known  == [my[p] EXCEPT !.outputs = Append(@, old)]
<1>1. /\ Running(p, "import", "register") /\ Record(p).kind = "job"
      /\ Len(my[p].outputs) < Len(my[p].stems)
      /\ \/ \E why \in Refusals : Refuse(p, why)
         \/ same = {} /\ Continue(p, "register", fresh)
         \/ same # {} /\ Continue(p, "register", known)
  BY DEF ImportStem, Importing, Refusals
<1>2. /\ my[p] \in Locals /\ my[p].m \in Manifests /\ my[p].source \in Paths
      /\ my[p].bytes \in Contents /\ ImportKnows("register", my[p]) /\ assets \in Seq(Assets)
      /\ my[p].fresh \in Seq(Assets) /\ my[p].outputs \in Seq(Slugs)
      /\ my[p].stems \in Seq(PreStems)
  BY <1>1, DecidingType
<1>3. Registering(my[p])
  BY <1>2 DEF ImportKnows
<1>4. /\ stem \in PreStems /\ BaseOf[stem.name] \in Slugs /\ stem.path \in Names
      /\ stem.sha256 \in Hashes /\ stem.size \in Nat
  <2>1. Len(my[p].outputs) + 1 \in 1..Len(my[p].stems)
    <3> DEFINE outputs == my[p].outputs
               stems == my[p].stems
    <3>1. Len(outputs) < Len(stems) /\ outputs \in Seq(Slugs) /\ stems \in Seq(PreStems)
      BY <1>1, <1>2
    <3> HIDE DEF outputs, stems
    <3>2. Len(outputs) \in Nat /\ Len(stems) \in Nat
      BY <3>1
    <3>3. Len(outputs) + 1 \in 1..Len(stems)
      BY <3>1, <3>2
    <3> QED BY <3>3 DEF outputs, stems
  <2>2. stem \in PreStems
    BY <1>2, <2>1
  <2> QED BY <2>2, BaseAssumption DEF PreStems
<1>5. Known(p) = assets \o my[p].fresh /\ Known(p) \in Seq(Assets)
      /\ Ids(Known(p)) = TakenIds(my[p]) /\ Taken(p) = TakenIds(my[p])
  BY <1>2, IdsConcat DEF Known, TakenIds, Taken
<1> HIDE DEF stem
<1>6. ASSUME NEW mine \in Locals, NEW s \in TakenIds(mine), Continue(p, "register", mine),
             mine.m = my[p].m, mine.bytes = my[p].bytes, mine.source = my[p].source,
             mine.input = my[p].input, mine.outputs = Append(my[p].outputs, s),
             TakenIds(my[p]) \subseteq TakenIds(mine), s \in Slugs,
             AppendsAssets(assets, assets \o mine.fresh),
             \A i \in DOMAIN mine.fresh : mine.fresh[i].last_verified = 0
      PROVE  TInv'
  <2>1. Range(mine.outputs) = Range(my[p].outputs) \cup {s}
    BY <1>2, <1>6, AppendType DEF Range
  <2>2. Registering(mine)
    BY <1>3, <1>6, <2>1 DEF Registering, JobIsNew
  <2>3. Knows(cmd[p], "register", mine)
    BY <1>1, <1>2, <1>6, <2>2 DEF Knows, ImportKnows, HasRecord, UnderLock, Running, Record
  <2> QED BY <1>6, <2>3, ContinueTInv DEF Labels
<1>7. CASE same = {} /\ Continue(p, "register", fresh)
  <2>1. \A i \in DOMAIN Known(p) : Known(p)[i].path # stem.path
    BY <1>7
  <2>2. id \in Slugs \ (Ids(assets) \cup Ids(my[p].fresh))
    <3>1. Taken(p) = Ids(assets) \cup Ids(my[p].fresh)
      BY DEF Taken
    <3> HIDE DEF assets
    <3> QED BY <1>2, <1>4, <3>1, FreshId
  <2>3. /\ Append(my[p].fresh, asset) \in Seq(Assets) /\ asset.id = id
        /\ \A i \in DOMAIN Append(my[p].fresh, asset) :
              Append(my[p].fresh, asset)[i].last_verified = 0
        /\ Ids(Append(my[p].fresh, asset)) = Ids(my[p].fresh) \cup {id}
        /\ AppendsAssets(assets, assets \o Append(my[p].fresh, asset))
    <3>1. AppendsAssets(assets, assets \o my[p].fresh)
      BY <1>3 DEF Registering
    <3>2. /\ asset \in Assets /\ asset.id = id /\ asset.path = stem.path
          /\ asset.last_verified = 0
      BY <1>4, <2>2 DEF NewAsset, Assets
    <3>3. ~PathTaken(assets \o my[p].fresh, stem.path)
      BY <1>5, <2>1 DEF PathTaken
    <3> HIDE DEF assets, asset, id
    <3>4. \A i \in DOMAIN Append(my[p].fresh, asset) :
             Append(my[p].fresh, asset)[i].last_verified = 0
      BY <1>2, <1>3, <3>2, AppendType DEF Registering
    <3> QED BY <1>2, <2>2, <3>1, <3>2, <3>3, <3>4, FreshAsset
  <2> HIDE DEF asset, id
  <2>4. Append(my[p].outputs, id) \in Seq(Slugs)
    BY <1>2, <2>2, AppendType
  <2>5. /\ fresh \in Locals /\ fresh.fresh = Append(my[p].fresh, asset)
        /\ fresh.outputs = Append(my[p].outputs, id) /\ fresh.m = my[p].m
        /\ fresh.bytes = my[p].bytes /\ fresh.source = my[p].source /\ fresh.input = my[p].input
    BY <1>2, <2>3, <2>4 DEF Locals
  <2> HIDE DEF fresh
  <2>6. id \in TakenIds(fresh) /\ TakenIds(my[p]) \subseteq TakenIds(fresh)
    BY <2>3, <2>5 DEF TakenIds
  <2> QED BY <1>6, <1>7, <2>2, <2>3, <2>5, <2>6
<1>8. CASE same # {} /\ Continue(p, "register", known)
  <2>1. old \in Ids(Known(p)) /\ old \in Slugs
    <3>1. same \in SUBSET DOMAIN Known(p)
      OBVIOUS
    <3>2. Min(same) \in DOMAIN Known(p)
      <4> HIDE DEF same
      <4> QED BY <1>5, <1>8, <3>1, FirstOf
    <3> QED BY <1>5, <3>2, EntryIds DEF Ids
  <2> HIDE DEF old
  <2>2. Append(my[p].outputs, old) \in Seq(Slugs)
    BY <1>2, <2>1, AppendType
  <2>3. /\ known \in Locals /\ known.fresh = my[p].fresh
        /\ known.outputs = Append(my[p].outputs, old) /\ known.m = my[p].m
        /\ known.bytes = my[p].bytes /\ known.source = my[p].source /\ known.input = my[p].input
    BY <1>2, <2>2 DEF Locals
  <2> HIDE DEF known
  <2>4. old \in TakenIds(known) /\ TakenIds(my[p]) \subseteq TakenIds(known)
    BY <1>5, <2>1, <2>3 DEF TakenIds
  <2>5. /\ AppendsAssets(assets, assets \o known.fresh)
        /\ \A i \in DOMAIN known.fresh : known.fresh[i].last_verified = 0
    BY <1>3, <2>3 DEF Registering
  <2> QED BY <1>6, <1>8, <2>1, <2>3, <2>4, <2>5
<1> QED BY <1>1, <1>7, <1>8, RefuseTInv

\* What the import of a job record writes, at its last step: the assets it
\* registers and the one derivation, of a record no derivation has.
LEMMA JobWrites ==
  ASSUME TInv, NEW p \in Procs, ImportWriteJob(p)
  PROVE  \E new \in Manifests, id \in Slugs :
            /\ Commit(p, new, "Imported", id) /\ ImportsJob(my[p].m, new)
            /\ new.assets = my[p].m.assets \o my[p].fresh
            /\ \E d \in Derivations :
                  /\ new.derivations = Append(my[p].m.derivations, d)
                  /\ d.id = id /\ d.job = RecordRef(p) /\ d.job # None
                  /\ d.inputs = <<my[p].input>> /\ d.outputs = my[p].outputs
<1> DEFINE m == my[p].m
           id == Mint(FolderOf[my[p].source], Ids(m.derivations))
           d == [id |-> id, inputs |-> <<my[p].input>>, outputs |-> my[p].outputs,
                 job |-> RecordRef(p)]
           new == [m EXCEPT !.assets = @ \o my[p].fresh, !.derivations = Append(@, d)]
<1>1. Running(p, "import", "register") /\ Commit(p, new, "Imported", id)
  BY DEF ImportWriteJob, Importing
<1>2. /\ my[p] \in Locals /\ m \in Manifests /\ my[p].source \in Paths
      /\ my[p].bytes \in Contents /\ ImportKnows("register", my[p])
      /\ m.assets \in Seq(Assets) /\ m.derivations \in Seq(Derivations)
      /\ m.evaluations \in Seq(Evaluations)
      /\ my[p].fresh \in Seq(Assets) /\ my[p].outputs \in Seq(Slugs)
  BY <1>1, DecidingType
<1>3. Registering(my[p])
  BY <1>2 DEF ImportKnows
<1>4. id \in Slugs \ Ids(m.derivations)
  <2>1. FolderOf[my[p].source] \in Slugs
    BY <1>2, FoldersAssumption, PathsAssumption
  <2> QED BY <1>2, <2>1, IdsFinite, MintIsFresh
<1>5. my[p].input \in Slugs /\ my[p].input \in TakenIds(my[p])
  <2>1. TakenIds(my[p]) \subseteq Slugs
    BY <1>2, EntryIds DEF TakenIds
  <2> QED BY <1>3, <2>1 DEF Registering
<1>6. RecordRef(p) \in HashedRefs /\ RecordRef(p).sha256 = Sha256(my[p].bytes)
  BY <1>2, PathsAssumption DEF RecordRef, RecordSha256, HashedRefs, Hashes
<1>7. RecordRef(p) # None
  BY <1>6, NoneAssumption
<1>8. <<my[p].input>> \in Seq(Slugs) /\ Range(<<my[p].input>>) = {my[p].input}
  BY <1>5 DEF Range
<1>9. /\ d \in Derivations /\ d.id = id /\ d.job = RecordRef(p) /\ d.outputs = my[p].outputs
      /\ d.inputs = <<my[p].input>>
  BY <1>2, <1>4, <1>6, <1>8 DEF Derivations
<1> HIDE DEF d, id
<1>10. m.assets \o my[p].fresh \in Seq(Assets) /\ Append(m.derivations, d) \in Seq(Derivations)
  BY <1>2, <1>9, AppendType
<1>11. /\ new \in Manifests /\ new.assets = m.assets \o my[p].fresh
       /\ new.derivations = Append(m.derivations, d) /\ new.evaluations = m.evaluations
  BY <1>2, <1>10 DEF Manifests
<1> HIDE DEF new
<1>12. AppendsOne(m.derivations, new.derivations) /\ Last(new.derivations) = d
  BY <1>2, <1>9, <1>11, AppendsOneMore
<1>13. Links(d, Ids(new.assets))
  <2>1. Ids(new.assets) = TakenIds(my[p])
    BY <1>2, <1>11, IdsConcat DEF TakenIds
  <2> QED BY <1>3, <1>5, <1>8, <1>9, <2>1 DEF Links, Registering
<1>14. ImportsJob(m, new)
  BY <1>3, <1>4, <1>6, <1>7, <1>9, <1>11, <1>12, <1>13
  DEF ImportsJob, Registering, JobIsNew
<1> QED BY <1>1, <1>4, <1>7, <1>9, <1>11, <1>14

\* What the import of a comparison record writes: one evaluation, of a record
\* no evaluation has, of assets that are there.
LEMMA EvaluationWrites ==
  ASSUME TInv, NEW p \in Procs, ImportEvaluation(p)
  PROVE  \/ Refuse(p, "UnknownAsset")
         \/ \E e \in Evaluations :
               /\ e \in Range(my[p].m.evaluations) /\ e.record.sha256 = RecordSha256(p)
               /\ End(p, "EvaluationAlreadyImported", e.id)
         \/ \E new \in Manifests, id \in Slugs :
               /\ Commit(p, new, "EvaluationImported", id) /\ ImportsEvaluation(my[p].m, new)
               /\ new.assets = my[p].m.assets
               /\ \E e \in Evaluations :
                     /\ new.evaluations = Append(my[p].m.evaluations, e)
                     /\ e.id = id /\ e.record = RecordRef(p)
                     /\ e.candidates = Candidates(Record(p))
                     /\ e.preference = Preference(Record(p))
<1> DEFINE m == my[p].m
           r == Record(p)
           candidates == Candidates(r)
           id == Mint(Matchup(candidates), Ids(m.evaluations))
           e == [id |-> id, candidates |-> candidates, preference |-> Preference(r),
                 record |-> RecordRef(p)]
           new == [m EXCEPT !.evaluations = Append(@, e)]
<1>1. Running(p, "import", "decide") /\ r.kind = "compare"
  BY DEF ImportEvaluation, Importing
<1>2. /\ my[p] \in Locals /\ m \in Manifests /\ my[p].source \in Paths
      /\ my[p].bytes \in Contents /\ ImportKnows("decide", my[p])
      /\ m.assets \in Seq(Assets) /\ m.derivations \in Seq(Derivations)
      /\ m.evaluations \in Seq(Evaluations)
  BY <1>1, DecidingType
<1>3. /\ r.candidates \in Seq([label : STRING, asset : Slugs \cup {None}])
      /\ Len(r.candidates) >= 2
      /\ PreferenceKnown(r) /\ \A i \in DOMAIN r.candidates : r.candidates[i].asset # None
  BY <1>1, <1>2, RecordType DEF Record, ImportKnows
<1> HIDE DEF r
<1>4. /\ candidates \in Seq(Slugs) /\ Len(candidates) # 0
      /\ DOMAIN candidates = DOMAIN r.candidates
      /\ \A i \in DOMAIN candidates : candidates[i] = r.candidates[i].asset
  <2>1. \A i \in 1..Len(r.candidates) : r.candidates[i].asset \in Slugs
    <3> DEFINE Entries == [label : STRING, asset : Slugs \cup {None}]
               list == r.candidates
    <3>1. list \in Seq(Entries) /\ \A i \in DOMAIN list : list[i].asset # None
      BY <1>3
    <3>2. \A entry \in Entries : entry.asset # None => entry.asset \in Slugs
      OBVIOUS
    <3> HIDE DEF Entries, list
    <3>3. \A i \in 1..Len(list) : i \in DOMAIN list /\ list[i] \in Entries
      BY <3>1
    <3>4. \A i \in 1..Len(list) : list[i].asset \in Slugs
      BY <3>1, <3>2, <3>3
    <3> QED BY <3>4 DEF list
  <2>2. candidates = [i \in 1..Len(r.candidates) |-> r.candidates[i].asset]
    BY <1>3 DEF Candidates
  <2>3. Len(r.candidates) \in Nat
    BY <1>3
  <2> QED BY <1>3, <2>1, <2>2, <2>3
<1> HIDE DEF candidates
<1>5. CASE RecordsDone(p) # {}
  <2>1. RecordsDone(p) \in SUBSET DOMAIN m.evaluations
    BY DEF RecordsDone
  <2>2. /\ Min(RecordsDone(p)) \in RecordsDone(p)
        /\ m.evaluations[Min(RecordsDone(p))] \in Evaluations
    BY <1>2, <1>5, <2>1, FirstOf
  <2>3. End(p, "EvaluationAlreadyImported", m.evaluations[Min(RecordsDone(p))].id)
    BY <1>5 DEF ImportEvaluation
  <2> QED BY <2>2, <2>3 DEF RecordsDone, Range
<1>6. CASE RecordsDone(p) = {} /\ ~AllRegistered(candidates, m)
  BY <1>6 DEF ImportEvaluation, candidates, r
<1>7. CASE RecordsDone(p) = {} /\ AllRegistered(candidates, m)
  <2>1. Commit(p, new, "EvaluationImported", id)
    BY <1>7 DEF ImportEvaluation, candidates, r
  <2>2. id \in Slugs \ Ids(m.evaluations)
    <3>1. Matchup(candidates) \in Slugs
      BY <1>4, MatchupIsSlug
    <3> QED BY <1>2, <3>1, IdsFinite, MintIsFresh
  <2>3. /\ Preference(r) # None => Preference(r) \in Range(candidates)
        /\ Preference(r) \in Slugs \cup {None}
    <3> DEFINE labelled == {i \in DOMAIN r.candidates : r.candidates[i].label = r.preference}
    <3>1. CASE r.preference = None
      BY <3>1 DEF Preference
    <3>2. CASE r.preference # None
      <4>1. labelled # {} /\ labelled \in SUBSET DOMAIN r.candidates
        BY <1>3, <3>2 DEF PreferenceKnown
      <4>2. Min(labelled) \in DOMAIN r.candidates
        <5> HIDE DEF labelled
        <5> QED BY <1>3, <4>1, FirstOf
      <4>3. Preference(r) = r.candidates[Min(labelled)].asset
        BY <3>2 DEF Preference
      <4>4. Preference(r) = candidates[Min(labelled)] /\ Min(labelled) \in DOMAIN candidates
        BY <1>4, <4>2, <4>3
      <4> HIDE DEF labelled
      <4> QED BY <1>4, <4>4 DEF Range
    <3> QED BY <3>1, <3>2
  <2>4. RecordRef(p) \in HashedRefs /\ RecordRef(p).sha256 = RecordSha256(p)
    BY <1>2, PathsAssumption DEF RecordRef, RecordSha256, HashedRefs, Hashes
  <2>5. /\ e \in Evaluations /\ e.id = id /\ e.record = RecordRef(p)
        /\ e.candidates = candidates /\ e.preference = Preference(r)
    BY <1>4, <2>2, <2>3, <2>4 DEF Evaluations
  <2> HIDE DEF e, id
  <2>6. Append(m.evaluations, e) \in Seq(Evaluations)
    BY <1>2, <2>5, AppendType
  <2>7. /\ new \in Manifests /\ new.assets = m.assets /\ new.derivations = m.derivations
        /\ new.evaluations = Append(m.evaluations, e)
    BY <1>2, <2>6 DEF Manifests
  <2> HIDE DEF new
  <2>8. AppendsOne(m.evaluations, new.evaluations) /\ Last(new.evaluations) = e
    BY <1>2, <2>5, <2>7, AppendsOneMore
  <2>9. \A i \in DOMAIN m.evaluations :
           m.evaluations[i].record.sha256 # e.record.sha256
    BY <1>7, <2>4, <2>5 DEF RecordsDone
  <2>10. Compares(e, Ids(m.assets))
    BY <1>7, <2>3, <2>5 DEF Compares, AllRegistered
  <2>11. ImportsEvaluation(m, new)
    BY <2>2, <2>5, <2>7, <2>8, <2>9, <2>10 DEF ImportsEvaluation
  <2>12. e.candidates = Candidates(Record(p)) /\ e.preference = Preference(Record(p))
    BY <2>5 DEF candidates, r
  <2> QED BY <2>1, <2>2, <2>5, <2>7, <2>11, <2>12
<1> QED BY <1>5, <1>6, <1>7

LEMMA ImportTInv == ASSUME TInv, NEW p \in Procs, Import(p) PROVE TInv'
<1>1. CASE ImportWriteJob(p)
  BY <1>1, JobWrites, CommitTInv DEF Successes
<1>2. CASE ImportEvaluation(p)
  BY <1>2, EvaluationWrites, EndTInv, RefuseTInv, CommitTInv
  DEF Successes, Refusals, Evaluations
<1> QED
  BY <1>1, <1>2, ImportBeforeLockTInv, ImportDecideTInv, ImportInputTInv, ImportStemTInv
  DEF Import

(***************************************************************************)
(* verify.                                                                 *)
(***************************************************************************)
\* What the pass knows at its labels.
LEMMA VerifyingType ==
  ASSUME TInv, NEW p \in Procs, NEW label \in {"check", "hash"}, Running(p, "verify", label)
  PROVE  /\ my[p] \in Locals /\ my[p].snapshot \in Manifests
         /\ VerifyKnows(label, my[p]) /\ my[p].time = 0
         /\ my[p].snapshot.assets \in Seq(Assets)
         /\ my[p].snapshot.evaluations \in Seq(Evaluations)
         /\ my[p].statuses \in Seq(Integrities) /\ my[p].records \in Seq(Integrities)
         /\ Len(my[p].snapshot.assets) \in Nat /\ Len(my[p].snapshot.evaluations) \in Nat
         /\ Len(my[p].statuses) \in Nat /\ Len(my[p].records) \in Nat
<1>1. my[p] \in Locals /\ Knows(cmd[p], label, my[p]) /\ cmd[p].do = "verify"
  BY MyType DEF Running
<1>2. VerifyKnows(label, my[p])
  BY <1>1 DEF Knows
<1>3. my[p].snapshot \in Manifests /\ my[p].time = 0
  BY <1>2 DEF VerifyKnows
<1>4. my[p].statuses \in Seq(Integrities) /\ my[p].records \in Seq(Integrities)
  BY <1>1 DEF Locals
<1>5. my[p].snapshot.assets \in Seq(Assets) /\ my[p].snapshot.evaluations \in Seq(Evaluations)
  BY <1>3, Parts
<1>6. \A T : \A s \in Seq(T) : Len(s) \in Nat
  OBVIOUS
<1>7. /\ Len(my[p].snapshot.assets) \in Nat /\ Len(my[p].snapshot.evaluations) \in Nat
      /\ Len(my[p].statuses) \in Nat /\ Len(my[p].records) \in Nat
  BY <1>4, <1>5, <1>6
<1> QED BY <1>1, <1>2, <1>3, <1>4, <1>5, <1>7

\* One more status, of an asset of the snapshot.
LEMMA StatusTInv ==
  ASSUME TInv, NEW p \in Procs, NEW label \in {"check", "hash"}, Running(p, "verify", label),
         AssetsLeft(p), NEW integrity \in Integrities,
         Continue(p, "check", Status(p, integrity))
  PROVE  TInv'
<1> DEFINE mine == Status(p, integrity)
<1>1. /\ my[p] \in Locals /\ my[p].snapshot \in Manifests
      /\ VerifyKnows(label, my[p]) /\ my[p].time = 0
      /\ my[p].statuses \in Seq(Integrities)
      /\ Len(my[p].snapshot.assets) \in Nat /\ Len(my[p].statuses) \in Nat
  BY VerifyingType
<1>2. Len(my[p].statuses) < Len(my[p].snapshot.assets)
      /\ Len(my[p].records) <= Len(my[p].snapshot.evaluations)
  BY <1>1 DEF AssetsLeft, VerifyKnows
<1>3. Append(my[p].statuses, integrity) \in Seq(Integrities)
      /\ Len(Append(my[p].statuses, integrity)) <= Len(my[p].snapshot.assets)
  BY <1>1, <1>2, AppendType
<1>4. /\ mine \in Locals /\ mine.statuses = Append(my[p].statuses, integrity)
      /\ mine.records = my[p].records /\ mine.snapshot = my[p].snapshot /\ mine.time = 0
  BY <1>1, <1>3 DEF Locals, Status
<1> HIDE DEF mine
<1>5. Knows(cmd[p], "check", mine)
  BY <1>1, <1>2, <1>3, <1>4 DEF Knows, VerifyKnows, Running, UnderLock
<1> QED BY <1>4, <1>5, ContinueTInv DEF mine, Labels

LEMMA VerifyRecordTInv == ASSUME TInv, NEW p \in Procs, VerifyRecord(p) PROVE TInv'
<1> DEFINE Found(integrity) == [my[p] EXCEPT !.records = Append(@, integrity)]
<1>1. /\ Running(p, "verify", "check") /\ RecordsLeft(p)
      /\ \/ Refuse(p, "Unreadable")
         \/ \E integrity \in Integrities : Continue(p, "check", Found(integrity))
  BY DEF VerifyRecord, Integrities
<1>2. SUFFICES ASSUME NEW integrity \in Integrities, Continue(p, "check", Found(integrity))
               PROVE  TInv'
  BY <1>1, RefuseTInv DEF Refusals
<1> DEFINE mine == Found(integrity)
<1>3. /\ my[p] \in Locals /\ my[p].snapshot \in Manifests
      /\ VerifyKnows("check", my[p]) /\ my[p].time = 0
      /\ my[p].records \in Seq(Integrities)
      /\ Len(my[p].snapshot.evaluations) \in Nat /\ Len(my[p].records) \in Nat
  BY <1>1, VerifyingType
<1>4. Append(my[p].records, integrity) \in Seq(Integrities)
      /\ Len(Append(my[p].records, integrity)) <= Len(my[p].snapshot.evaluations)
  BY <1>1, <1>3, AppendType DEF RecordsLeft
<1>5. /\ mine \in Locals /\ mine.records = Append(my[p].records, integrity)
      /\ mine.statuses = my[p].statuses /\ mine.snapshot = my[p].snapshot /\ mine.time = 0
  BY <1>3, <1>4 DEF Locals
<1> HIDE DEF mine
<1>6. Knows(cmd[p], "check", mine)
  BY <1>1, <1>3, <1>4, <1>5 DEF Knows, VerifyKnows, Running, UnderLock
<1> QED BY <1>2, <1>5, <1>6, ContinueTInv DEF mine, Labels

\* What stamp_verified writes.
LEMMA StampWrites ==
  ASSUME TInv, NEW p \in Procs, VerifyStamp(p)
  PROVE  \/ Stamped(p) = {} /\ End(p, Verdict(my[p]), None)
         \/ /\ Stamped(p) # {}
            /\ \E new \in Manifests :
                  /\ Commit(p, new, Verdict(my[p]), None)
                  /\ new.assets = StampAssets(p)
                  /\ new.derivations = my[p].m.derivations
                  /\ new.evaluations = my[p].m.evaluations
<1> DEFINE m == my[p].m
           new == [m EXCEPT !.assets = StampAssets(p)]
<1>1. m \in Manifests /\ my[p].time \in Nat /\ m.assets \in Seq(Assets)
  <2>1. my[p] \in Locals /\ m \in Manifests
    BY MyType DEF VerifyStamp, Running, Knows, UnderLock
  <2> QED BY <2>1, Parts DEF Locals
<1>2. StampAssets(p) \in Seq(Assets)
  <2> DEFINE Entry(i) == IF i \in Stamped(p) THEN [m.assets[i] EXCEPT !.last_verified = my[p].time]
                                             ELSE m.assets[i]
  <2>1. DOMAIN m.assets = 1..Len(m.assets) /\ Len(m.assets) \in Nat
        /\ \A i \in DOMAIN m.assets : m.assets[i] \in Assets
    BY <1>1
  <2>2. \A i \in 1..Len(m.assets) : Entry(i) \in Assets
    BY <1>1, <2>1 DEF Assets
  <2>3. StampAssets(p) = [i \in 1..Len(m.assets) |-> Entry(i)]
    BY <2>1 DEF StampAssets
  <2> HIDE DEF Entry
  <2> QED BY <2>1, <2>2, <2>3
<1>3. /\ new \in Manifests /\ new.assets = StampAssets(p)
      /\ new.derivations = m.derivations /\ new.evaluations = m.evaluations
  BY <1>1, <1>2 DEF Manifests
<1>4. \/ Stamped(p) = {} /\ End(p, Verdict(my[p]), None)
      \/ Stamped(p) # {} /\ Commit(p, new, Verdict(my[p]), None)
  BY DEF VerifyStamp
<1> HIDE DEF new
<1> QED BY <1>3, <1>4

LEMMA VerdictKind == \A mine : Verdict(mine) \in Successes
BY DEF Verdict, Successes

LEMMA VerifyTInv == ASSUME TInv, NEW p \in Procs, Verify(p) PROVE TInv'
<1>1. my[p] \in Locals /\ Knows(cmd[p], pc[p], my[p])
  BY MyType
<1>2. CASE VerifyLoad(p)
  <2> DEFINE mine == [my[p] EXCEPT !.snapshot = manifest]
  <2>1. /\ Running(p, "verify", "start")
        /\ \/ Refuse(p, "NotAProject")
           \/ manifest \in Manifests /\ Continue(p, "check", mine)
    BY <1>2 DEF VerifyLoad, TInv, TypeOK
  <2>2. manifest \in Manifests =>
           /\ mine \in Locals /\ mine.snapshot = manifest /\ mine.statuses = my[p].statuses
           /\ mine.records = my[p].records /\ mine.time = my[p].time
    BY <1>1 DEF Locals
  <2> HIDE DEF mine
  <2>3. my[p].statuses = <<>> /\ my[p].records = <<>> /\ my[p].time = 0
    BY <1>1, <2>1 DEF Running, Knows, VerifyKnows
  <2>4. manifest \in Manifests =>
           Len(manifest.assets) \in Nat /\ Len(manifest.evaluations) \in Nat
    BY DEF Manifests
  <2>5. manifest \in Manifests => Knows(cmd[p], "check", mine)
    BY <2>1, <2>2, <2>3, <2>4 DEF Running, Knows, VerifyKnows, UnderLock
  <2> QED BY <2>1, <2>2, <2>5, RefuseTInv, ContinueTInv DEF Labels, Refusals
<1>3. CASE VerifyStat(p)
  <2>1. /\ Running(p, "verify", "check") /\ AssetsLeft(p)
        /\ \/ Refuse(p, "Unreadable")
           \/ \E integrity \in Integrities : Continue(p, "check", Status(p, integrity))
           \/ Continue(p, "hash", my[p])
    BY <1>3 DEF VerifyStat, Integrities
  <2>2. Knows(cmd[p], "hash", my[p])
    BY <1>1, <2>1 DEF Running, Knows, VerifyKnows, AssetsLeft, UnderLock
  <2> QED BY <1>1, <2>1, <2>2, StatusTInv, RefuseTInv, ContinueTInv DEF Labels, Refusals
<1>4. CASE VerifyHash(p)
  <2>1. /\ Running(p, "verify", "hash")
        /\ \/ Refuse(p, "Unreadable")
           \/ \E integrity \in Integrities : Continue(p, "check", Status(p, integrity))
    BY <1>4 DEF VerifyHash, Integrities
  <2>2. AssetsLeft(p)
    BY <1>1, <2>1 DEF Running, Knows, VerifyKnows, AssetsLeft
  <2> QED BY <2>1, <2>2, StatusTInv, RefuseTInv DEF Refusals
<1>5. CASE VerifyReport(p)
  <2>1. /\ Running(p, "verify", "check") /\ ~AssetsLeft(p) /\ ~RecordsLeft(p)
        /\ Continue(p, "lock", my[p]) \/ End(p, Verdict(my[p]), None)
    BY <1>5 DEF VerifyReport
  <2>2. Knows(cmd[p], "lock", my[p])
    <3>1. /\ my[p].snapshot \in Manifests /\ VerifyKnows("check", my[p])
          /\ Len(my[p].snapshot.assets) \in Nat /\ Len(my[p].snapshot.evaluations) \in Nat
          /\ Len(my[p].statuses) \in Nat /\ Len(my[p].records) \in Nat
      BY <2>1, VerifyingType
    <3> QED BY <2>1, <3>1 DEF Running, Knows, VerifyKnows, AssetsLeft, RecordsLeft, UnderLock
  <2> QED BY <1>1, <2>1, <2>2, EndTInv, ContinueTInv, VerdictKind DEF Labels
<1>6. CASE VerifyClock(p)
  <2> DEFINE mine == [my[p] EXCEPT !.time = now]
  <2>1. Running(p, "verify", "write") /\ Continue(p, "write", mine)
    BY <1>6 DEF VerifyClock
  <2>2. /\ mine \in Locals /\ mine.m = my[p].m /\ mine.statuses = my[p].statuses
        /\ mine.records = my[p].records /\ mine.snapshot = my[p].snapshot
    BY <1>1 DEF Locals, TInv, TypeOK
  <2> HIDE DEF mine
  <2>3. Knows(cmd[p], "write", mine)
    BY <1>1, <2>1, <2>2 DEF Running, Knows, VerifyKnows, UnderLock
  <2> QED BY <2>1, <2>2, <2>3, ContinueTInv DEF Labels
<1>7. CASE VerifyStamp(p)
  BY <1>7, StampWrites, EndTInv, CommitTInv, VerdictKind
<1> QED BY <1>2, <1>3, <1>4, <1>5, <1>6, <1>7, VerifyRecordTInv DEF Verify

(***************************************************************************)
(* The world around the commands; the whole.                               *)
(***************************************************************************)
LEMMA WitnessType ==
  ASSUME TInv, NEW f \in [Places -> Contents \cup {Absent}], NEW l \in [Names -> Places],
         Witness(f, l)
  PROVE  seen' \in [Procs -> SUBSET (Names \X (Contents \cup {Absent}))]
<1> DEFINE Pairs == Names \X (Contents \cup {Absent})
           Now(p) == CASE pc[p] = "start"  -> Facts(f, l)
                       [] pc[p] \in Ended  -> {}
                       [] OTHER            -> seen[p] \cup Facts(f, l)
<1>1. \A p \in Procs : seen[p] \subseteq Pairs /\ Facts(f, l) \subseteq Pairs
  BY FactsType DEF TInv, TypeOK
<1>2. ASSUME NEW p \in Procs PROVE Now(p) \subseteq Pairs
  <2>1. CASE pc[p] = "start"
    BY <1>1, <2>1
  <2>2. CASE pc[p] # "start" /\ pc[p] \in Ended
    BY <1>1, <2>2
  <2>3. CASE pc[p] # "start" /\ pc[p] \notin Ended
    BY <1>1, <2>3
  <2> QED BY <2>1, <2>2, <2>3
<1>3. seen' = [p \in Procs |-> Now(p)]
  BY DEF Witness
<1> HIDE DEF Now
<1> QED BY <1>2, <1>3

LEMMA WorldTInv == ASSUME TInv, Edit \/ Relink \/ Tick PROVE TInv'
<1>1. cmd' = cmd /\ pc' = pc /\ my' = my /\ manifest' = manifest /\ lock' = lock
  BY DEF Edit, Relink, Tick
<1>2. files \in [Places -> Contents \cup {Absent}] /\ links \in [Names -> Places]
      /\ now \in Nat /\ edits \in 0..MaxEdits
  BY DEF TInv, TypeOK
<1>3. /\ files' \in [Places -> Contents \cup {Absent}] /\ links' \in [Names -> Places]
      /\ now' \in Nat /\ edits' \in 0..MaxEdits
      /\ seen' \in [Procs -> SUBSET (Names \X (Contents \cup {Absent}))]
  <2>1. CASE Edit
    <3>1. PICK e \in Rewrites :
              /\ edits < MaxEdits /\ files' = [files EXCEPT ![e[1]] = e[2]]
              /\ edits' = edits + 1 /\ links' = links /\ now' = now
              /\ Witness(files', links)
      BY <2>1 DEF Edit
    <3>2. e[1] \in Places /\ e[2] \in Contents \cup {Absent}
      BY DiskAssumption
    <3>3. files' \in [Places -> Contents \cup {Absent}]
      BY <1>2, <3>1, <3>2
    <3>4. seen' \in [Procs -> SUBSET (Names \X (Contents \cup {Absent}))]
      BY <1>2, <3>1, <3>3, WitnessType
    <3> QED BY <1>2, <3>1, <3>3, <3>4, BoundsAssumption
  <2>2. CASE Relink
    <3>1. PICK e \in Relinks :
              /\ edits < MaxEdits /\ links' = [links EXCEPT ![e[1]] = e[2]]
              /\ edits' = edits + 1 /\ files' = files /\ now' = now
              /\ Witness(files, links')
      BY <2>2 DEF Relink
    <3>2. e[1] \in Names /\ e[2] \in Places
      BY DiskAssumption
    <3>3. links' \in [Names -> Places]
      BY <1>2, <3>1, <3>2
    <3>4. seen' \in [Procs -> SUBSET (Names \X (Contents \cup {Absent}))]
      BY <1>2, <3>1, <3>3, WitnessType
    <3> QED BY <1>2, <3>1, <3>3, <3>4, BoundsAssumption
  <2>3. CASE Tick
    BY <1>2, <2>3 DEF Tick, disk, TInv, TypeOK
  <2> QED BY <2>1, <2>2, <2>3
<1>4. TypeOK'
  BY <1>1, <1>3 DEF TInv, TypeOK
<1> QED BY <1>1, <1>4 DEF TInv

LEMMA NextTInv == TInv /\ [Next]_vars => TInv'
<1> SUFFICES ASSUME TInv, [Next]_vars PROVE TInv'
  OBVIOUS
<1>1. CASE UNCHANGED vars
  BY <1>1 DEF vars, TInv, TypeOK
<1>2. ASSUME NEW p \in Procs, Command(p) PROVE TInv'
  BY <1>2, LockTInv, LoadTInv, LeaveTInv, InitProjectTInv, AddTInv, ImportTInv, VerifyTInv,
     ShowTInv
  DEF Command
<1>3. CASE Quiet
  BY <1>1, <1>3 DEF Quiet
<1> QED BY <1>1, <1>2, <1>3, LockTInv, LeaveTInv, WorldTInv DEF Next

LEMMA TypeInductive == Spec => []TInv
BY InitTInv, NextTInv, PTL DEF Spec

\* The state of every command and of the directory has its shape, whatever the
\* commands, the disk, the evidence and the edits (manifest.rs, lock.rs).
THEOREM TypeCorrect == Spec => []TypeOK
<1>1. TInv => TypeOK
  BY DEF TInv
<1> QED BY <1>1, TypeInductive, PTL

(***************************************************************************)
(* What follows of the manifest: together the commands implement Registry, *)
(* and what each of them reports is so.                                    *)
(***************************************************************************)

(***************************************************************************)
(* A step of a command leaves the other commands, the disk and the clock   *)
(* alone, forgets what was seen only when the command ends, and moves the  *)
(* lock only if it is free or the command's own.                           *)
(***************************************************************************)
Moves(p) ==
    /\ now' = now /\ cmd' = cmd /\ files' = files /\ links' = links
    /\ pc[p] \notin Ended /\ (seen'[p] = seen[p] \/ pc'[p] \in Ended)
    /\ lock' = lock \/ lock \in {Free, p}
    /\ \A q \in Procs \ {p} : pc'[q] = pc[q] /\ my'[q] = my[q] /\ seen'[q] = seen[q]

LEMMA ActsWhileRunning ==
  ASSUME NEW p \in Procs, Command(p) \/ AcquireFails(p) \/ Crash(p) PROVE pc[p] \notin Ended
<1>1. CASE Acquire(p) \/ Load(p) \/ Return(p) \/ AcquireFails(p) \/ Crash(p)
  BY <1>1 DEF Acquire, Load, Return, AcquireFails, Crash, Ended
<1>2. CASE InitProject(p) \/ Show(p) \/ Add(p)
  BY <1>2 DEF InitProject, InitStart, InitExists, InitWrite, Show, ShowLoad, ShowPrint, Add,
     AddCheck, AddResolve, AddHash, AddWrite, Running, Ended
<1>3. CASE Import(p)
  BY <1>3 DEF Import, ImportBeforeLock, ImportCheck, ImportLocate, ImportRead,
     ImportResolveStem, ImportHashStem, ImportDecide, ImportInput, ImportStem,
     ImportWriteJob, ImportEvaluation, Importing, Running, Ended
<1>4. CASE Verify(p)
  BY <1>4 DEF Verify, VerifyLoad, VerifyStat, VerifyHash, VerifyRecord, VerifyReport,
     VerifyClock, VerifyStamp, Running, Ended
<1> QED BY <1>1, <1>2, <1>3, <1>4 DEF Command

LEMMA StepMoves ==
  ASSUME TInv, NEW p \in Procs, Command(p) \/ AcquireFails(p) \/ Crash(p) PROVE Moves(p)
<1>0. pc[p] \notin Ended
  BY ActsWhileRunning
<1> USE DEF Moves
<1>1. \A label, mine : Continue(p, label, mine) => Moves(p)
  BY <1>0 DEF Continue, shared, disk, TInv, TypeOK
<1>2. \A kind, id : (End(p, kind, id) => Moves(p)) /\ (Refuse(p, kind) => Moves(p))
  BY <1>1 DEF End, Refuse
<1>3. \A new, kind, id : Commit(p, new, kind, id) => Moves(p)
  BY <1>0, <1>2 DEF Commit, disk, TInv, TypeOK
<1> HIDE DEF Moves
<1>4. CASE Acquire(p) \/ Return(p) \/ Crash(p)
  BY <1>0, <1>4
  DEF Acquire, Return, Crash, L!Enter, L!Leave, disk, TInv, TypeOK, Moves, Ended
<1>5. CASE AcquireFails(p) \/ Load(p) \/ Show(p)
  BY <1>1, <1>2, <1>5 DEF AcquireFails, Load, Show, ShowLoad, ShowPrint
<1>6. CASE InitProject(p)
  BY <1>1, <1>2, <1>3, <1>6 DEF InitProject, InitStart, InitExists, InitWrite
<1>7. CASE Add(p)
  BY <1>1, <1>2, <1>3, <1>7 DEF Add, AddCheck, AddResolve, AddHash, AddWrite
<1>8. CASE Import(p)
  <2>1. CASE ImportCheck(p) \/ ImportLocate(p) \/ ImportRead(p)
    BY <1>1, <1>2, <2>1 DEF ImportCheck, ImportLocate, ImportRead, Dispatch
  <2>2. CASE ImportResolveStem(p) \/ ImportHashStem(p)
    BY <1>1, <1>2, <2>2 DEF ImportResolveStem, ImportHashStem
  <2>3. CASE ImportDecide(p)
    <3> DEFINE input == Record(p).input
    <3>1. CASE input \in Absolute
      BY <1>1, <1>2, <2>3, <3>1 DEF ImportDecide
    <3>2. CASE input \notin Absolute /\ On(input) = Absent
      BY <1>1, <1>2, <2>3, <3>2 DEF ImportDecide
    <3>3. CASE input \notin Absolute /\ On(input) # Absent
      BY <1>1, <1>2, <2>3, <3>3 DEF ImportDecide
    <3> QED BY <3>1, <3>2, <3>3
  <2>4. CASE ImportInput(p) \/ ImportStem(p)
    BY <1>1, <1>2, <2>4 DEF ImportInput, ImportStem
  <2>5. CASE ImportWriteJob(p) \/ ImportEvaluation(p)
    BY <1>2, <1>3, <2>5 DEF ImportWriteJob, ImportEvaluation
  <2> QED BY <1>8, <2>1, <2>2, <2>3, <2>4, <2>5 DEF Import, ImportBeforeLock
<1>9. CASE Verify(p)
  <2>1. CASE VerifyLoad(p) \/ VerifyStat(p) \/ VerifyHash(p)
    BY <1>1, <1>2, <2>1 DEF VerifyLoad, VerifyStat, VerifyHash
  <2>2. CASE VerifyRecord(p) \/ VerifyReport(p) \/ VerifyClock(p)
    BY <1>1, <1>2, <2>2 DEF VerifyRecord, VerifyReport, VerifyClock
  <2>3. CASE VerifyStamp(p)
    BY <1>2, <1>3, <2>3 DEF VerifyStamp
  <2> QED BY <1>9, <2>1, <2>2, <2>3 DEF Verify
<1> QED BY <1>4, <1>5, <1>6, <1>7, <1>8, <1>9 DEF Command

(***************************************************************************)
(* The clock: no stamp lies in the future, and a verify that has read the  *)
(* clock has read no later stamp than that.                                *)
(***************************************************************************)
Past(m, t) == m # NoProject => \A i \in DOMAIN m.assets : m.assets[i].last_verified <= t

HasRead(c, at, mine) == c.do = "verify" /\ at = "write" /\ mine.time # 0

Dated ==
    /\ Past(manifest, now)
    /\ \A p \in Procs : HasRead(cmd[p], pc[p], my[p]) =>
          Past(my[p].m, my[p].time) /\ my[p].time <= now

CInv == TInv /\ IInv /\ ManifestConsistent /\ Dated

LEMMA InitCInv == Init => CInv
<1> SUFFICES ASSUME Init PROVE CInv
  OBVIOUS
<1>1. Past(manifest, now)
  BY ClockAssumption DEF Init, Past
<1>2. \A p \in Procs : pc[p] = "start"
  BY DEF Init
<1>3. Dated
  BY <1>1, <1>2 DEF Dated, HasRead
<1>4. ManifestConsistent
  BY StartsAssumption DEF Init, ManifestConsistent
<1> QED BY <1>3, <1>4, InitTInv, InitIInv DEF CInv

(***************************************************************************)
(* What a step that changes the manifest does to it.                       *)
(***************************************************************************)
LEMMA CommitNew ==
  ASSUME NEW p \in Procs, NEW new, NEW kind, NEW id, Commit(p, new, kind, id),
         manifest' # manifest
  PROVE  manifest' = new
BY DEF Commit, Refuse, End, Continue, shared

\* Appending to the assets keeps the stamps there are, and adds "never".
LEMMA PastAppend ==
  ASSUME NEW m \in Manifests, NEW n \in Manifests, NEW t \in Nat, Past(m, t),
         NEW fresh \in Seq(Assets), \A i \in DOMAIN fresh : fresh[i].last_verified = 0,
         n.assets = m.assets \o fresh
  PROVE  Past(n, t)
<1> DEFINE old == m.assets
           both == old \o fresh
<1>1. m # NoProject /\ old \in Seq(Assets)
  BY Parts, NoProjectAssumption
<1>2. \A i \in DOMAIN old : old[i].last_verified <= t
  BY <1>1 DEF Past
<1> HIDE DEF old
<1>3. \A i \in DOMAIN both : \/ i \in DOMAIN old /\ both[i] = old[i]
                             \/ i - Len(old) \in DOMAIN fresh /\ both[i] = fresh[i - Len(old)]
  BY <1>1
<1>4. \A i \in DOMAIN both : both[i].last_verified <= t
  <2> HIDE DEF both
  <2> QED BY <1>2, <1>3
<1> QED BY <1>4 DEF Past, old

LEMMA StampsAre ==
  ASSUME CInv, NEW p \in Procs, VerifyStamp(p), NEW new \in Manifests,
         new.assets = StampAssets(p), new.derivations = my[p].m.derivations,
         new.evaluations = my[p].m.evaluations
  PROVE  Stamps(my[p].m, new) /\ Past(new, now)
<1> DEFINE old == my[p].m.assets
           time == my[p].time
<1>1. my[p].m \in Manifests /\ time \in Nat /\ now \in Nat /\ my[p].m # NoProject
  BY MyType, NoProjectAssumption
  DEF CInv, TInv, TypeOK, VerifyStamp, Running, Knows, UnderLock, Locals
<1>2. Past(my[p].m, time) /\ time <= now
  BY DEF VerifyStamp, Running, CInv, Dated, HasRead
<1>3. old \in Seq(Assets) /\ \A i \in DOMAIN old : old[i] \in Assets
  BY <1>1, Parts
<1>4. \A i \in DOMAIN old : old[i].last_verified \in Nat /\ old[i].last_verified <= time
  BY <1>1, <1>2, <1>3 DEF Past, Assets
<1>5. DOMAIN new.assets = DOMAIN old
      /\ \A i \in DOMAIN old : \/ new.assets[i] = [old[i] EXCEPT !.last_verified = time]
                               \/ new.assets[i] = old[i]
  BY DEF StampAssets
<1>6. Len(new.assets) = Len(old)
  <2>1. new.assets \in Seq(Assets)
    BY Parts
  <2> HIDE DEF old
  <2> QED BY <1>3, <1>5, <2>1
<1>7. ASSUME NEW i \in DOMAIN old
      PROVE  /\ SameAsset(old[i], new.assets[i])
             /\ old[i].last_verified <= new.assets[i].last_verified
             /\ new.assets[i].last_verified <= now
  <2>1. CASE new.assets[i] = [old[i] EXCEPT !.last_verified = time]
    BY <1>1, <1>2, <1>3, <1>4, <2>1 DEF SameAsset, Assets
  <2>2. CASE new.assets[i] = old[i]
    BY <1>1, <1>2, <1>3, <1>4, <2>2 DEF SameAsset, Assets
  <2> QED BY <1>5, <2>1, <2>2
<1> HIDE DEF old
<1>8. RefreshesAssets(old, new.assets)
  BY <1>6, <1>7 DEF RefreshesAssets
<1> QED BY <1>5, <1>7, <1>8 DEF Stamps, Past, old

LEMMA Written ==
  ASSUME CInv, NEW p \in Procs, Writes(p), manifest' # manifest
  PROVE  \/ manifest = NoProject /\ manifest' = NewManifest
         \/ /\ manifest \in Manifests /\ manifest' \in Manifests
            /\ Changes(manifest, manifest') /\ Past(manifest', now)
<1>1. my[p].m = manifest /\ TInv /\ now \in Nat /\ Past(manifest, now)
  BY WritesUnderLock DEF CInv, IInv, SnapshotIsCurrent, TInv, TypeOK, Dated
<1>2. \A why : ~Refuse(p, why) /\ \A kind, id : ~End(p, kind, id)
  BY DEF Refuse, End, Continue, shared
<1>3. CASE InitWrite(p)
  <2>1. manifest = NoProject
    BY <1>1, <1>3, MyType DEF InitWrite, Running, Knows
  <2>2. manifest' = NewManifest
    BY <1>3, CommitNew DEF InitWrite
  <2> QED BY <2>1, <2>2
<1>4. manifest \in Manifests \/ InitWrite(p)
  BY <1>1, MyType DEF Writes, AddWrite, ImportWriteJob, ImportEvaluation, VerifyStamp,
     Importing, Running, Knows, UnderLock
<1>5. CASE AddWrite(p)
  <2>1. PICK new \in Manifests, id \in Slugs :
           /\ Commit(p, new, "Added", id) /\ Registers(my[p].m, new)
           /\ \E a \in Assets : a.last_verified = 0 /\ new.assets = Append(my[p].m.assets, a)
    <3>1. \A id, path, hash, size : NewAsset(id, path, hash, size).last_verified = 0
      BY DEF NewAsset
    <3> QED BY <1>1, <1>2, <1>5, <3>1, AddRegisters
  <2>2. PICK a \in Assets : a.last_verified = 0 /\ new.assets = Append(my[p].m.assets, a)
    BY <2>1
  <2>3. my[p].m.assets \in Seq(Assets) /\ my[p].m \in Manifests
    BY <1>1, <1>4, <1>5, Parts DEF AddWrite, InitWrite, Running
  <2>4. new.assets = my[p].m.assets \o <<a>> /\ <<a>> \in Seq(Assets)
        /\ \A i \in DOMAIN <<a>> : <<a>>[i].last_verified = 0
    <3>1. \A s \in Seq(Assets) : Append(s, a) = s \o <<a>>
      OBVIOUS
    <3>2. <<a>> \in Seq(Assets) /\ \A i \in DOMAIN <<a>> : <<a>>[i] = a
      OBVIOUS
    <3> DEFINE one == <<a>>
               old == my[p].m.assets
    <3> HIDE DEF one, old
    <3>3. new.assets = old \o one
      BY <2>2, <2>3, <3>1 DEF one, old
    <3>4. one \in Seq(Assets) /\ \A i \in DOMAIN one : one[i].last_verified = 0
      BY <2>2, <3>2 DEF one
    <3> QED BY <3>3, <3>4 DEF one, old
  <2>5. Past(new, now)
    BY <1>1, <2>3, <2>4, PastAppend
  <2> QED BY <1>1, <2>1, <2>3, <2>5, CommitNew DEF Changes
<1>6. CASE ImportWriteJob(p)
  <2>1. PICK new \in Manifests, id \in Slugs :
           /\ Commit(p, new, "Imported", id) /\ ImportsJob(my[p].m, new)
           /\ new.assets = my[p].m.assets \o my[p].fresh
    BY <1>1, <1>6, JobWrites
  <2>2. /\ my[p].m \in Manifests /\ my[p].fresh \in Seq(Assets)
        /\ \A i \in DOMAIN my[p].fresh : my[p].fresh[i].last_verified = 0
    BY <1>1, <1>6, DecidingType DEF ImportWriteJob, Importing, ImportKnows, Registering
  <2>3. Past(new, now)
    BY <1>1, <2>1, <2>2, PastAppend
  <2> QED BY <1>1, <2>1, <2>2, <2>3, CommitNew DEF Changes
<1>7. CASE ImportEvaluation(p)
  <2>1. PICK new \in Manifests, id \in Slugs :
           /\ Commit(p, new, "EvaluationImported", id) /\ ImportsEvaluation(my[p].m, new)
           /\ new.assets = my[p].m.assets
    BY <1>1, <1>2, <1>7, EvaluationWrites
  <2>2. my[p].m \in Manifests
    BY <1>1, <1>4, <1>7 DEF ImportEvaluation, Importing, InitWrite, Running
  <2>3. Past(new, now)
    BY <1>1, <2>1, <2>2, NoProjectAssumption DEF Past
  <2> QED BY <1>1, <2>1, <2>2, <2>3, CommitNew DEF Changes
<1>8. CASE VerifyStamp(p)
  <2>1. PICK new \in Manifests :
           /\ Commit(p, new, Verdict(my[p]), None)
           /\ new.assets = StampAssets(p) /\ new.derivations = my[p].m.derivations
           /\ new.evaluations = my[p].m.evaluations
    BY <1>1, <1>2, <1>8, StampWrites
  <2>2. Stamps(my[p].m, new) /\ Past(new, now)
    BY <1>8, <2>1, StampsAre
  <2>3. my[p].m \in Manifests
    BY <1>1, <1>4, <1>8 DEF VerifyStamp, InitWrite, Running
  <2> QED BY <1>1, <2>1, <2>2, <2>3, CommitNew DEF Changes
<1> QED BY <1>3, <1>5, <1>6, <1>7, <1>8 DEF Writes

(***************************************************************************)
(* Every step keeps it all.                                                *)
(***************************************************************************)
LEMMA TickDated == ASSUME CInv, Edit \/ Relink \/ Tick PROVE Dated'
<1>1. /\ manifest' = manifest /\ cmd' = cmd /\ pc' = pc /\ my' = my
      /\ now \in Nat /\ (now' = now \/ now' = now + 1)
  BY DEF Edit, Relink, Tick, CInv, TInv, TypeOK
<1>2. ASSUME NEW m \in Manifests, NEW t \in Nat, Past(m, t) PROVE Past(m, t + 1)
  <2>1. \A i \in DOMAIN m.assets : m.assets[i] \in Assets
    BY Parts
  <2>2. \A i \in DOMAIN m.assets : m.assets[i].last_verified \in Nat
    BY <2>1 DEF Assets
  <2> QED BY <1>2, <2>2 DEF Past
<1>3. Past(manifest, now')
  <2>1. manifest \in Manifests \/ manifest = NoProject
    BY DEF CInv, TInv, TypeOK
  <2>2. Past(manifest, now)
    BY DEF CInv, Dated
  <2> QED BY <1>1, <1>2, <2>1, <2>2 DEF Past
<1>4. ASSUME NEW p \in Procs, HasRead(cmd[p], pc[p], my[p])
      PROVE  Past(my[p].m, my[p].time) /\ my[p].time <= now'
  <2>1. Past(my[p].m, my[p].time) /\ my[p].time <= now /\ my[p].time \in Nat
    BY <1>4, MyType DEF CInv, Dated, Locals
  <2> QED BY <1>1, <2>1
<1> QED BY <1>1, <1>3, <1>4 DEF Dated

\* The clock is read under the lock: what it stamps was not written later.
LEMMA ClockDated ==
  ASSUME CInv, NEW p \in Procs, Command(p) \/ AcquireFails(p) \/ Crash(p),
         HasRead(cmd[p], pc'[p], my'[p])
  PROVE  Past(my'[p].m, my'[p].time) /\ my'[p].time <= now
<1>1. my[p] \in Locals /\ pc \in [Procs -> Labels] /\ my \in [Procs -> Locals] /\ now \in Nat
      /\ Knows(cmd[p], pc[p], my[p])
  BY DEF CInv, TInv, TypeOK
<1>2. cmd[p].do = "verify" /\ pc'[p] = "write" /\ my'[p].time # 0
  BY DEF HasRead
<1>3. \A label, mine : Continue(p, label, mine) => pc'[p] = label /\ my'[p] = mine
  BY <1>1 DEF Continue
<1>4. \A kind, id : ~End(p, kind, id) /\ ~Refuse(p, kind) /\ \A new : ~Commit(p, new, kind, id)
  BY <1>1, <1>2 DEF End, Refuse, Continue, Commit
<1>5. ~(Acquire(p) \/ AcquireFails(p) \/ Return(p) \/ Crash(p))
  BY <1>1, <1>2, <1>4 DEF Acquire, AcquireFails, Return, Crash
<1>6. ~Load(p)
  BY <1>1, <1>2, <1>3, <1>4 DEF Load, Knows, VerifyKnows, Locals
<1>7. Verify(p)
  <2>1. ~(InitProject(p) \/ Show(p) \/ Add(p))
    BY <1>2 DEF InitProject, InitStart, InitExists, InitWrite, Show, ShowLoad, ShowPrint, Add,
       AddCheck, AddResolve, AddHash, AddWrite, Running
  <2>2. ~Import(p)
    BY <1>2 DEF Import, ImportBeforeLock, ImportCheck, ImportLocate, ImportRead,
       ImportResolveStem, ImportHashStem, ImportDecide, ImportInput, ImportStem,
       ImportWriteJob, ImportEvaluation, Importing, Running
  <2> QED BY <1>5, <1>6, <2>1, <2>2 DEF Command
<1>8. ~(VerifyLoad(p) \/ VerifyStat(p) \/ VerifyHash(p) \/ VerifyRecord(p) \/ VerifyReport(p))
  <2>1. \A mine : ~Continue(p, "check", mine) /\ ~Continue(p, "hash", mine)
                     /\ ~Continue(p, "lock", mine)
    BY <1>2, <1>3
  <2>2. ~VerifyLoad(p) /\ ~VerifyHash(p) /\ ~VerifyReport(p)
    BY <1>4, <2>1 DEF VerifyLoad, VerifyHash, VerifyReport
  <2>3. ~VerifyStat(p) /\ ~VerifyRecord(p)
    BY <1>4, <2>1 DEF VerifyStat, VerifyRecord
  <2> QED BY <2>2, <2>3
<1>9. VerifyClock(p)
  BY <1>4, <1>7, <1>8 DEF Verify, VerifyStamp
<1>10. my'[p] = [my[p] EXCEPT !.time = now] /\ pc[p] = "write"
  BY <1>3, <1>9 DEF VerifyClock, Running
<1>11. my[p].m = manifest /\ Past(manifest, now)
  BY <1>10 DEF CInv, IInv, SnapshotIsCurrent, UnderLock, Dated
<1> QED BY <1>1, <1>10, <1>11 DEF Locals

LEMMA NextCInv == CInv /\ [Next]_vars => CInv'
<1> SUFFICES ASSUME CInv, [Next]_vars PROVE CInv'
  OBVIOUS
<1>1. TInv' /\ IInv'
  BY NextTInv, NextIInv DEF CInv
<1>2. CASE UNCHANGED vars
  BY <1>1, <1>2 DEF vars, CInv, ManifestConsistent, Dated
<1>3. CASE Next
  <2>1. ManifestConsistent' /\ (manifest' # manifest => Past(manifest', now))
    <3>1. CASE manifest' = manifest
      BY <3>1 DEF CInv, ManifestConsistent
    <3>2. CASE manifest' # manifest
      <4>1. \/ manifest = NoProject /\ manifest' = NewManifest
            \/ /\ manifest \in Manifests /\ manifest' \in Manifests
               /\ Changes(manifest, manifest') /\ Past(manifest', now)
        BY <1>3, <3>2, WriteSteps, Written
      <4>2. Past(NewManifest, now)
        BY DEF Past, NewManifest
      <4> QED
        BY <4>1, <4>2, ChangesConsistent, NewManifestConsistent, NoProjectAssumption
        DEF CInv, ManifestConsistent
    <3> QED BY <3>1, <3>2
  <2>2. CASE Edit \/ Relink \/ Tick
    BY <1>1, <2>1, <2>2, TickDated DEF CInv
  <2>3. ASSUME NEW p \in Procs, Command(p) \/ AcquireFails(p) \/ Crash(p) PROVE Dated'
    <3>1. Moves(p)
      BY <2>3, StepMoves DEF CInv
    <3>2. Past(manifest', now')
      BY <2>1, <3>1 DEF Moves, CInv, Dated
    <3>3. ASSUME NEW q \in Procs, HasRead(cmd'[q], pc'[q], my'[q])
          PROVE  Past(my'[q].m, my'[q].time) /\ my'[q].time <= now'
      <4>1. CASE q = p
        BY <2>3, <3>1, <3>3, <4>1, ClockDated DEF Moves
      <4>2. CASE q # p
        BY <3>1, <3>3, <4>2 DEF Moves, CInv, Dated
      <4> QED BY <4>1, <4>2
    <3> QED BY <3>2, <3>3 DEF Dated
  <2>4. CASE Quiet
    BY <2>4, <1>2 DEF Quiet
  <2> QED BY <1>1, <1>3, <2>1, <2>2, <2>3, <2>4 DEF Next, CInv
<1> QED BY <1>2, <1>3

LEMMA AlwaysCInv == Spec => []CInv
BY InitCInv, NextCInv, PTL DEF Spec

(***************************************************************************)
(* Whatever the commands did and however they were interleaved or killed,  *)
(* ids, paths, job records and comparison records are unique and no entry  *)
(* names an asset that is not there (add, import, stamp_verified).         *)
(***************************************************************************)
THEOREM AlwaysConsistent == Spec => []ManifestConsistent
<1>1. CInv => ManifestConsistent
  BY DEF CInv
<1> QED BY <1>1, AlwaysCInv, PTL

(***************************************************************************)
(* No write loses or alters what another command recorded: each replaces   *)
(* the manifest that is in place, by one that extends it.                  *)
(***************************************************************************)
THEOREM NothingLost == Spec => NoLostUpdate
<1>1. CInv /\ [Next]_vars => [NothingIsLost]_vars
  <2> SUFFICES ASSUME CInv, Next, manifest # NoProject
               PROVE  manifest' # NoProject /\ Extends(manifest, manifest')
    BY DEF NothingIsLost
  <2>1. manifest \in Manifests
    BY DEF CInv, TInv, TypeOK
  <2>2. CASE manifest' = manifest
    BY <2>1, <2>2, ExtendsReflexive
  <2>3. CASE manifest' # manifest
    BY <2>1, <2>3, WriteSteps, Written, ChangesExtend, NoProjectAssumption
  <2> QED BY <2>2, <2>3
<1> QED BY <1>1, AlwaysCInv, PTL DEF Spec, NoLostUpdate

(***************************************************************************)
(* The refinement.                                                         *)
(***************************************************************************)
LEMMA SameManifests == Abstract!Manifests = Manifests
BY DEF Abstract!Manifests, Abstract!Assets, Abstract!Derivations, Abstract!Evaluations,
       Abstract!HashedRefs, Abstract!Hashes, Abstract!Sha256, Abstract!Slugs,
       Manifests, Assets, Derivations, Evaluations, HashedRefs, Hashes, Sha256, Slugs

LEMMA SameChanges ==
  ASSUME NEW m, NEW n
  PROVE  /\ Registers(m, n) => Abstract!Registers(m, n)
         /\ ImportsJob(m, n) => Abstract!ImportsJob(m, n)
         /\ ImportsEvaluation(m, n) => Abstract!ImportsEvaluation(m, n)
         /\ Stamps(m, n) => Abstract!Stamps(m, n)
<1>1. \A old, new : AppendsOne(old, new) => Abstract!AppendsOne(old, new)
  BY DEF AppendsOne, Abstract!AppendsOne, IsPrefix, Abstract!IsPrefix
<1>2. \A old, new : AppendsAssets(old, new) => Abstract!AppendsAssets(old, new)
  BY DEF AppendsAssets, Abstract!AppendsAssets, IsPrefix, Abstract!IsPrefix
<1>3. \A old, new : RefreshesAssets(old, new) => Abstract!RefreshesAssets(old, new)
  BY DEF RefreshesAssets, Abstract!RefreshesAssets, SameAsset, Abstract!SameAsset
<1>4. \A entries : Ids(entries) = Abstract!Ids(entries) /\ Last(entries) = Abstract!Last(entries)
  BY DEF Ids, Abstract!Ids, Last, Abstract!Last
<1>5. \A e, ids : /\ Links(e, ids) => Abstract!Links(e, ids)
                  /\ Compares(e, ids) => Abstract!Compares(e, ids)
  BY DEF Links, Abstract!Links, Compares, Abstract!Compares, Range, Abstract!Range
<1>6. Registers(m, n) => Abstract!Registers(m, n)
  BY <1>1, <1>2 DEF Registers, Abstract!Registers
<1>7. ImportsJob(m, n) => Abstract!ImportsJob(m, n)
  BY <1>1, <1>2, <1>4, <1>5 DEF ImportsJob, Abstract!ImportsJob
<1>8. ImportsEvaluation(m, n) => Abstract!ImportsEvaluation(m, n)
  BY <1>1, <1>4, <1>5 DEF ImportsEvaluation, Abstract!ImportsEvaluation
<1>9. Stamps(m, n) => Abstract!Stamps(m, n)
  BY <1>3 DEF Stamps, Abstract!Stamps
<1> QED BY <1>6, <1>7, <1>8, <1>9

LEMMA StepRefines ==
  ASSUME CInv, Next, manifest' # manifest PROVE Abstract!Next
<1>1. CASE manifest = NoProject /\ manifest' = NewManifest
  BY <1>1
  DEF Abstract!Next, Abstract!Create, Abstract!Exists, Abstract!NewManifest, NewManifest
<1>2. CASE /\ manifest \in Manifests /\ manifest' \in Manifests
           /\ Changes(manifest, manifest')
  <2>1. Abstract!Exists /\ manifest' \in Abstract!Manifests
    BY <1>2, SameManifests, NoProjectAssumption DEF Abstract!Exists
  <2> QED
    BY <1>2, <2>1, SameChanges
    DEF Changes, Abstract!Next, Abstract!Register, Abstract!ImportJob,
        Abstract!ImportEvaluation, Abstract!Stamp
<1> QED BY <1>1, <1>2, WriteSteps, Written

(***************************************************************************)
(* However many commands run at once, whoever reads the manifest sees what *)
(* Registry promises: it appears once and changes one whole command at a   *)
(* time, each change extending what was there when it was written.         *)
(***************************************************************************)
THEOREM Refinement == Spec => ImplementsRegistry
<1>1. Init => Abstract!Init
  BY DEF Init, Abstract!Init
<1>2. CInv /\ [Next]_vars => [Abstract!Next]_manifest
  BY StepRefines DEF vars
<1> QED BY <1>1, <1>2, AlwaysCInv, PTL DEF Spec, ImplementsRegistry, Abstract!Spec

(***************************************************************************)
(* What a command reports stays so.                                        *)
(***************************************************************************)
RecordedIn(m, mine) ==
    LET kind   == mine.result.kind
        id     == mine.result.id
        sha256 == Sha256(mine.bytes)
    IN  /\ kind = "Added" =>
              \E a \in Range(m.assets) : a.id = id /\ a.path = mine.path /\ a.sha256 = mine.hash
        /\ kind \in {"Imported", "AlreadyImported"} =>
              \E d \in Range(m.derivations) : d.id = id /\ d.job # None /\ d.job.sha256 = sha256
        /\ kind \in {"EvaluationImported", "EvaluationAlreadyImported"} =>
              \E e \in Range(m.evaluations) : e.id = id /\ e.record.sha256 = sha256

\* A success is of a manifest that holds it; verify and show work on one.
Reported(c, at, mine, m) ==
    /\ at \in {"return", "done"} /\ mine.result.kind \in Successes =>
          m \in Manifests /\ RecordedIn(m, mine)
    /\ c.do \in {"verify", "show"} /\ at \notin {"start", "return", "done", "crashed"} =>
          m # NoProject

RInv == CInv /\ \A p \in Procs : Reported(cmd[p], pc[p], my[p], manifest)

LEMMA RecordedGrows ==
  ASSUME NEW m \in Manifests, NEW n \in Manifests, Extends(m, n), NEW mine, RecordedIn(m, mine)
  PROVE  RecordedIn(n, mine)
<1>1. /\ m.assets \in Seq(Assets) /\ n.assets \in Seq(Assets)
      /\ m.derivations \in Seq(Derivations) /\ n.derivations \in Seq(Derivations)
      /\ m.evaluations \in Seq(Evaluations) /\ n.evaluations \in Seq(Evaluations)
  BY Parts
<1>2. ASSUME NEW a \in Range(m.assets)
      PROVE  \E b \in Range(n.assets) : b.id = a.id /\ b.path = a.path /\ b.sha256 = a.sha256
  <2>1. PICK i \in DOMAIN m.assets : a = m.assets[i]
    BY DEF Range
  <2>2. i \in DOMAIN n.assets
    BY <1>1 DEF Extends
  <2>3. SameAsset(a, n.assets[i]) /\ a \in Assets /\ n.assets[i] \in Assets
    BY <1>1, <2>1, <2>2 DEF Extends
  <2> QED BY <2>2, <2>3, SameAssetFields DEF Range
<1>3. Range(m.derivations) \subseteq Range(n.derivations)
  BY <1>1, PrefixEntries DEF Extends, Range
<1>4. Range(m.evaluations) \subseteq Range(n.evaluations)
  BY <1>1, PrefixEntries DEF Extends, Range
<1> QED BY <1>2, <1>3, <1>4 DEF RecordedIn

LEMMA ReportedGrows ==
  ASSUME CInv, Next, NEW c, NEW at, NEW mine, Reported(c, at, mine, manifest)
  PROVE  Reported(c, at, mine, manifest')
<1>1. CASE manifest' = manifest
  BY <1>1
<1>2. CASE manifest = NoProject /\ manifest' = NewManifest
  BY <1>2, NoProjectAssumption, NewManifestConsistent DEF Reported
<1>3. CASE /\ manifest \in Manifests /\ manifest' \in Manifests
           /\ Changes(manifest, manifest')
  BY <1>3, ChangesExtend, RecordedGrows, NoProjectAssumption DEF Reported
<1> QED BY <1>1, <1>2, <1>3, WriteSteps, Written

(***************************************************************************)
(* The building blocks of a command's own step.                            *)
(***************************************************************************)
OwnReported(p) == Reported(cmd[p], pc'[p], my'[p], manifest')

LEMMA ContinueReported ==
  ASSUME RInv, NEW p \in Procs, NEW label \in Labels \ {"return", "done", "crashed"}, NEW mine,
         Continue(p, label, mine),
         cmd[p].do \in {"verify", "show"} => manifest # NoProject
  PROVE  OwnReported(p)
BY DEF RInv, CInv, TInv, TypeOK, Continue, shared, OwnReported, Reported

LEMMA EndReported ==
  ASSUME RInv, NEW p \in Procs, NEW kind, NEW id, End(p, kind, id),
         kind \in Successes => manifest \in Manifests /\ RecordedIn(manifest, Answer(p, kind, id))
  PROVE  OwnReported(p)
<1>1. my[p] \in Locals
  BY MyType DEF RInv, CInv
<1>2. my'[p] = Answer(p, kind, id) /\ pc'[p] = "return" /\ manifest' = manifest
  BY DEF RInv, CInv, TInv, TypeOK, End, Continue, shared
<1>3. Answer(p, kind, id).result.kind = kind
  BY <1>1 DEF Answer, Locals
<1> QED BY <1>2, <1>3 DEF OwnReported, Reported

LEMMA RefuseReported ==
  ASSUME RInv, NEW p \in Procs, NEW why \in Refusals, Refuse(p, why) PROVE OwnReported(p)
<1>1. why \notin Successes
  BY DEF Refusals, Successes
<1> QED BY <1>1, EndReported DEF Refuse

LEMMA CommitReported ==
  ASSUME RInv, NEW p \in Procs, NEW new \in Manifests, NEW kind \in Successes, NEW id,
         Commit(p, new, kind, id), RecordedIn(new, Answer(p, kind, id))
  PROVE  OwnReported(p)
<1>1. CASE Refuse(p, "Io")
  BY <1>1, RefuseReported DEF Refusals
<1>2. CASE manifest' = new /\ pc' = [pc EXCEPT ![p] = "return"]
           /\ my' = [my EXCEPT ![p] = Answer(p, kind, id)]
  BY <1>2 DEF RInv, CInv, TInv, TypeOK, OwnReported, Reported
<1> QED BY <1>1, <1>2 DEF Commit

LEMMA AnswerIs ==
  ASSUME TInv, NEW p \in Procs, NEW kind, NEW id
  PROVE  LET mine == Answer(p, kind, id)
         IN  /\ mine.result.kind = kind /\ mine.result.id = id /\ mine.bytes = my[p].bytes
             /\ mine.path = my[p].path /\ mine.hash = my[p].hash
<1>1. my[p] \in Locals
  BY MyType
<1> QED BY <1>1 DEF Answer, Locals

LEMMA AppendRange ==
  ASSUME NEW T, NEW s \in Seq(T), NEW x \in T PROVE x \in Range(Append(s, x))
BY AppendType DEF Range

(***************************************************************************)
(* The steps.                                                              *)
(***************************************************************************)
LEMMA PlainReported ==
  ASSUME RInv, NEW p \in Procs,
         Acquire(p) \/ AcquireFails(p) \/ Load(p) \/ Return(p) \/ Crash(p)
  PROVE  OwnReported(p)
<1>1. Reported(cmd[p], pc[p], my[p], manifest) /\ pc \in [Procs -> Labels]
  BY DEF RInv, CInv, TInv, TypeOK
<1>2. CASE Acquire(p)
  BY <1>1, <1>2 DEF Acquire, OwnReported, Reported
<1>3. CASE AcquireFails(p)
  BY <1>3, RefuseReported DEF AcquireFails, Refusals
<1>4. CASE Load(p)
  <2>1. CASE manifest = NoProject
    BY <1>4, <2>1, RefuseReported DEF Load, Refusals
  <2>2. CASE manifest # NoProject
    BY <1>4, <2>2, ContinueReported DEF Load, Labels
  <2> QED BY <2>1, <2>2
<1>5. CASE Return(p)
  BY <1>1, <1>5 DEF Return, OwnReported, Reported
<1>6. CASE Crash(p)
  BY <1>1, <1>6 DEF Crash, OwnReported, Reported
<1> QED BY <1>2, <1>3, <1>4, <1>5, <1>6

LEMMA InitReported == ASSUME RInv, NEW p \in Procs, InitProject(p) PROVE OwnReported(p)
<1>1. cmd[p].do = "init" /\ TInv
  BY DEF RInv, CInv, InitProject, InitStart, InitExists, InitWrite, Running
<1>2. CASE InitStart(p) \/ InitExists(p)
  BY <1>1, <1>2, RefuseReported, ContinueReported DEF InitStart, InitExists, Refusals, Labels
<1>3. CASE InitWrite(p)
  <2>1. RecordedIn(NewManifest, Answer(p, "Created", None))
    BY <1>1, AnswerIs DEF RecordedIn
  <2> QED BY <1>3, <2>1, NewManifestConsistent, CommitReported DEF InitWrite, Successes
<1> QED BY <1>2, <1>3 DEF InitProject

LEMMA ShowReported == ASSUME RInv, NEW p \in Procs, Show(p) PROVE OwnReported(p)
<1>1. TInv /\ manifest \in Manifests \cup {NoProject}
  BY DEF RInv, CInv, TInv, TypeOK
<1>2. CASE ShowLoad(p)
  <2>1. CASE manifest = NoProject
    BY <1>2, <2>1, RefuseReported DEF ShowLoad, Refusals
  <2>2. CASE manifest # NoProject
    BY <1>2, <2>2, ContinueReported DEF ShowLoad, Labels
  <2> QED BY <2>1, <2>2
<1>3. CASE ShowPrint(p)
  <2>1. manifest \in Manifests
    BY <1>1, <1>3 DEF ShowPrint, Running, RInv, Reported
  <2>2. RecordedIn(manifest, Answer(p, "Shown", None))
    BY <1>1, AnswerIs DEF RecordedIn
  <2> QED BY <1>3, <2>1, <2>2, EndReported, RefuseReported DEF ShowPrint, Refusals
<1> QED BY <1>2, <1>3 DEF Show

LEMMA AddReported == ASSUME RInv, NEW p \in Procs, Add(p) PROVE OwnReported(p)
<1>1. cmd[p].do = "add" /\ TInv
  BY DEF RInv, CInv, Add, AddCheck, AddResolve, AddHash, AddWrite, Running
<1>2. CASE AddCheck(p)
  BY <1>1, <1>2, RefuseReported, ContinueReported DEF AddCheck, Refusals, Labels
<1>3. CASE AddResolve(p)
  BY <1>1, <1>3, RefuseReported, ContinueReported DEF AddResolve, Refusals, Labels
<1>4. CASE AddHash(p)
  BY <1>1, <1>4, RefuseReported, ContinueReported DEF AddHash, Refusals, Labels
<1>5. CASE AddWrite(p) /\ \A why \in Refusals : ~Refuse(p, why)
  <2>1. PICK new \in Manifests, id \in Slugs :
           /\ Commit(p, new, "Added", id)
           /\ \E a \in Assets : /\ new.assets = Append(my[p].m.assets, a)
                               /\ a = NewAsset(id, my[p].path, my[p].hash, my[p].size)
    BY <1>1, <1>5, AddRegisters
  <2>2. PICK a \in Assets : /\ new.assets = Append(my[p].m.assets, a)
                            /\ a = NewAsset(id, my[p].path, my[p].hash, my[p].size)
    BY <2>1
  <2>3. my[p].m.assets \in Seq(Assets)
    BY <1>1, <1>5, MyType, Parts DEF AddWrite, Running, Knows, UnderLock
  <2>4. /\ a \in Range(new.assets) /\ a.id = id /\ a.path = my[p].path
        /\ a.sha256 = my[p].hash
    BY <2>2, <2>3, AppendRange DEF NewAsset
  <2>5. RecordedIn(new, Answer(p, "Added", id))
    BY <1>1, <2>4, AnswerIs DEF RecordedIn
  <2> QED BY <2>1, <2>5, CommitReported DEF Successes
<1> QED BY <1>2, <1>3, <1>4, <1>5, RefuseReported DEF Add

LEMMA ImportGoesOn ==
  ASSUME NEW p \in Procs,
         \/ ImportBeforeLock(p) \/ ImportInput(p) \/ ImportStem(p)
         \/ ImportDecide(p) /\ JobsDone(p) = {}
  PROVE  \/ \E why \in Refusals : Refuse(p, why)
         \/ \E label \in Labels \ {"return", "done", "crashed"} : \E mine : Continue(p, label, mine)
<1>1. CASE ImportCheck(p) \/ ImportLocate(p)
  BY <1>1 DEF ImportCheck, ImportLocate, Refusals, Labels
<1>2. CASE ImportRead(p)
  <2>1. ASSUME NEW mine, NEW r, Dispatch(p, mine, r)
        PROVE  \/ \E why \in Refusals : Refuse(p, why)
               \/ Continue(p, "stem", mine) \/ Continue(p, "lock", mine)
    BY <2>1 DEF Dispatch, Refusals
  <2>2. \/ Refuse(p, "JobUnreadable") \/ \E mine, r : Dispatch(p, mine, r)
    BY <1>2 DEF ImportRead
  <2> QED BY <2>1, <2>2 DEF Refusals, Labels
<1>3. CASE ImportResolveStem(p)
  BY <1>3 DEF ImportResolveStem, Refusals, Labels
<1>4. CASE ImportHashStem(p)
  BY <1>4 DEF ImportHashStem, Refusals, Labels
<1>5. CASE ImportInput(p)
  BY <1>5 DEF ImportInput, Refusals, Labels
<1>6. CASE ImportStem(p)
  BY <1>6 DEF ImportStem, Refusals, Labels
<1>7. CASE ImportDecide(p) /\ JobsDone(p) = {}
  <2> DEFINE input == Record(p).input
  <2>1. CASE input \in Absolute
    BY <1>7, <2>1 DEF ImportDecide, Refusals, Labels
  <2>2. CASE input \notin Absolute /\ On(input) = Absent
    BY <1>7, <2>2 DEF ImportDecide, Refusals, Labels
  <2>3. CASE input \notin Absolute /\ On(input) # Absent
    BY <1>7, <2>3 DEF ImportDecide, Refusals, Labels
  <2> QED BY <2>1, <2>2, <2>3
<1> QED BY <1>1, <1>2, <1>3, <1>4, <1>5, <1>6, <1>7 DEF ImportBeforeLock

LEMMA ImportReported == ASSUME RInv, NEW p \in Procs, Import(p) PROVE OwnReported(p)
<1>1. TInv /\ (pc[p] \in UnderLock => my[p].m = manifest)
  BY DEF RInv, CInv, IInv, SnapshotIsCurrent
<1>2. cmd[p].do = "import"
  BY DEF Import, ImportBeforeLock, ImportCheck, ImportLocate, ImportRead, ImportResolveStem,
     ImportHashStem, ImportDecide, ImportInput, ImportStem, ImportWriteJob, ImportEvaluation,
     Importing, Running
<1>3. CASE \/ ImportBeforeLock(p) \/ ImportInput(p) \/ ImportStem(p)
           \/ ImportDecide(p) /\ JobsDone(p) = {}
  BY <1>2, <1>3, ImportGoesOn, RefuseReported, ContinueReported
<1>4. CASE ImportDecide(p) /\ JobsDone(p) # {}
  <2> DEFINE m == my[p].m
             d == m.derivations[Min(JobsDone(p))]
  <2>1. Running(p, "import", "decide") /\ End(p, "AlreadyImported", d.id)
    BY <1>4 DEF ImportDecide, Importing
  <2>2. m \in Manifests /\ m.derivations \in Seq(Derivations) /\ m = manifest
    BY <1>1, <2>1, DecidingType DEF Running, UnderLock
  <2>3. JobsDone(p) \in SUBSET DOMAIN m.derivations
    BY DEF JobsDone
  <2>4. Min(JobsDone(p)) \in JobsDone(p)
    BY <1>4, <2>2, <2>3, FirstOf
  <2>5. d \in Range(m.derivations) /\ d.job # None /\ d.job.sha256 = Sha256(my[p].bytes)
    BY <2>4 DEF JobsDone, RecordSha256, Range
  <2> HIDE DEF d
  <2>6. RecordedIn(manifest, Answer(p, "AlreadyImported", d.id))
    BY <1>1, <2>2, <2>5, AnswerIs DEF RecordedIn
  <2> QED BY <2>1, <2>2, <2>6, EndReported
<1>5. CASE ImportWriteJob(p)
  <2>1. PICK new \in Manifests, id \in Slugs :
           /\ Commit(p, new, "Imported", id)
           /\ \E d \in Derivations : /\ new.derivations = Append(my[p].m.derivations, d)
                                    /\ d.id = id /\ d.job = RecordRef(p) /\ d.job # None
    BY <1>1, <1>5, JobWrites
  <2>2. PICK d \in Derivations : /\ new.derivations = Append(my[p].m.derivations, d)
                                 /\ d.id = id /\ d.job = RecordRef(p) /\ d.job # None
    BY <2>1
  <2>3. my[p].m.derivations \in Seq(Derivations)
    BY <1>1, <1>5, DecidingType DEF ImportWriteJob, Importing
  <2>4. d \in Range(new.derivations) /\ d.job.sha256 = Sha256(my[p].bytes)
    BY <2>2, <2>3, AppendRange DEF RecordRef, RecordSha256
  <2>5. RecordedIn(new, Answer(p, "Imported", id))
    BY <1>1, <2>2, <2>4, AnswerIs DEF RecordedIn
  <2> QED BY <2>1, <2>5, CommitReported DEF Successes
<1>6. CASE ImportEvaluation(p)
  <2>1. Running(p, "import", "decide")
    BY <1>6 DEF ImportEvaluation, Importing
  <2>2. my[p].m = manifest /\ manifest \in Manifests /\ my[p].m.evaluations \in Seq(Evaluations)
    BY <1>1, <2>1, DecidingType DEF Running, UnderLock
  <2>3. ASSUME NEW e \in Evaluations, e \in Range(my[p].m.evaluations),
               e.record.sha256 = RecordSha256(p), End(p, "EvaluationAlreadyImported", e.id)
        PROVE  OwnReported(p)
    <3>1. RecordedIn(manifest, Answer(p, "EvaluationAlreadyImported", e.id))
      BY <1>1, <2>2, <2>3, AnswerIs DEF RecordedIn, RecordSha256
    <3> QED BY <2>2, <2>3, <3>1, EndReported
  <2>4. ASSUME NEW new \in Manifests, NEW id \in Slugs, Commit(p, new, "EvaluationImported", id),
               NEW e \in Evaluations, new.evaluations = Append(my[p].m.evaluations, e),
               e.id = id, e.record = RecordRef(p)
        PROVE  OwnReported(p)
    <3>1. e \in Range(new.evaluations) /\ e.record.sha256 = Sha256(my[p].bytes)
      BY <2>2, <2>4, AppendRange DEF RecordRef, RecordSha256
    <3>2. RecordedIn(new, Answer(p, "EvaluationImported", id))
      BY <1>1, <2>4, <3>1, AnswerIs DEF RecordedIn
    <3> QED BY <2>4, <3>2, CommitReported DEF Successes
  <2> QED BY <1>1, <1>6, <2>3, <2>4, EvaluationWrites, RefuseReported DEF Refusals
<1> QED BY <1>3, <1>4, <1>5, <1>6 DEF Import

LEMMA VerifyReported == ASSUME RInv, NEW p \in Procs, Verify(p) PROVE OwnReported(p)
<1>1. TInv /\ manifest \in Manifests \cup {NoProject} /\ Reported(cmd[p], pc[p], my[p], manifest)
  BY DEF RInv, CInv, TInv, TypeOK
<1>2. \A new : RecordedIn(new, Answer(p, Verdict(my[p]), None))
  <2>1. Verdict(my[p]) \in {"AllVerified", "NotAllVerified"}
    BY DEF Verdict
  <2> QED BY <1>1, <2>1, AnswerIs DEF RecordedIn
<1>3. CASE VerifyLoad(p)
  <2>1. CASE manifest = NoProject
    BY <1>3, <2>1, RefuseReported DEF VerifyLoad, Refusals
  <2>2. CASE manifest # NoProject
    BY <1>3, <2>2, ContinueReported DEF VerifyLoad, Labels
  <2> QED BY <2>1, <2>2
<1>4. ASSUME ~VerifyLoad(p) PROVE manifest \in Manifests
  BY <1>1, <1>4 DEF Verify, VerifyStat, VerifyHash, VerifyRecord, VerifyReport, VerifyClock,
     VerifyStamp, Running, Reported
<1>5. CASE VerifyStat(p) \/ VerifyHash(p)
  <2>1. manifest # NoProject
    BY <1>1, <1>5 DEF VerifyStat, VerifyHash, Running, Reported
  <2>2. CASE VerifyStat(p)
    BY <2>1, <2>2, RefuseReported, ContinueReported DEF VerifyStat, Labels, Refusals
  <2>3. CASE VerifyHash(p)
    BY <2>1, <2>3, RefuseReported, ContinueReported DEF VerifyHash, Labels, Refusals
  <2> QED BY <1>5, <2>2, <2>3
<1>6. CASE VerifyRecord(p) \/ VerifyClock(p)
  <2>1. manifest # NoProject
    BY <1>1, <1>6 DEF VerifyRecord, VerifyClock, Running, Reported
  <2>2. CASE VerifyRecord(p)
    BY <2>1, <2>2, RefuseReported, ContinueReported DEF VerifyRecord, Labels, Refusals
  <2>3. CASE VerifyClock(p)
    BY <2>1, <2>3, ContinueReported DEF VerifyClock, Labels
  <2> QED BY <1>6, <2>2, <2>3
<1>7. CASE VerifyReport(p)
  <2>1. manifest \in Manifests /\ manifest # NoProject
    BY <1>1, <1>7 DEF VerifyReport, Running, Reported
  <2> QED BY <1>2, <1>7, <2>1, ContinueReported, EndReported DEF VerifyReport, Labels
<1>8. CASE VerifyStamp(p)
  <2>1. manifest \in Manifests
    BY <1>1, <1>8 DEF VerifyStamp, Running, Reported
  <2> QED BY <1>1, <1>2, <1>8, <2>1, StampWrites, EndReported, CommitReported, VerdictKind
<1> QED BY <1>3, <1>5, <1>6, <1>7, <1>8 DEF Verify

LEMMA NextRInv == RInv /\ [Next]_vars => RInv'
<1> SUFFICES ASSUME RInv, [Next]_vars PROVE RInv'
  OBVIOUS
<1>1. CInv'
  BY NextCInv DEF RInv
<1>2. CASE UNCHANGED vars
  BY <1>1, <1>2 DEF vars, RInv
<1>3. CASE Next
  <2>1. \A q \in Procs : Reported(cmd[q], pc[q], my[q], manifest')
    BY <1>3, ReportedGrows DEF RInv
  <2>2. CASE Edit \/ Relink \/ Tick
    BY <1>1, <2>1, <2>2 DEF Edit, Relink, Tick, RInv
  <2>3. ASSUME NEW p \in Procs, Command(p) \/ AcquireFails(p) \/ Crash(p) PROVE RInv'
    <3>1. Moves(p)
      BY <2>3, StepMoves DEF RInv, CInv
    <3>2. OwnReported(p)
      BY <2>3, PlainReported, InitReported, AddReported, ImportReported, VerifyReported,
         ShowReported DEF Command
    <3> QED BY <1>1, <2>1, <3>1, <3>2 DEF Moves, OwnReported, RInv
  <2>4. CASE Quiet
    BY <1>2, <2>4 DEF Quiet
  <2> QED BY <1>3, <2>2, <2>3, <2>4 DEF Next
<1> QED BY <1>2, <1>3

LEMMA AlwaysRInv == Spec => []RInv
<1>1. Init => RInv
  BY InitCInv DEF Init, RInv, Reported
<1> QED BY <1>1, NextRInv, PTL DEF Spec

(***************************************************************************)
(* A success told to the user stays true while others write: the asset,    *)
(* derivation or evaluation it names is there, with the path and the hash  *)
(* the command had (AddOutcome, ImportOutcome).                            *)
(***************************************************************************)
THEOREM SuccessIsRecorded == Spec => []ReportedIsRecorded
<1>1. RInv => ReportedIsRecorded
  <2> SUFFICES ASSUME RInv, NEW p \in Procs, pc[p] = "done", my[p].result.kind \in Successes
               PROVE  manifest \in Manifests /\ RecordedIn(manifest, my[p])
    <3>1. ASSUME NEW p \in Procs, ExitsZero(p) PROVE my[p].result.kind \in Successes
      BY <3>1 DEF ExitsZero, InitSucceeds, AddSucceeds, ImportSucceeds, VerifySucceeds,
         ShowSucceeds, Successes
    <3>2. {"Added", "Imported", "AlreadyImported", "EvaluationImported",
           "EvaluationAlreadyImported"} \subseteq Successes
      BY DEF Successes
    <3> QED BY <3>1, <3>2, NoProjectAssumption
            DEF ReportedIsRecorded, RecordedIn, RecordSha256, Range
  <2> QED BY DEF RInv, Reported
<1> QED BY <1>1, AlwaysRInv, PTL

(***************************************************************************)
(* Refusals.  What a refusal says of the manifest was found true under the *)
(* lock, and nobody writes before the command that found it returns.       *)
(***************************************************************************)
Blaming == {"AlreadyExists", "DuplicatePath", "IdInUse", "UnknownAsset", "StemPathConflict"}
              \cup InputRefusals

\* No asset of the manifest read has the input's bytes.
InputIsNew(mine) == \A i \in DOMAIN mine.m.assets :
    mine.m.assets[i].sha256 # Evidence[mine.bytes].input_sha256

\* Answered under the lock, and true of this manifest.
Upheld(c, at, mine, m, held) ==
    /\ at = "inputhash" => InputIsNew(mine)
    /\ at = "return" /\ mine.result.kind \in Blaming => held /\ Justified(c, mine, m)

QInv == CInv /\ \A p \in Procs : Upheld(cmd[p], pc[p], my[p], manifest, lock = p)

OwnUpheld(p) == Upheld(cmd[p], pc'[p], my'[p], manifest', lock' = p)

LEMMA ContinueUpheld ==
  ASSUME TInv, NEW p \in Procs, NEW label, label # "return", NEW mine, Continue(p, label, mine),
         label = "inputhash" => InputIsNew(mine)
  PROVE  OwnUpheld(p)
BY DEF Continue, TInv, TypeOK, OwnUpheld, Upheld

\* An answer that blames nothing, or what is true.
LEMMA EndUpheld ==
  ASSUME TInv, NEW p \in Procs, NEW kind, NEW id, End(p, kind, id),
         kind \in Blaming => lock = p /\ Justified(cmd[p], Answer(p, kind, id), manifest)
  PROVE  OwnUpheld(p)
<1>1. /\ pc'[p] = "return" /\ my'[p] = Answer(p, kind, id)
      /\ manifest' = manifest /\ lock' = lock
  BY DEF End, Continue, shared, TInv, TypeOK
<1> QED BY <1>1, AnswerIs DEF OwnUpheld, Upheld

LEMMA CommitUpheld ==
  ASSUME TInv, NEW p \in Procs, NEW new, NEW kind \in Successes, NEW id, Commit(p, new, kind, id)
  PROVE  OwnUpheld(p)
<1>1. kind \notin Blaming /\ "Io" \notin Blaming
  BY DEF Blaming, InputRefusals, Successes
<1>2. CASE Refuse(p, "Io")
  BY <1>1, <1>2, EndUpheld DEF Refuse
<1>3. CASE /\ pc' = [pc EXCEPT ![p] = "return"]
           /\ my' = [my EXCEPT ![p] = Answer(p, kind, id)]
  BY <1>1, <1>3, AnswerIs DEF OwnUpheld, Upheld, TInv, TypeOK
<1> QED BY <1>2, <1>3 DEF Commit

\* A refusal that has nothing to do with the manifest.
LEMMA RefuseUpheld ==
  ASSUME TInv, NEW p \in Procs, NEW why, why \notin Blaming, Refuse(p, why) PROVE OwnUpheld(p)
BY EndUpheld DEF Refuse

\* What each refusal that blames the manifest has to show.
LEMMA JustifiedBy ==
  ASSUME NEW c, NEW mine, NEW m, NEW why, mine.result.kind = why
  PROVE  /\ why = "AlreadyExists" /\ m # NoProject => Justified(c, mine, m)
         /\ why = "DuplicatePath" /\ PathTaken(m.assets, mine.path) => Justified(c, mine, m)
         /\ why = "IdInUse" /\ c.id \in Ids(m.assets) => Justified(c, mine, m)
         /\ why = "UnknownAsset" /\ ~AllRegistered(Candidates(Evidence[mine.bytes]), m)
            => Justified(c, mine, m)
BY DEF Justified, InputRefusals

LEMMA InputJustifiedBy ==
  ASSUME NEW c, NEW mine, NEW m, mine.result.kind \in InputRefusals,
         \A i \in DOMAIN m.assets : m.assets[i].sha256 # Evidence[mine.bytes].input_sha256,
         mine.result.kind = "InputPathConflict" => PathTaken(m.assets, mine.path)
  PROVE  Justified(c, mine, m)
BY DEF Justified, InputRefusals

LEMMA StemJustifiedBy ==
  ASSUME NEW c, NEW mine, NEW m, mine.result.kind = "StemPathConflict",
         LET known == m.assets \o mine.fresh
         IN  \E i \in DOMAIN mine.stems, j \in DOMAIN known :
                /\ known[j].path = mine.stems[i].path
                /\ known[j].sha256 # mine.stems[i].sha256
  PROVE  Justified(c, mine, m)
BY DEF Justified, InputRefusals

\* A refusal under the lock that is true.
LEMMA BlameUpheld ==
  ASSUME TInv, NEW p \in Procs, NEW why, Refuse(p, why), lock = p,
         Justified(cmd[p], Answer(p, why, None), manifest)
  PROVE  OwnUpheld(p)
BY EndUpheld DEF Refuse

LEMMA PlainUpheld ==
  ASSUME QInv, NEW p \in Procs,
         Acquire(p) \/ AcquireFails(p) \/ Load(p) \/ Return(p) \/ Crash(p)
  PROVE  OwnUpheld(p)
<1>1. TInv /\ pc \in [Procs -> Labels]
  BY DEF QInv, CInv, TInv, TypeOK
<1>2. CASE Acquire(p) \/ Return(p) \/ Crash(p)
  BY <1>1, <1>2 DEF Acquire, Return, Crash, OwnUpheld, Upheld
<1>3. CASE AcquireFails(p) \/ Load(p)
  BY <1>1, <1>3, RefuseUpheld, ContinueUpheld DEF AcquireFails, Load, Blaming, InputRefusals
<1> QED BY <1>2, <1>3

LEMMA AddUpheld == ASSUME QInv, NEW p \in Procs, Add(p) PROVE OwnUpheld(p)
<1>1. TInv
  BY DEF QInv, CInv
<1>2. CASE AddCheck(p) \/ AddResolve(p) \/ AddHash(p)
  BY <1>1, <1>2, RefuseUpheld, ContinueUpheld
  DEF AddCheck, AddResolve, AddHash, Blaming, InputRefusals
<1>3. CASE AddWrite(p)
  <2>1. lock = p /\ my[p].m = manifest
    BY <1>3 DEF AddWrite, Running, QInv, CInv, IInv, SnapshotIsCurrent, UnderLock
  <2>2. CASE AddPathTaken(p) /\ Refuse(p, "DuplicatePath")
    <3> DEFINE mine == Answer(p, "DuplicatePath", None)
    <3>1. mine.result.kind = "DuplicatePath" /\ PathTaken(manifest.assets, mine.path)
      BY <1>1, <2>1, <2>2, AnswerIs DEF AddPathTaken, PathTaken
    <3> QED BY <1>1, <2>1, <2>2, <3>1, JustifiedBy, BlameUpheld
  <2>3. CASE cmd[p].id \in Ids(my[p].m.assets) /\ Refuse(p, "IdInUse")
    <3>1. Answer(p, "IdInUse", None).result.kind = "IdInUse"
      BY <1>1, AnswerIs
    <3> QED BY <1>1, <2>1, <2>3, <3>1, JustifiedBy, BlameUpheld
  <2>4. CASE Refuse(p, "InvalidSlug")
    BY <1>1, <2>4, RefuseUpheld DEF Blaming, InputRefusals
  <2>5. CASE \E new, id : Commit(p, new, "Added", id)
    BY <1>1, <2>5, CommitUpheld DEF Successes
  <2> QED BY <1>3, <2>2, <2>3, <2>4, <2>5 DEF AddWrite
<1> QED BY <1>2, <1>3 DEF Add

LEMMA ImportBeforeLockUpheld ==
  ASSUME QInv, NEW p \in Procs, ImportBeforeLock(p) PROVE OwnUpheld(p)
<1>1. TInv
  BY DEF QInv, CInv
<1>2. CASE ImportCheck(p) \/ ImportLocate(p)
  BY <1>1, <1>2, RefuseUpheld, ContinueUpheld
  DEF ImportCheck, ImportLocate, Blaming, InputRefusals
<1>3. CASE ImportRead(p)
  <2>1. ASSUME NEW mine, NEW r, Dispatch(p, mine, r) PROVE OwnUpheld(p)
    BY <1>1, <2>1, RefuseUpheld, ContinueUpheld DEF Dispatch, Blaming, InputRefusals
  <2>2. Refuse(p, "JobUnreadable") \/ \E mine, r : Dispatch(p, mine, r)
    BY <1>3 DEF ImportRead
  <2> QED BY <1>1, <2>1, <2>2, RefuseUpheld DEF Blaming, InputRefusals
<1>4. CASE ImportResolveStem(p)
  <2>1. \/ \E why \in {"StemMissing", "StemUnreadable", "StemOutsideRoot"} : Refuse(p, why)
        \/ \E label \in {"lock", "stemhash"} : \E mine : Continue(p, label, mine)
    BY <1>4 DEF ImportResolveStem, Importing, Running
  <2> QED BY <1>1, <2>1, RefuseUpheld, ContinueUpheld DEF Blaming, InputRefusals
<1>5. CASE ImportHashStem(p)
  BY <1>1, <1>5, RefuseUpheld, ContinueUpheld DEF ImportHashStem, Blaming, InputRefusals
<1> QED BY <1>2, <1>3, <1>4, <1>5 DEF ImportBeforeLock

LEMMA ImportDecideUpheld ==
  ASSUME QInv, NEW p \in Procs, ImportDecide(p) PROVE OwnUpheld(p)
<1> DEFINE m == my[p].m
           mine == [my[p] EXCEPT !.path = links[Record(p).input]]
<1>1. TInv /\ Importing(p, "job", "decide")
  BY DEF QInv, CInv, ImportDecide
<1>2. lock = p /\ m = manifest
  BY <1>1 DEF Importing, Running, QInv, CInv, IInv, SnapshotIsCurrent, UnderLock
<1>3. CASE JobsDone(p) # {}
  <2>1. \E id : End(p, "AlreadyImported", id)
    BY <1>3 DEF ImportDecide
  <2> QED BY <1>1, <2>1, EndUpheld DEF Blaming, InputRefusals
<1>4. CASE JobsDone(p) = {} /\ InputByHash(p) # {}
  BY <1>1, <1>4, ContinueUpheld DEF ImportDecide
<1>5. CASE JobsDone(p) = {} /\ InputByHash(p) = {}
  <2>1. \/ \E why \in InputRefusals \ {"InputPathConflict"} : Refuse(p, why)
        \/ Continue(p, "inputhash", mine)
    BY <1>5 DEF ImportDecide, InputRefusals
  <2>2. \A i \in DOMAIN manifest.assets : manifest.assets[i].sha256 # Record(p).input_sha256
    BY <1>2, <1>5 DEF InputByHash
  <2>3. ASSUME NEW why \in InputRefusals \ {"InputPathConflict"}, Refuse(p, why)
        PROVE  OwnUpheld(p)
    <3>1. Answer(p, why, None).result.kind = why /\ Evidence[Answer(p, why, None).bytes] = Record(p)
      BY <1>1, AnswerIs DEF Record
    <3>2. Justified(cmd[p], Answer(p, why, None), manifest)
      BY <2>2, <3>1, InputJustifiedBy
    <3> QED BY <1>1, <1>2, <2>3, <3>2, BlameUpheld
  <2>4. mine.m = my[p].m /\ mine.bytes = my[p].bytes
    BY <1>1, MyType DEF Locals
  <2>5. InputIsNew(mine)
    BY <1>5, <2>4 DEF InputIsNew, InputByHash, Record
  <2> HIDE DEF mine
  <2> QED BY <1>1, <2>1, <2>3, <2>5, ContinueUpheld
<1> QED BY <1>3, <1>4, <1>5

LEMMA ImportInputUpheld ==
  ASSUME QInv, NEW p \in Procs, ImportInput(p) PROVE OwnUpheld(p)
<1> DEFINE path == my[p].path
           assets == manifest.assets
<1>1. /\ TInv /\ Running(p, "import", "inputhash") /\ lock = p /\ my[p].m = manifest
  BY DEF QInv, CInv, ImportInput, Importing, Running, IInv, SnapshotIsCurrent, UnderLock
<1>2. \/ \E mine : Continue(p, "register", mine)
      \/ \E why \in InputRefusals :
            Refuse(p, why) /\ (why = "InputPathConflict" => PathTaken(assets, path))
  BY <1>1 DEF ImportInput, InputRefusals
<1>3. \A i \in DOMAIN assets : assets[i].sha256 # Record(p).input_sha256
  BY <1>1 DEF QInv, Upheld, InputIsNew, Record, Running
<1>4. ASSUME NEW why \in InputRefusals, Refuse(p, why),
             why = "InputPathConflict" => PathTaken(assets, path)
      PROVE  OwnUpheld(p)
  <2>1. LET mine == Answer(p, why, None)
        IN  mine.result.kind = why /\ Evidence[mine.bytes] = Record(p) /\ mine.path = path
    BY <1>1, AnswerIs DEF Record
  <2>2. Justified(cmd[p], Answer(p, why, None), manifest)
    BY <1>3, <1>4, <2>1, InputJustifiedBy
  <2> QED BY <1>1, <1>4, <2>2, BlameUpheld
<1> QED BY <1>1, <1>2, <1>4, ContinueUpheld

LEMMA ImportStemUpheld ==
  ASSUME QInv, NEW p \in Procs, ImportStem(p) PROVE OwnUpheld(p)
<1> DEFINE n    == Len(my[p].outputs) + 1
           stem == my[p].stems[n]
           same == {i \in DOMAIN Known(p) : Known(p)[i].path = stem.path}
           asset == NewAsset(Mint(BaseOf[stem.name], Taken(p)), stem.path, stem.sha256, stem.size)
           fresh == [my[p] EXCEPT !.fresh = Append(@, asset), !.outputs = Append(@, asset.id)]
           found == [my[p] EXCEPT !.outputs = Append(@, Known(p)[Min(same)].id)]
           mine == Answer(p, "StemPathConflict", None)
<1>0. Importing(p, "job", "register") /\ Len(my[p].outputs) < Len(my[p].stems)
  BY DEF ImportStem, Running, Importing
<1>1. /\ TInv /\ Running(p, "import", "register") /\ lock = p /\ my[p].m = manifest
      /\ Len(my[p].outputs) < Len(my[p].stems)
  BY <1>0 DEF QInv, CInv, Importing, Running, IInv, SnapshotIsCurrent, UnderLock
<1>2. \/ Continue(p, "register", fresh) \/ Continue(p, "register", found)
      \/ /\ same # {} /\ Known(p)[Min(same)].sha256 # stem.sha256
         /\ Refuse(p, "StemPathConflict")
  BY DEF ImportStem, Importing, Running
<1>3. CASE /\ same # {} /\ Known(p)[Min(same)].sha256 # stem.sha256
           /\ Refuse(p, "StemPathConflict")
  <2>1. /\ my[p].stems \in Seq(PreStems) /\ my[p].outputs \in Seq(Slugs)
        /\ my[p] \in Locals /\ Known(p) \in Seq(Assets)
    BY <1>1, DecidingType DEF Known
  <2>2. n \in DOMAIN my[p].stems
    <3>1. Len(my[p].outputs) \in Nat /\ DOMAIN my[p].stems = 1..Len(my[p].stems)
          /\ Len(my[p].stems) \in Nat
      BY <2>1
    <3> QED BY <1>1, <3>1
  <2>3. Min(same) \in same /\ Min(same) \in DOMAIN Known(p)
    <3>1. same \in SUBSET DOMAIN Known(p)
      OBVIOUS
    <3> HIDE DEF same
    <3> QED BY <1>3, <2>1, <3>1, FirstOf
  <2>4. /\ mine.result.kind = "StemPathConflict" /\ mine.stems = my[p].stems
        /\ manifest.assets \o mine.fresh = Known(p)
    BY <1>1, <2>1 DEF Answer, Locals, Known
  <2>5. Known(p)[Min(same)].path = stem.path
    BY <2>3
  <2> HIDE DEF mine, same, n
  <2>6. LET known == manifest.assets \o mine.fresh
        IN  \E i \in DOMAIN mine.stems, j \in DOMAIN known :
               /\ known[j].path = mine.stems[i].path
               /\ known[j].sha256 # mine.stems[i].sha256
    BY <1>3, <2>2, <2>3, <2>4, <2>5
  <2>7. Justified(cmd[p], mine, manifest)
    BY <2>4, <2>6, StemJustifiedBy
  <2> QED BY <1>1, <1>3, <2>7, BlameUpheld DEF mine
<1> HIDE DEF fresh, found
<1> QED BY <1>1, <1>2, <1>3, ContinueUpheld

LEMMA ImportUpheld == ASSUME QInv, NEW p \in Procs, Import(p) PROVE OwnUpheld(p)
<1>1. TInv
  BY DEF QInv, CInv
<1>2. CASE ImportWriteJob(p)
  BY <1>1, <1>2, CommitUpheld DEF ImportWriteJob, Successes
<1>3. CASE ImportEvaluation(p)
  <2>1. lock = p /\ my[p].m = manifest
    BY <1>3 DEF QInv, CInv, ImportEvaluation, Importing, Running, IInv, SnapshotIsCurrent,
       UnderLock
  <2>2. \/ \E id : End(p, "EvaluationAlreadyImported", id)
        \/ Refuse(p, "UnknownAsset") /\ ~AllRegistered(Candidates(Record(p)), manifest)
        \/ \E new, id : Commit(p, new, "EvaluationImported", id)
    BY <1>3, <2>1 DEF ImportEvaluation
  <2>3. CASE Refuse(p, "UnknownAsset") /\ ~AllRegistered(Candidates(Record(p)), manifest)
    <3>1. LET mine == Answer(p, "UnknownAsset", None)
          IN  mine.result.kind = "UnknownAsset" /\ Evidence[mine.bytes] = Record(p)
      BY <1>1, AnswerIs DEF Record
    <3>2. Justified(cmd[p], Answer(p, "UnknownAsset", None), manifest)
      BY <2>3, <3>1, JustifiedBy
    <3> QED BY <1>1, <2>1, <2>3, <3>2, BlameUpheld
  <2>4. CASE \E id : End(p, "EvaluationAlreadyImported", id)
    BY <1>1, <2>4, EndUpheld DEF Blaming, InputRefusals
  <2>5. CASE \E new, id : Commit(p, new, "EvaluationImported", id)
    BY <1>1, <2>5, CommitUpheld DEF Successes
  <2> QED BY <2>2, <2>3, <2>4, <2>5
<1> QED BY <1>2, <1>3, ImportBeforeLockUpheld, ImportDecideUpheld, ImportInputUpheld,
           ImportStemUpheld DEF Import

LEMMA OthersUpheld ==
  ASSUME QInv, NEW p \in Procs, InitProject(p) \/ Verify(p) \/ Show(p) PROVE OwnUpheld(p)
<1>1. TInv
  BY DEF QInv, CInv
<1>2. CASE InitStart(p) \/ InitWrite(p)
  BY <1>1, <1>2, RefuseUpheld, ContinueUpheld, CommitUpheld
  DEF InitStart, InitWrite, Blaming, InputRefusals, Successes
<1>3. CASE InitExists(p)
  <2>1. lock = p
    BY <1>3 DEF InitExists, Running, QInv, CInv, IInv, HoldsFromLoad
  <2>2. CASE manifest # NoProject /\ Refuse(p, "AlreadyExists")
    <3>1. Answer(p, "AlreadyExists", None).result.kind = "AlreadyExists"
      BY <1>1, AnswerIs
    <3> QED BY <1>1, <2>1, <2>2, <3>1, JustifiedBy, BlameUpheld
  <2> QED BY <1>1, <1>3, <2>2, ContinueUpheld DEF InitExists
<1>4. CASE Show(p)
  BY <1>1, <1>4, RefuseUpheld, EndUpheld, ContinueUpheld
  DEF Show, ShowLoad, ShowPrint, Blaming, InputRefusals
<1>5. CASE Verify(p)
  <2>1. Verdict(my[p]) \in Successes /\ Verdict(my[p]) \notin Blaming
    BY DEF Verdict, Successes, Blaming, InputRefusals
  <2>2. CASE VerifyLoad(p) \/ VerifyStat(p) \/ VerifyHash(p)
    BY <1>1, <2>2, RefuseUpheld, ContinueUpheld
    DEF VerifyLoad, VerifyStat, VerifyHash, Blaming, InputRefusals
  <2>3. CASE VerifyRecord(p)
    BY <1>1, <2>3, RefuseUpheld, ContinueUpheld DEF VerifyRecord, Blaming, InputRefusals
  <2>4. CASE VerifyReport(p) \/ VerifyClock(p)
    BY <1>1, <2>1, <2>4, EndUpheld, ContinueUpheld DEF VerifyReport, VerifyClock
  <2>5. CASE VerifyStamp(p)
    BY <1>1, <2>1, <2>5, EndUpheld, CommitUpheld DEF VerifyStamp
  <2> QED BY <1>5, <2>2, <2>3, <2>4, <2>5 DEF Verify
<1> QED BY <1>2, <1>3, <1>4, <1>5 DEF InitProject

LEMMA NextQInv == QInv /\ [Next]_vars => QInv'
<1> SUFFICES ASSUME QInv, [Next]_vars PROVE QInv'
  OBVIOUS
<1>1. CInv'
  BY NextCInv DEF QInv
<1>2. CASE UNCHANGED vars
  BY <1>1, <1>2 DEF vars, QInv
<1>3. CASE Edit \/ Relink \/ Tick
  BY <1>1, <1>3 DEF Edit, Relink, Tick, QInv
<1>4. ASSUME NEW p \in Procs, Command(p) \/ AcquireFails(p) \/ Crash(p) PROVE QInv'
  <2>1. Moves(p)
    BY <1>4, StepMoves DEF QInv, CInv
  <2>2. OwnUpheld(p)
    BY <1>4, PlainUpheld, AddUpheld, ImportUpheld, OthersUpheld DEF Command
  <2>3. manifest' = manifest \/ lock = p
    <3>1. CASE manifest' # manifest
      <4>1. Command(p)
        BY <1>4, <3>1 DEF AcquireFails, Crash, Refuse, End, Continue, shared
      <4>2. pc[p] \in UnderLock
        BY <3>1, <4>1, OnlyWrites, WritesUnderLock
      <4> QED BY <4>2 DEF QInv, CInv, IInv, HoldsFromLoad
    <3> QED BY <3>1
  <2>4. ASSUME NEW q \in Procs \ {p} PROVE Upheld(cmd'[q], pc'[q], my'[q], manifest', lock' = q)
    <3>1. cmd'[q] = cmd[q] /\ pc'[q] = pc[q] /\ my'[q] = my[q]
      BY <2>1, <2>4 DEF Moves
    <3>2. lock = q => lock' = q /\ manifest' = manifest
      BY <2>1, <2>3, <2>4, FreeAssumption DEF Moves
    <3>3. Upheld(cmd[q], pc[q], my[q], manifest, lock = q)
      BY <2>4 DEF QInv
    <3> QED BY <3>1, <3>2, <3>3 DEF Upheld
  <2> QED BY <1>1, <2>1, <2>2, <2>4 DEF Moves, OwnUpheld, QInv
<1>5. CASE Quiet
  BY <1>2, <1>5 DEF Quiet
<1> QED BY <1>2, <1>3, <1>4, <1>5 DEF Next

(***************************************************************************)
(* A refusal that names what the manifest has, or has not, is true of the  *)
(* manifest in place when the command returns, whatever the other commands *)
(* have written (init, add, import, import_evaluation).                    *)
(***************************************************************************)
THEOREM RefusalsAreTrue == Spec => []RefusalsAreCurrent
<1>1. Init => QInv
  BY InitCInv DEF Init, QInv, Upheld
<1>2. QInv => RefusalsAreCurrent
  <2> SUFFICES ASSUME QInv, NEW p \in Procs, pc[p] = "return" 
               PROVE  Justified(cmd[p], my[p], manifest)
    BY DEF RefusalsAreCurrent
  <2>1. CASE my[p].result.kind \in Blaming
    BY <2>1 DEF QInv, Upheld
  <2>2. CASE my[p].result.kind \notin Blaming
    BY <2>2 DEF Justified, Blaming, InputRefusals
  <2> QED BY <2>1, <2>2
<1> QED BY <1>1, <1>2, NextQInv, PTL DEF Spec
=============================================================================
