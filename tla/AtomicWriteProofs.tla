------------------------- MODULE AtomicWriteProofs --------------------------
(***************************************************************************)
(* write_atomic and the reads beside it, for any number of pieces, writes  *)
(* and readers, with kills and power losses anywhere.                      *)
(***************************************************************************)
EXTENDS AtomicWrite, TLAPS

\* The first n pieces of write v.
Cut(v, n) == [k \in 1..n |-> v]

\* All of inode i has reached the disk.
Synced(i) == onDisk.len[i] = Pieces

(***************************************************************************)
(* The inductive invariant.                                                *)
(***************************************************************************)
\* An inode holds pieces of its own write only, and the disk no more of it.
DataShape ==
    /\ data \in [Inodes -> Seq(Inodes)]
    /\ \A i \in Inodes : /\ data[i] = Cut(i, Len(data[i]))
                         /\ onDisk.len[i] <= Len(data[i])

\* What has the manifest's name, or may have it after a power loss, or is about
\* to get it, was synced before.
SyncedBeforeNamed ==
    Synced(target) /\ Synced(onDisk.target) /\ (pc = "rename" => Synced(writes))

\* Write number v ends as number v.
InOrder ==
    /\ ended \in Seq({"ok", "err", "died"})
    /\ Len(ended) = IF pc = "idle" THEN writes ELSE writes - 1
    /\ pc # "idle" => writes # 0

\* The number of a write that has not reported an error, and that will not: it is
\* over, or it is the one under way and its rename is behind it.
Unfailed(i) ==
    IF i <= Len(ended) THEN i # 0 => ended[i] # "err"
    ELSE i = writes /\ pc = "return"

\* A reader has an inode that is synced, and the first pieces of it.
ReaderShape ==
    \A r \in Readers :
        /\ reader[r] \in [inode : Inodes \cup {Closed}, got : Seq(Inodes)]
        /\ reader[r].inode # Closed =>
             /\ Synced(reader[r].inode)
             /\ Len(reader[r].got) <= Pieces
             /\ reader[r].got = Cut(reader[r].inode, Len(reader[r].got))

IInv ==
    /\ TypeOK /\ DataShape /\ SyncedBeforeNamed /\ InOrder
    /\ Unfailed(target) /\ Unfailed(onDisk.target)
    /\ DOMAIN reader = Readers /\ ReaderShape

(***************************************************************************)
(* Pieces of one write.                                                    *)
(***************************************************************************)
LEMMA CutLen ==
  ASSUME NEW v \in Inodes, NEW n \in Nat
  PROVE  Cut(v, n) \in Seq(Inodes) /\ Len(Cut(v, n)) = n
BY DEF Cut

LEMMA CutGrows ==
  ASSUME NEW v \in Inodes, NEW s \in Seq(Inodes), s = Cut(v, Len(s))
  PROVE  /\ Append(s, v) \in Seq(Inodes)
         /\ Len(Append(s, v)) = Len(s) + 1
         /\ Append(s, v) = Cut(v, Len(s) + 1)
<1>1. Append(s, v) \in Seq(Inodes) /\ Len(Append(s, v)) = Len(s) + 1
  OBVIOUS
<1>2. Cut(v, Len(s) + 1) \in Seq(Inodes) /\ Len(Cut(v, Len(s) + 1)) = Len(s) + 1
  BY CutLen
<1>3. ASSUME NEW k \in 1..(Len(s) + 1) PROVE Append(s, v)[k] = Cut(v, Len(s) + 1)[k]
  <2>1. s[k] = v \/ k = Len(s) + 1
    BY DEF Cut
  <2> QED BY <2>1 DEF Cut
<1> QED BY <1>1, <1>2, <1>3

LEMMA CutShrinks ==
  ASSUME NEW v \in Inodes, NEW s \in Seq(Inodes), s = Cut(v, Len(s)),
         NEW n \in 0..Len(s)
  PROVE  SubSeq(s, 1, n) = Cut(v, n) /\ Len(SubSeq(s, 1, n)) = n
<1>1. SubSeq(s, 1, n) \in Seq(Inodes) /\ Len(SubSeq(s, 1, n)) = n
  OBVIOUS
<1>2. Cut(v, n) \in Seq(Inodes) /\ Len(Cut(v, n)) = n
  BY CutLen
<1>3. ASSUME NEW k \in 1..n PROVE SubSeq(s, 1, n)[k] = Cut(v, n)[k]
  <2>1. s[k] = v
    BY DEF Cut
  <2> QED BY <2>1 DEF Cut
<1> QED BY <1>1, <1>2, <1>3

(***************************************************************************)
(* Initial states.                                                         *)
(***************************************************************************)
LEMMA InitIInv == Init => IInv
<1> SUFFICES ASSUME Init PROVE IInv
  OBVIOUS
<1> USE BoundsAssumption
<1>1. 0 \in Inodes /\ Pieces \in Nat
  BY DEF Inodes
<1>2. Whole(0) = Cut(0, Pieces) /\ <<>> \in Seq(Inodes)
  BY DEF Whole, Cut
<1>3. data \in [Inodes -> Seq(Inodes)] /\ \A i \in Inodes :
         data[i] = Cut(i, Len(data[i])) /\ Len(data[i]) \in 0..Pieces
  <2>1. ASSUME NEW i \in Inodes
        PROVE  /\ data[i] \in Seq(Inodes)
               /\ data[i] = Cut(i, Len(data[i])) /\ Len(data[i]) \in 0..Pieces
    <3>1. CASE i = 0
      BY <3>1, <1>1, <1>2, CutLen DEF Init
    <3>2. CASE i # 0
      <4>1. data[i] = <<>> /\ Len(<<>>) = 0
        BY <3>2 DEF Init
      <4>2. Cut(i, 0) \in Seq(Inodes) /\ Len(Cut(i, 0)) = 0
        BY CutLen
      <4>3. Cut(i, 0) = <<>>
        BY <4>2
      <4> QED BY <4>1, <4>3, <1>1
    <3> QED BY <3>1, <3>2
  <2> QED BY <2>1 DEF Init
<1>4. onDisk \in [target : Inodes, temps : SUBSET Inodes, len : [Inodes -> 0..Pieces]]
      /\ \A i \in Inodes : onDisk.len[i] = Len(data[i])
  BY <1>1, <1>3 DEF Init
<1>5. Len(data[0]) = Pieces
  BY <1>1, <1>2, CutLen DEF Init
<1>6. TypeOK
  BY <1>1, <1>3, <1>4 DEF Init, TypeOK
<1>7. DataShape
  BY <1>3, <1>4 DEF DataShape
<1>8. SyncedBeforeNamed
  BY <1>1, <1>4, <1>5 DEF Init, SyncedBeforeNamed, Synced
<1>9. InOrder /\ Unfailed(target) /\ Unfailed(onDisk.target)
  BY DEF Init, InOrder, Unfailed
<1>10. DOMAIN reader = Readers /\ ReaderShape
  BY DEF Init, ReaderShape, Idle, Closed
<1> QED BY <1>6, <1>7, <1>8, <1>9, <1>10 DEF IInv

(***************************************************************************)
(* The writer's steps.                                                     *)
(***************************************************************************)
\* A write that has not failed does not by being over: after its rename it can
\* only return or die.
LEMMA ReportsStay ==
  ASSUME IInv, NEW i \in Inodes, Unfailed(i), NEW result \in {"ok", "err", "died"},
         ended' = Append(ended, result), pc # "idle" \/ writes = Len(ended),
         pc = "return" => result # "err"
  PROVE  i <= Len(ended') /\ (i # 0 => ended'[i] # "err")
<1>1. ended \in Seq({"ok", "err", "died"}) /\ i \in Nat /\ writes \in Nat
  BY BoundsAssumption DEF IInv, TypeOK, InOrder, Inodes
<1>2. /\ Len(ended') = Len(ended) + 1 /\ ended'[Len(ended) + 1] = result
      /\ \A k \in 1..Len(ended) : ended'[k] = ended[k]
  BY <1>1
<1>3. CASE i <= Len(ended)
  BY <1>1, <1>2, <1>3 DEF Unfailed
<1>4. CASE ~(i <= Len(ended))
  <2>1. i = writes /\ pc = "return" /\ Len(ended) = writes - 1
    BY <1>4 DEF Unfailed, IInv, InOrder
  <2> QED BY <1>1, <1>2, <2>1
<1> QED BY <1>3, <1>4

\* A write that is over, with the manifest the file it was before the step.
Ends(result) ==
    /\ Finish(result) /\ UNCHANGED <<target, data, onDisk, reader>>
    /\ temps' \subseteq temps
    /\ \/ pc = "idle" /\ writes < MaxWrites /\ writes' = writes + 1
       \/ pc # "idle" /\ writes' = writes
    /\ pc = "return" => result # "err"

LEMMA EndIInv ==
  ASSUME IInv, NEW result \in {"ok", "err", "died"}, Ends(result) PROVE IInv'
<1> USE DEF Ends
<1>1. TypeOK'
  BY BoundsAssumption DEF IInv, TypeOK, Finish, Inodes
<1>2. DataShape' /\ SyncedBeforeNamed'
  BY DEF IInv, DataShape, SyncedBeforeNamed, Synced, Finish
<1>3. InOrder'
  BY BoundsAssumption DEF IInv, TypeOK, InOrder, Finish
<1>4. Unfailed(target)' /\ Unfailed(onDisk.target)'
  <2>1. target \in Inodes /\ onDisk.target \in Inodes
    BY DEF IInv, TypeOK
  <2>2. ended' = Append(ended, result) /\ (pc # "idle" \/ writes = Len(ended))
    BY DEF IInv, InOrder, Finish
  <2> QED BY <2>1, <2>2, ReportsStay DEF IInv, Unfailed
<1>5. DOMAIN reader' = Readers /\ ReaderShape'
  BY DEF IInv, ReaderShape, Synced
<1> QED BY <1>1, <1>2, <1>3, <1>4, <1>5 DEF IInv

LEMMA CreateIInv == ASSUME IInv, Create PROVE IInv'
<1>1. TypeOK'
  BY BoundsAssumption DEF IInv, TypeOK, Create, Inodes
<1>2. DataShape' /\ SyncedBeforeNamed'
  BY DEF IInv, DataShape, SyncedBeforeNamed, Synced, Create
<1>3. InOrder'
  BY BoundsAssumption DEF IInv, TypeOK, InOrder, Create
<1>4. Unfailed(target)' /\ Unfailed(onDisk.target)'
  BY DEF IInv, Create, Unfailed
<1>5. DOMAIN reader' = Readers /\ ReaderShape'
  BY DEF IInv, ReaderShape, Synced, Create
<1> QED BY <1>1, <1>2, <1>3, <1>4, <1>5 DEF IInv

LEMMA WritePieceIInv == ASSUME IInv, WritePiece PROVE IInv'
<1>1. writes \in Inodes /\ data[writes] \in Seq(Inodes) /\ data[writes] = Cut(writes, Len(data[writes]))
  BY DEF IInv, TypeOK, DataShape, Inodes
<1>2. /\ data'[writes] = Append(data[writes], writes)
      /\ \A i \in Inodes \ {writes} : data'[i] = data[i]
      /\ DOMAIN data' = Inodes
      /\ data' = [i \in Inodes |-> data'[i]]
  BY <1>1 DEF WritePiece, IInv, DataShape
<1>3. /\ data'[writes] \in Seq(Inodes) /\ data'[writes] = Cut(writes, Len(data'[writes]))
      /\ Len(data'[writes]) = Len(data[writes]) + 1
  BY <1>1, <1>2, CutGrows
<1>4. Len(data[writes]) \in 0..Pieces /\ Len(data[writes]) < Pieces
  BY <1>1 DEF WritePiece, IInv, TypeOK
<1>5. ASSUME NEW i \in Inodes PROVE Len(data'[i]) \in 0..Pieces /\ Len(data[i]) <= Len(data'[i])
  <2>1. Len(data[i]) \in 0..Pieces
    BY DEF IInv, TypeOK
  <2>2. CASE i = writes
    BY <2>1, <2>2, <1>3, <1>4, BoundsAssumption
  <2>3. CASE i # writes
    BY <2>1, <2>3, <1>2
  <2> QED BY <2>2, <2>3
<1>6. TypeOK'
  BY <1>5 DEF IInv, TypeOK, WritePiece
<1>7. DataShape'
  <2>1. \A i \in Inodes : data'[i] \in Seq(Inodes) /\ data'[i] = Cut(i, Len(data'[i]))
    BY <1>2, <1>3 DEF IInv, DataShape
  <2>2. \A i \in Inodes : onDisk'.len[i] <= Len(data'[i])
    <3> SUFFICES ASSUME NEW i \in Inodes PROVE onDisk.len[i] <= Len(data'[i])
      BY DEF WritePiece
    <3>1. onDisk.len[i] \in Int /\ Len(data[i]) \in Int /\ Len(data'[i]) \in Int
      BY <1>5 DEF IInv, TypeOK
    <3> QED BY <3>1, <1>5 DEF IInv, DataShape
  <2>3. data' \in [Inodes -> Seq(Inodes)]
    BY <1>2, <2>1
  <2> QED BY <2>1, <2>2, <2>3 DEF DataShape
<1>8. SyncedBeforeNamed' /\ InOrder' /\ Unfailed(target)' /\ Unfailed(onDisk.target)'
  BY DEF IInv, SyncedBeforeNamed, Synced, InOrder, Unfailed, WritePiece
<1>9. DOMAIN reader' = Readers /\ ReaderShape'
  BY DEF IInv, ReaderShape, Synced, WritePiece
<1> QED BY <1>6, <1>7, <1>8, <1>9 DEF IInv

\* What was synced stays synced: the disk only ever gets more of an inode.
LEMMA SyncIInv == ASSUME IInv, Sync PROVE IInv'
<1> USE BoundsAssumption
<1>1. writes \in Inodes /\ onDisk.len \in [Inodes -> 0..Pieces] /\ DOMAIN onDisk = {"target", "temps", "len"}
  BY DEF IInv, TypeOK, Inodes
<1>2. /\ onDisk'.target = onDisk.target /\ onDisk'.temps = onDisk.temps
      /\ onDisk'.len = [onDisk.len EXCEPT ![writes] = Pieces]
      /\ onDisk' \in [target : Inodes, temps : SUBSET Inodes, len : [Inodes -> 0..Pieces]]
  BY <1>1 DEF Sync, IInv, TypeOK
<1>3. Synced(writes)' /\ \A i \in Inodes : Synced(i) => Synced(i)'
  BY <1>1, <1>2 DEF Synced, Sync
<1>4. TypeOK'
  BY <1>2 DEF Sync, IInv, TypeOK
<1>5. DataShape'
  BY <1>1, <1>2 DEF Sync, IInv, TypeOK, DataShape
<1>6. SyncedBeforeNamed'
  BY <1>2, <1>3 DEF Sync, IInv, TypeOK, SyncedBeforeNamed, Synced
<1>7. InOrder' /\ Unfailed(target)' /\ Unfailed(onDisk.target)'
  BY <1>2 DEF Sync, IInv, InOrder, Unfailed
<1>8. DOMAIN reader' = Readers /\ ReaderShape'
  BY <1>3 DEF Sync, IInv, ReaderShape, Synced
<1> QED BY <1>4, <1>5, <1>6, <1>7, <1>8 DEF IInv

\* The rename: the temp file is whole on disk, and has nothing left to fail at.
LEMMA RenameIInv == ASSUME IInv, Rename PROVE IInv'
<1>1. writes \in Inodes /\ target' = writes /\ writes \in Nat
  BY BoundsAssumption DEF IInv, TypeOK, Rename, Inodes
<1>2. TypeOK' /\ DataShape' /\ SyncedBeforeNamed'
  BY <1>1 DEF IInv, TypeOK, DataShape, SyncedBeforeNamed, Synced, Rename
<1>3. Len(ended) = writes - 1
  BY DEF IInv, InOrder, Rename
<1>4. InOrder' /\ Unfailed(target)'
  BY <1>1, <1>3 DEF IInv, InOrder, Unfailed, Rename
<1>5. Unfailed(onDisk.target)'
  BY DEF IInv, Rename, Unfailed
<1>6. DOMAIN reader' = Readers /\ ReaderShape'
  BY DEF IInv, ReaderShape, Synced, Rename
<1> QED BY <1>2, <1>4, <1>5, <1>6 DEF IInv

(***************************************************************************)
(* The machine's steps and the reader's.                                   *)
(***************************************************************************)
LEMMA WriteBackIInv == ASSUME IInv, WriteBack PROVE IInv'
<1> USE BoundsAssumption
<1>1. /\ DOMAIN onDisk = {"target", "temps", "len"} /\ onDisk.len \in [Inodes -> 0..Pieces]
      /\ \A i \in Inodes : Len(data[i]) \in 0..Pieces
  BY DEF IInv, TypeOK
<1>2. CASE \E i \in Inodes : onDisk' = [onDisk EXCEPT !.len[i] = Len(data[i])]
  <2>1. PICK i \in Inodes : onDisk' = [onDisk EXCEPT !.len[i] = Len(data[i])]
    BY <1>2
  <2>2. /\ onDisk'.target = onDisk.target /\ onDisk'.temps = onDisk.temps
        /\ onDisk'.len = [onDisk.len EXCEPT ![i] = Len(data[i])]
        /\ onDisk' \in [target : Inodes, temps : SUBSET Inodes, len : [Inodes -> 0..Pieces]]
    BY <2>1, <1>1 DEF IInv, TypeOK
  <2>3. \A j \in Inodes : onDisk'.len[j] = (IF j = i THEN Len(data[j]) ELSE onDisk.len[j])
    BY <2>2, <1>1
  <2>4. ASSUME NEW j \in Inodes, Synced(j) PROVE Synced(j)'
    <3>1. Len(data[j]) = Pieces
      BY <2>4, <1>1 DEF Synced, IInv, DataShape
    <3> QED BY <2>4, <2>3, <3>1 DEF Synced
  <2>5. TypeOK' /\ DataShape'
    BY <2>2, <2>3, <1>1 DEF WriteBack, IInv, TypeOK, DataShape
  <2>6. SyncedBeforeNamed' /\ InOrder' /\ Unfailed(target)' /\ Unfailed(onDisk.target)'
    <3>1. target \in Inodes /\ onDisk.target \in Inodes /\ writes \in Inodes
      BY DEF IInv, TypeOK, Inodes
    <3> QED BY <3>1, <2>2, <2>4 DEF WriteBack, IInv, SyncedBeforeNamed, InOrder, Unfailed, Synced
  <2>7. DOMAIN reader' = Readers /\ ReaderShape'
    BY <2>4 DEF WriteBack, IInv, ReaderShape, Synced
  <2> QED BY <2>5, <2>6, <2>7 DEF IInv
<1>3. CASE onDisk' = [onDisk EXCEPT !.target = target, !.temps = temps]
  <2>1. /\ onDisk'.target = target /\ onDisk'.temps = temps /\ onDisk'.len = onDisk.len
        /\ onDisk' \in [target : Inodes, temps : SUBSET Inodes, len : [Inodes -> 0..Pieces]]
    BY <1>1, <1>3 DEF IInv, TypeOK
  <2>2. TypeOK' /\ DataShape'
    BY <2>1 DEF WriteBack, IInv, TypeOK, DataShape
  <2>3. SyncedBeforeNamed' /\ InOrder' /\ Unfailed(target)' /\ Unfailed(onDisk.target)'
    BY <2>1 DEF WriteBack, IInv, SyncedBeforeNamed, InOrder, Unfailed, Synced
  <2>4. DOMAIN reader' = Readers /\ ReaderShape'
    BY <2>1 DEF WriteBack, IInv, ReaderShape, Synced
  <2> QED BY <2>2, <2>3, <2>4 DEF IInv
<1> QED BY <1>2, <1>3 DEF WriteBack

\* The power goes: what is left of an inode is its first pieces, and all of one
\* that was synced.
LEMMA PowerLossIInv == ASSUME IInv, PowerLoss PROVE IInv'
<1> USE BoundsAssumption
<1>1. /\ onDisk.len \in [Inodes -> 0..Pieces] /\ onDisk.target \in Inodes
      /\ onDisk.temps \subseteq Inodes
  BY DEF IInv, TypeOK
<1>2. ASSUME NEW i \in Inodes
      PROVE  /\ data'[i] = Cut(i, onDisk.len[i]) /\ data'[i] \in Seq(Inodes)
             /\ Len(data'[i]) = onDisk.len[i]
  <2>1. data[i] \in Seq(Inodes) /\ data[i] = Cut(i, Len(data[i])) /\ onDisk.len[i] \in 0..Len(data[i])
    BY <1>1 DEF IInv, DataShape
  <2>2. data'[i] = SubSeq(data[i], 1, onDisk.len[i])
    BY DEF PowerLoss
  <2>3. data'[i] = Cut(i, onDisk.len[i]) /\ Len(data'[i]) = onDisk.len[i]
    BY <2>1, <2>2, CutShrinks
  <2> QED BY <2>3, <1>1, CutLen
<1>3. TypeOK'
  BY <1>1, <1>2 DEF PowerLoss, IInv, TypeOK
<1>4. DataShape'
  <2>1. data' \in [Inodes -> Seq(Inodes)]
    BY <1>2 DEF PowerLoss
  <2> QED BY <2>1, <1>1, <1>2 DEF PowerLoss, DataShape
<1>5. SyncedBeforeNamed'
  BY DEF PowerLoss, IInv, SyncedBeforeNamed, Synced
<1>6. InOrder' /\ Unfailed(target)' /\ Unfailed(onDisk.target)'
  <2>1. CASE pc = "idle"
    BY <2>1 DEF PowerLoss, IInv, InOrder, Unfailed
  <2>2. CASE pc # "idle"
    <3>1. InOrder'
      BY <2>2 DEF PowerLoss, IInv, TypeOK, InOrder
    <3>2. Unfailed(onDisk.target)'
      BY <2>2, <1>1, ReportsStay DEF PowerLoss, IInv, Unfailed
    <3> QED BY <3>1, <3>2 DEF PowerLoss, Unfailed
  <2> QED BY <2>1, <2>2
<1>7. DOMAIN reader' = Readers /\ ReaderShape'
  BY DEF PowerLoss, ReaderShape, Idle, Closed
<1> QED BY <1>3, <1>4, <1>5, <1>6, <1>7 DEF IInv

\* A reader's step, to a file that is synced and the first pieces of it.
LEMMA ReaderIInv ==
  ASSUME IInv, NEW r \in Readers, NEW i \in Inodes \cup {Closed}, NEW got \in Seq(Inodes),
         reader' = [reader EXCEPT ![r] = [inode |-> i, got |-> got]],
         UNCHANGED <<target, temps, data, onDisk, writes, pc, ended>>,
         i # Closed => Synced(i) /\ Len(got) <= Pieces /\ got = Cut(i, Len(got))
  PROVE  IInv'
<1>1. TypeOK' /\ DataShape' /\ SyncedBeforeNamed' /\ InOrder'
  BY DEF IInv, TypeOK, DataShape, SyncedBeforeNamed, Synced, InOrder
<1>2. Unfailed(target)' /\ Unfailed(onDisk.target)'
  BY DEF IInv, Unfailed
<1>3. DOMAIN reader' = Readers /\ reader'[r] = [inode |-> i, got |-> got]
      /\ \A q \in Readers \ {r} : reader'[q] = reader[q]
  BY DEF IInv
<1>4. ReaderShape'
  BY <1>3 DEF IInv, ReaderShape, Synced
<1> QED BY <1>1, <1>2, <1>3, <1>4 DEF IInv

LEMMA ReadOpenIInv == ASSUME IInv, NEW r \in Readers, ReadOpen(r) PROVE IInv'
<1>1. target \in Inodes /\ Synced(target) /\ <<>> \in Seq(Inodes) /\ Len(<<>>) = 0
  BY DEF IInv, TypeOK, SyncedBeforeNamed
<1>2. Cut(target, 0) \in Seq(Inodes) /\ Len(Cut(target, 0)) = 0
  BY <1>1, CutLen
<1>3. <<>> = Cut(target, 0) /\ 0 <= Pieces
  BY <1>2, BoundsAssumption
<1>4. reader' = [reader EXCEPT ![r] = [inode |-> target, got |-> <<>>]]
      /\ UNCHANGED <<target, temps, data, onDisk, writes, pc, ended>>
  BY DEF ReadOpen
<1> QED BY <1>1, <1>3, <1>4, ReaderIInv

LEMMA ReadPieceIInv == ASSUME IInv, NEW r \in Readers, ReadPiece(r) PROVE IInv'
<1> DEFINE i == reader[r].inode
           got == reader[r].got
<1>1. i \in Inodes /\ got \in Seq(Inodes) /\ Synced(i) /\ got = Cut(i, Len(got))
      /\ Len(got) <= Pieces /\ reader[r] = [inode |-> i, got |-> got]
  BY DEF IInv, ReaderShape, ReadPiece
<1>2. Len(data[i]) = Pieces /\ data[i] = Cut(i, Pieces)
  BY <1>1, BoundsAssumption DEF IInv, TypeOK, DataShape, Synced
<1>3. Len(got) < Pieces /\ data[i][Len(got) + 1] = i
  BY <1>1, <1>2, BoundsAssumption DEF ReadPiece, AtEnd, Cut
<1>4. reader' = [reader EXCEPT ![r] = [inode |-> i, got |-> Append(got, i)]]
  <2>1. reader' = [reader EXCEPT ![r] = [reader[r] EXCEPT !.got = Append(got, data[i][Len(got) + 1])]]
    BY DEF ReadPiece
  <2>2. [reader[r] EXCEPT !.got = Append(got, i)] = [inode |-> i, got |-> Append(got, i)]
    BY <1>1
  <2> QED BY <2>1, <2>2, <1>3
<1>5. Append(got, i) \in Seq(Inodes) /\ Len(Append(got, i)) = Len(got) + 1
      /\ Append(got, i) = Cut(i, Len(got) + 1)
  BY <1>1, CutGrows
<1>6. Len(Append(got, i)) <= Pieces
  BY <1>1, <1>3, <1>5, BoundsAssumption
<1>7. UNCHANGED <<target, temps, data, onDisk, writes, pc, ended>>
  BY DEF ReadPiece
<1> HIDE DEF i, got
<1> QED BY <1>1, <1>4, <1>5, <1>6, <1>7, ReaderIInv

LEMMA ReadCloseIInv == ASSUME IInv, NEW r \in Readers, ReadClose(r) PROVE IInv'
<1>1. <<>> \in Seq(Inodes)
  OBVIOUS
<1>2. reader' = [reader EXCEPT ![r] = [inode |-> Closed, got |-> <<>>]]
      /\ UNCHANGED <<target, temps, data, onDisk, writes, pc, ended>>
  BY DEF ReadClose, Idle
<1>3. Closed \in Inodes \cup {Closed}
  OBVIOUS
<1> QED BY <1>1, <1>2, <1>3, ReaderIInv

LEMMA NextIInv == IInv /\ [Next]_vars => IInv'
<1> SUFFICES ASSUME IInv, [Next]_vars PROVE IInv'
  OBVIOUS
<1>1. CASE UNCHANGED vars
  BY <1>1 DEF vars, IInv, TypeOK, DataShape, SyncedBeforeNamed, Synced, InOrder, Unfailed, ReaderShape
<1>2. CASE CreateFails \/ WriteFails \/ RenameFails \/ Return \/ Kill
  <2>1. Ends("err") \/ Ends("ok") \/ Ends("died")
    BY <1>2 DEF Ends, CreateFails, WriteFails, RenameFails, Return, Kill, Finish
  <2> QED BY <2>1, EndIInv
<1> QED BY <1>1, <1>2, CreateIInv, WritePieceIInv, SyncIInv, RenameIInv, WriteBackIInv,
           PowerLossIInv, ReadOpenIInv, ReadPieceIInv, ReadCloseIInv DEF Next

(***************************************************************************)
(* The theorems.                                                           *)
(***************************************************************************)
LEMMA InductiveInvariant == Spec => []IInv
BY InitIInv, NextIInv, PTL DEF Spec

\* The inodes, the directory and what is on disk of them are what they should
\* be, at every step of write_atomic and of load_manifest's read.
THEOREM TypeCorrect == Spec => []TypeOK
<1>1. IInv => TypeOK
  BY DEF IInv
<1> QED BY <1>1, InductiveInvariant, PTL

\* Whenever the power goes, uncompose.project.json is a whole manifest, because
\* write_atomic syncs the temp file before it renames it.
THEOREM AlwaysWhole == Spec => []NeverTruncated
<1>1. IInv => NeverTruncated
  <2> SUFFICES ASSUME IInv PROVE NeverTruncated
    OBVIOUS
  <2> USE BoundsAssumption
  <2>1. target \in Inodes /\ onDisk.target \in Inodes
    BY DEF IInv, TypeOK
  <2>2. ASSUME NEW i \in Inodes, Synced(i)
        PROVE  data[i] = Whole(i) /\ SubSeq(data[i], 1, onDisk.len[i]) = Whole(i)
    <3>1. data[i] \in Seq(Inodes) /\ data[i] = Cut(i, Pieces) /\ Len(data[i]) = Pieces
      BY <2>2 DEF IInv, TypeOK, DataShape, Synced
    <3>2. SubSeq(data[i], 1, Pieces) = Cut(i, Pieces)
      BY <3>1, CutShrinks
    <3> QED BY <2>2, <3>1, <3>2 DEF Synced, Whole, Cut
  <2> QED BY <2>1, <2>2 DEF IInv, SyncedBeforeNamed, NeverTruncated
<1> QED BY <1>1, InductiveInvariant, PTL

\* load_manifest reads one whole manifest, old or new, however many renames
\* happen while it reads.
THEOREM ReadersSeeWhole == Spec => []ReadsAreWhole
<1>1. IInv => ReadsAreWhole
  <2> SUFFICES ASSUME IInv, NEW r \in Readers, reader[r].inode # Closed, AtEnd(r)
               PROVE  \E v \in Inodes : reader[r].got = Whole(v)
    BY DEF ReadsAreWhole
  <2> DEFINE i == reader[r].inode
  <2>1. i \in Inodes /\ Synced(i) /\ reader[r].got = Cut(i, Len(reader[r].got))
    BY DEF IInv, ReaderShape
  <2>2. Len(reader[r].got) = Pieces
    BY <2>1, BoundsAssumption DEF AtEnd, IInv, TypeOK, DataShape, Synced
  <2> QED BY <2>1, <2>2 DEF Whole, Cut
<1> QED BY <1>1, InductiveInvariant, PTL

\* A write that write_atomic reported failed is not the manifest in place, nor
\* will it be after a power loss, however many died before and after it.
THEOREM ErrorsAreUnwritten == Spec => []ErrorMeansUnwritten
<1>1. IInv => ErrorMeansUnwritten
  <2> SUFFICES ASSUME IInv, NEW i \in {target, onDisk.target} \cap 1..Len(ended)
               PROVE  ended[i] # "err"
    BY DEF ErrorMeansUnwritten
  <2> QED BY DEF IInv, Unfailed
<1> QED BY <1>1, InductiveInvariant, PTL
=============================================================================
