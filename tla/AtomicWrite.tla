---------------------------- MODULE AtomicWrite -----------------------------
(***************************************************************************)
(* write_atomic (manifest.rs): a temp file beside the manifest, written,   *)
(* synced, renamed over it; load_manifest's read, which may run meanwhile. *)
(* The file system's part: a directory entry names an inode, rename swaps  *)
(* the entry at once, an open file keeps its inode; what was not synced is *)
(* lost or cut short when the power goes, the rename itself included.      *)
(*                                                                         *)
(* Writes come one at a time (the project lock).  Write number v puts the  *)
(* pieces <<v, ..., v>> in an inode of that number; 0 is the manifest the  *)
(* project starts with.                                                    *)
(***************************************************************************)
EXTENDS Integers, Sequences

CONSTANTS
    Readers,
    Pieces,     \* bound: pieces a manifest is written and read in
    MaxWrites   \* bound: writes in a behaviour

ASSUME BoundsAssumption == Pieces \in Nat \ {0} /\ MaxWrites \in Nat

VARIABLES
    target,     \* the inode the manifest's name has
    temps,      \* the inodes that have a temp name
    data,       \* the pieces in each inode
    onDisk,     \* what a power loss would leave of target, temps and data
    writes,     \* writes begun; the number of the last one
    pc,         \* where the writer is in it
    ended,      \* history: how each write ended, "died" for one that did not return
    reader      \* what each reader has open and has read

vars == <<target, temps, data, onDisk, writes, pc, ended, reader>>

Inodes == 0..MaxWrites
Whole(v) == [k \in 1..Pieces |-> v]
Closed == -1
Idle == [inode |-> Closed, got |-> <<>>]

Init ==
    /\ target = 0 /\ temps = {}
    /\ data = [i \in Inodes |-> IF i = 0 THEN Whole(0) ELSE <<>>]
    /\ onDisk = [target |-> 0, temps |-> {}, len |-> [i \in Inodes |-> Len(data[i])]]
    /\ writes = 0 /\ pc = "idle" /\ ended = <<>>
    /\ reader = [r \in Readers |-> Idle]

(***************************************************************************)
(* The writer.                                                             *)
(***************************************************************************)
Finish(result) == pc' = "idle" /\ ended' = Append(ended, result)

\* File::create of a name nobody else uses.
Create ==
    /\ pc = "idle" /\ writes < MaxWrites
    /\ writes' = writes + 1
    /\ temps' = temps \cup {writes + 1}
    /\ pc' = "write"
    /\ UNCHANGED <<target, data, onDisk, ended, reader>>

CreateFails ==
    /\ pc = "idle" /\ writes < MaxWrites
    /\ writes' = writes + 1
    /\ Finish("err")
    /\ UNCHANGED <<target, temps, data, onDisk, reader>>

\* A retry after a short write that starts over at the end of the file.
WritePieceRetried ==
    /\ pc = "write" /\ Len(data[writes]) <= Pieces
    /\ data' = [data EXCEPT ![writes] = Append(@, writes)]
    /\ UNCHANGED <<target, temps, onDisk, writes, pc, ended, reader>>

WritePiece ==
    /\ pc = "write" /\ Len(data[writes]) < Pieces
    /\ data' = [data EXCEPT ![writes] = Append(@, writes)]
    /\ UNCHANGED <<target, temps, onDisk, writes, pc, ended, reader>>

\* A write that leaves the flush to the kernel.
SyncSkipped ==
    /\ pc = "write" /\ Len(data[writes]) = Pieces
    /\ pc' = "rename"
    /\ UNCHANGED <<target, temps, data, onDisk, writes, ended, reader>>

\* sync_all: data first; the directory is not synced.
Sync ==
    /\ pc = "write" /\ Len(data[writes]) = Pieces
    /\ onDisk' = [onDisk EXCEPT !.len[writes] = Pieces]
    /\ pc' = "rename"
    /\ UNCHANGED <<target, temps, data, writes, ended, reader>>

\* The question mark after write_all or sync_all: the temp file stays.
WriteFails ==
    /\ pc = "write"
    /\ Finish("err")
    /\ UNCHANGED <<target, temps, data, onDisk, writes, reader>>

\* The file system's half of the rename: readers see it before the writer does.
Rename ==
    /\ pc = "rename"
    /\ target' = writes /\ temps' = temps \ {writes}
    /\ pc' = "return"
    /\ UNCHANGED <<data, onDisk, writes, ended, reader>>

Return ==
    /\ pc = "return"
    /\ Finish("ok")
    /\ UNCHANGED <<target, temps, data, onDisk, writes, reader>>

\* A failed rename papered over by copying the bytes across.
RenameElseCopy ==
    /\ pc = "rename"
    /\ target' = writes /\ temps' = temps \ {writes}
    /\ Finish("err")
    /\ UNCHANGED <<data, onDisk, writes, reader>>

\* Only here is the temp file removed.
RenameFails ==
    /\ pc = "rename"
    /\ temps' = temps \ {writes}
    /\ Finish("err")
    /\ UNCHANGED <<target, data, onDisk, writes, reader>>

(***************************************************************************)
(* The machine.                                                            *)
(***************************************************************************)
\* The kernel writes back what it likes when it likes.
WriteBack ==
    /\ \/ \E i \in Inodes : onDisk' = [onDisk EXCEPT !.len[i] = Len(data[i])]
       \/ onDisk' = [onDisk EXCEPT !.target = target, !.temps = temps]
    /\ UNCHANGED <<target, temps, data, writes, pc, ended, reader>>

\* A crash of the process leaves the write under way where it is: nowhere, in a
\* temp file, or in place and not reported.
Kill ==
    /\ pc # "idle"
    /\ Finish("died")
    /\ UNCHANGED <<target, temps, data, onDisk, writes, reader>>

PowerLoss ==
    /\ target' = onDisk.target /\ temps' = onDisk.temps
    /\ data' = [i \in Inodes |-> SubSeq(data[i], 1, onDisk.len[i])]
    /\ pc' = "idle"
    /\ ended' = IF pc = "idle" THEN ended ELSE Append(ended, "died")
    /\ reader' = [r \in Readers |-> Idle]
    /\ UNCHANGED <<onDisk, writes>>

(***************************************************************************)
(* A reader: open the manifest, read to the end of that file.              *)
(***************************************************************************)
ReadOpen(r) ==
    /\ reader[r].inode = Closed
    /\ reader' = [reader EXCEPT ![r] = [inode |-> target, got |-> <<>>]]
    /\ UNCHANGED <<target, temps, data, onDisk, writes, pc, ended>>

AtEnd(r) == Len(reader[r].got) = Len(data[reader[r].inode])

\* Each piece is read from whatever file has the manifest's name by then.
ReadPieceReopening(r) ==
    /\ reader[r].inode # Closed /\ ~AtEnd(r)
    /\ reader' = [reader EXCEPT ![r] =
           [inode |-> target, got |-> Append(@.got, data[target][Len(@.got) + 1])]]
    /\ UNCHANGED <<target, temps, data, onDisk, writes, pc, ended>>

ReadPiece(r) ==
    /\ reader[r].inode # Closed /\ ~AtEnd(r)
    /\ reader' = [reader EXCEPT ![r].got = Append(@, data[reader[r].inode][Len(@) + 1])]
    /\ UNCHANGED <<target, temps, data, onDisk, writes, pc, ended>>

ReadClose(r) ==
    /\ reader[r].inode # Closed /\ AtEnd(r)
    /\ reader' = [reader EXCEPT ![r] = Idle]
    /\ UNCHANGED <<target, temps, data, onDisk, writes, pc, ended>>

Next ==
    \/ Create \/ CreateFails \/ WritePiece \/ Sync \/ WriteFails
    \/ Rename \/ Return \/ RenameFails
    \/ WriteBack \/ Kill \/ PowerLoss
    \/ \E r \in Readers : ReadOpen(r) \/ ReadPiece(r) \/ ReadClose(r)

Spec == Init /\ [][Next]_vars

(***************************************************************************)
(* Properties.                                                             *)
(***************************************************************************)
TypeOK ==
    /\ target \in Inodes /\ temps \subseteq Inodes
    /\ \A i \in Inodes : Len(data[i]) \in 0..Pieces
    /\ onDisk \in [target : Inodes, temps : SUBSET Inodes, len : [Inodes -> 0..Pieces]]
    /\ writes \in 0..MaxWrites /\ pc \in {"idle", "write", "rename", "return"}

\* The manifest on disk is a whole one, now and after a power loss at any time.
NeverTruncated ==
    /\ \E v \in Inodes : data[target] = Whole(v)
    /\ \E v \in Inodes :
          SubSeq(data[onDisk.target], 1, onDisk.len[onDisk.target]) = Whole(v)

\* A reader that reaches the end has one whole manifest, old or new, whatever
\* was renamed while it read.
ReadsAreWhole ==
    \A r \in Readers : reader[r].inode # Closed /\ AtEnd(r) =>
        \E v \in Inodes : reader[r].got = Whole(v)

\* A write that reported an error is not in place and will not be after a power
\* loss: a command that answers Io has not changed the manifest.  (One that died
\* may have: it was killed between the rename and the report.)
ErrorMeansUnwritten ==
    \A i \in {target, onDisk.target} \cap 1..Len(ended) : ended[i] # "err"
=============================================================================
