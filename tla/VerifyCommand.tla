--------------------------- MODULE VerifyCommand ----------------------------
(***************************************************************************)
(* verify (manifest.rs, fn verify and fn stamp_verified): one pass over a  *)
(* snapshot of the manifest, without the lock, then the stamps, under it,  *)
(* on the manifest as it is by then.                                       *)
(***************************************************************************)
EXTENDS Workspace

VerifyLoad(p) ==
    /\ Running(p, "verify", "start")
    /\ IF manifest = NoProject THEN Refuse(p, "NotAProject")
       ELSE Continue(p, "check", [my[p] EXCEPT !.snapshot = manifest])

AssetAt(p) == my[p].snapshot.assets[Len(my[p].statuses) + 1]
AssetsLeft(p) == Len(my[p].statuses) < Len(my[p].snapshot.assets)
RecordAt(p) == my[p].snapshot.evaluations[Len(my[p].records) + 1].record
RecordsLeft(p) == Len(my[p].records) < Len(my[p].snapshot.evaluations)

Status(p, integrity) == [my[p] EXCEPT !.statuses = Append(@, integrity)]

\* check_integrity, first access: the file's metadata, which may not be had.
VerifyStat(p) ==
    LET name == AssetAt(p).path
    IN  /\ Running(p, "verify", "check") /\ AssetsLeft(p)
        /\ \/ On(name) = Absent /\ Continue(p, "check", Status(p, "missing"))
           \/ Refuse(p, "Unreadable")
           \/ /\ On(name) # Absent
              /\ IF SizeOf[On(name)] # AssetAt(p).size
                 THEN Continue(p, "check", Status(p, "modified"))
                 ELSE Continue(p, "hash", my[p])

\* check_integrity, second access: the file's bytes.
VerifyHash(p) ==
    LET name == AssetAt(p).path
    IN  /\ Running(p, "verify", "hash")
        /\ \/ ~Readable(name) /\ Refuse(p, "Unreadable")
           \/ /\ Readable(name)
              /\ Continue(p, "check",
                    Status(p, IF Sha256(On(name)) = AssetAt(p).sha256
                              THEN "verified" ELSE "modified"))

\* check_record_integrity: one access, since no size is recorded.
VerifyRecord(p) ==
    LET name == RecordAt(p).path
        Found(integrity) ==
            Continue(p, "check", [my[p] EXCEPT !.records = Append(@, integrity)])
    IN  /\ Running(p, "verify", "check") /\ ~AssetsLeft(p) /\ RecordsLeft(p)
        /\ \/ On(name) = Absent /\ Found("missing")
           \/ On(name) # Absent /\ ~Readable(name) /\ Refuse(p, "Unreadable")
           \/ /\ Readable(name)
              /\ Found(IF Sha256(On(name)) = RecordAt(p).sha256
                       THEN "verified" ELSE "modified")

\* A verdict that leaves the comparison records out.
VerdictOnAssets(mine) ==
    IF Range(mine.statuses) \subseteq {"verified"} THEN "AllVerified" ELSE "NotAllVerified"

Verdict(mine) ==
    IF Range(mine.statuses) \cup Range(mine.records) \subseteq {"verified"}
    THEN "AllVerified" ELSE "NotAllVerified"

\* The HashMap of what passed: the asset's id maps to the sha256 it was verified
\* against, a later entry of the same id replacing an earlier one.
Passed(mine, id, sha256) ==
    LET of(h) == {i \in DOMAIN mine.statuses :
                    /\ mine.statuses[i] = "verified"
                    /\ mine.snapshot.assets[i].id = id
                    /\ h = None \/ mine.snapshot.assets[i].sha256 = h}
    IN  of(sha256) # {} /\ \E i \in of(sha256) : \A j \in of(None) : j <= i

\* Stamps only when the whole pass is good.
VerifyReportStrict(p) ==
    /\ Running(p, "verify", "check") /\ ~AssetsLeft(p) /\ ~RecordsLeft(p)
    /\ IF my[p].statuses # <<>> /\ Verdict(my[p]) = "AllVerified"
       THEN Continue(p, "lock", my[p])
       ELSE End(p, Verdict(my[p]), None)

\* A report in which nothing passed needs no stamp, hence no lock.
VerifyReport(p) ==
    /\ Running(p, "verify", "check") /\ ~AssetsLeft(p) /\ ~RecordsLeft(p)
    /\ IF "verified" \in Range(my[p].statuses)
       THEN Continue(p, "lock", my[p])
       ELSE End(p, Verdict(my[p]), None)

\* The clock is read once, for all stamps, after the manifest under the lock.
VerifyClock(p) ==
    /\ Running(p, "verify", "write") /\ my[p].time = 0
    /\ Continue(p, "write", [my[p] EXCEPT !.time = now])

\* Stamps for every asset, whatever its status.
StampedAll(p) == DOMAIN my[p].m.assets

\* stamp_verified, over the manifest read under the lock.
Stamped(p) ==
    {i \in DOMAIN my[p].m.assets :
        Passed(my[p], my[p].m.assets[i].id, my[p].m.assets[i].sha256)}

\* A stamp that clears the time of what did not pass.
StampAssetsClearing(p) ==
    [i \in DOMAIN my[p].m.assets |->
        [my[p].m.assets[i] EXCEPT !.last_verified = IF i \in Stamped(p) THEN my[p].time ELSE 0]]

StampAssets(p) ==
    [i \in DOMAIN my[p].m.assets |->
        IF i \in Stamped(p) THEN [my[p].m.assets[i] EXCEPT !.last_verified = my[p].time]
                            ELSE my[p].m.assets[i]]

VerifyStamp(p) ==
    /\ Running(p, "verify", "write") /\ my[p].time # 0
    /\ IF Stamped(p) = {}
       THEN End(p, Verdict(my[p]), None)
       ELSE Commit(p, [my[p].m EXCEPT !.assets = StampAssets(p)], Verdict(my[p]), None)

Verify(p) == VerifyLoad(p) \/ VerifyStat(p) \/ VerifyHash(p) \/ VerifyRecord(p)
               \/ VerifyReport(p) \/ VerifyClock(p) \/ VerifyStamp(p)
=============================================================================
