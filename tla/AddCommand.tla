----------------------------- MODULE AddCommand -----------------------------
(***************************************************************************)
(* add (manifest.rs, fn add): check, resolve and hash the file before the  *)
(* lock; decide the id and write the asset under it.                       *)
(***************************************************************************)
EXTENDS Workspace

\* The project must exist and the role be a slug.
AddCheck(p) ==
    /\ Running(p, "add", "start")
    /\ \/ manifest = NoProject /\ Refuse(p, "NotAProject")
       \/ manifest # NoProject /\ ~cmd[p].roleIsSlug /\ Refuse(p, "InvalidSlug")
       \/ manifest # NoProject /\ cmd[p].roleIsSlug /\ Continue(p, "resolve", my[p])

\* A resolution that does not ask whether the file lies inside the root.
AddResolveUnconfined(p) ==
    /\ Running(p, "add", "resolve")
    /\ IF On(cmd[p].name) = Absent
       THEN Refuse(p, "MissingFile")
       ELSE Continue(p, "hash", [my[p] EXCEPT !.path = links[cmd[p].name]])

\* resolve_inside_root: the canonical root-relative path of the argument.  Any
\* resolution may fail for a reason of the file system's own.
AddResolve(p) ==
    LET name == cmd[p].name
    IN  /\ Running(p, "add", "resolve")
        /\ \/ name \in Absolute /\ Refuse(p, "AbsolutePath")
           \/ name \notin Absolute /\ On(name) = Absent /\ Refuse(p, "MissingFile")
           \/ name \notin Absolute /\ Refuse(p, "Unreadable")
           \/ /\ name \notin Absolute /\ On(name) # Absent
              /\ IF links[name] = Outside
                 THEN Refuse(p, "OutsideRoot")
                 ELSE Continue(p, "hash", [my[p] EXCEPT !.path = links[name]])

\* sha256_file opens the argument again, by the name the user gave.
AddHash(p) ==
    LET name == cmd[p].name
    IN  /\ Running(p, "add", "hash")
        /\ IF Readable(name)
           THEN Continue(p, "lock", [my[p] EXCEPT !.hash = Sha256(On(name)),
                                                  !.size = SizeOf[On(name)]])
           ELSE Refuse(p, "Unreadable")

\* An id decided without a look at the manifest.
AddIdUnchecked(p) == IF cmd[p].id = None THEN BaseOf[cmd[p].name] ELSE cmd[p].id

\* The requested id, which AddWrite has found free, or one minted from the name.
AddId(p) ==
    IF cmd[p].id = None THEN Mint(BaseOf[cmd[p].name], Ids(my[p].m.assets))
    ELSE cmd[p].id

AddPathTaken(p) == \E i \in DOMAIN my[p].m.assets : my[p].m.assets[i].path = my[p].path

AddWrite(p) ==
    LET m   == my[p].m
        raw == cmd[p].id
    IN  /\ Running(p, "add", "write")
        /\ \/ AddPathTaken(p) /\ Refuse(p, "DuplicatePath")
           \/ ~AddPathTaken(p) /\ raw # None /\ raw \notin Slugs /\ Refuse(p, "InvalidSlug")
           \/ ~AddPathTaken(p) /\ raw \in Ids(m.assets) /\ Refuse(p, "IdInUse")
           \/ /\ ~AddPathTaken(p)
              /\ raw = None \/ raw \in Slugs \ Ids(m.assets)
              /\ LET asset == NewAsset(AddId(p), my[p].path, my[p].hash, my[p].size)
                 IN  Commit(p, [m EXCEPT !.assets = Append(@, asset)], "Added", asset.id)

Add(p) == AddCheck(p) \/ AddResolve(p) \/ AddHash(p) \/ AddWrite(p)
=============================================================================
