------------------------------- MODULE Mutex --------------------------------
(***************************************************************************)
(* What holding the project lock means to the commands: at most one holder.*)
(* Flock shows that ProjectLock::acquire and Drop provide it; the commands *)
(* (Workspace) are written against it.                                     *)
(***************************************************************************)
CONSTANTS Procs, Free

VARIABLE owner

TypeOK == owner \in Procs \cup {Free}

Init == owner = Free

Enter(p) == owner = Free /\ owner' = p
Leave(p) == owner = p /\ owner' = Free

Next == \E p \in Procs : Enter(p) \/ Leave(p)

Spec == Init /\ [][Next]_owner
=============================================================================
