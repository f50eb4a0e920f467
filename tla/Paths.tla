------------------------------- MODULE Paths --------------------------------
(***************************************************************************)
(* Paths as the commands resolve them (manifest.rs, canonical_inside,      *)
(* resolve_inside_root): a path is a sequence of components, absolute or   *)
(* not; the file system a tree of directories, files and symbolic links.   *)
(***************************************************************************)
EXTENDS Integers, Sequences, SequencesExt

CONSTANTS
    Tree,           \* what is at each location, a location being a sequence of names
    Root,           \* the location of the project directory
    LossyOf,        \* to_string_lossy of a name
    MaxFollows      \* bound: links the kernel follows in one resolution

Up == ".."

Dir == [kind |-> "dir"]
File == [kind |-> "file"]
LinkTo(path) == [kind |-> "link", to |-> path]

Relative(parts) == [absolute |-> FALSE, parts |-> parts]
FromTop(parts) == [absolute |-> TRUE, parts |-> parts]

Names == DOMAIN LossyOf
Locations == DOMAIN Tree
AnyPath == [absolute : BOOLEAN, parts : Seq(Names)]
Files == {at \in Locations : Tree[at] = File}

ASSUME NamesAssumption == LossyOf \in [Names -> Names] /\ Up \in Names

ASSUME TreeAssumption ==
    /\ Locations \subseteq Seq(Names)
    /\ {Root, <<>>} \subseteq Locations /\ Tree[Root] = Dir /\ Tree[<<>>] = Dir
    /\ \A at \in Locations \ {<<>>} : /\ Front(at) \in Locations /\ Tree[Front(at)] = Dir
                                       /\ Last(at) # Up
    /\ \A at \in Locations : Tree[at].kind = "link" => Tree[at].to \in AnyPath
ASSUME FollowsAssumption == MaxFollows \in Nat

(***************************************************************************)
(* realpath(3): follows links, dot-dot meaning the parent of the directory *)
(* reached.                                                                *)
(***************************************************************************)
Found(at) == [error |-> "none", at |-> at]
Failed(why) == [error |-> why, at |-> <<>>]

\* What is left of a resolution: where it is, the components to go, the links
\* followed so far.
Calls == [at : Locations, parts : Seq(Names), follows : 0..MaxFollows]
Call(at, parts, follows) == [at |-> at, parts |-> parts, follows |-> follows]

Below(w) == Append(w.at, Head(w.parts))

Step(w) ==
    CASE w.parts = <<>> -> "end"
      [] w.parts # <<>> /\ Tree[w.at] # Dir -> "notdir"
      [] OTHER -> IF Head(w.parts) = Up THEN "up"
                  ELSE IF Below(w) \notin Locations THEN "missing"
                  ELSE IF Tree[Below(w)].kind # "link" THEN "down"
                  ELSE IF w.follows = MaxFollows THEN "loop" ELSE "link"

Answer(w) ==
    CASE Step(w) = "end"     -> Found(w.at)
      [] Step(w) = "missing" -> Failed("Missing")
      [] OTHER               -> Failed("Unreadable")

Onward(w) ==
    CASE Step(w) = "up" -> Call(IF w.at = <<>> THEN w.at ELSE Front(w.at), Tail(w.parts), w.follows)
      [] Step(w) = "down" -> Call(Below(w), Tail(w.parts), w.follows)
      [] OTHER -> LET to == Tree[Below(w)].to
                  IN  Call(IF to.absolute THEN <<>> ELSE w.at, to.parts \o Tail(w.parts),
                           w.follows + 1)

Goes(w) == Step(w) \in {"up", "down", "link"}

Walk[w \in Calls] == IF Goes(w) THEN Walk[Onward(w)] ELSE Answer(w)

\* root.join(path): an absolute path replaces the root.
Realpath(path) == Walk[Call(IF path.absolute THEN <<>> ELSE Root, path.parts, 0)]

(***************************************************************************)
(* canonical_inside: where a path leads, and its stored form, the names    *)
(* below the root.  Failing one is an error of its own.                    *)
(***************************************************************************)
Inside(at) == IsPrefix(Root, at)

StoredForm(at) ==
    LET below == SubSeq(at, Len(Root) + 1, Len(at))
    IN  [i \in DOMAIN below |-> LossyOf[below[i]]]

\* file_name, and file_stem, take the last component; a path may have none, and
\* one that ends in dot-dot has no name either.
LastName(parts) == IF parts = <<>> THEN Up ELSE Last(parts)

\* The last name alone.
StoredName(path, at) == <<LossyOf[Last(at)]>>

\* The path as the user wrote it.
StoredVerbatim(path, at) == path.parts

Stored(path, at) == StoredForm(at)

\* Confinement by the look of the path: no dot-dot in it.
CanonicalLexically(path) ==
    LET real == Realpath(path)
    IN  IF real.error # "none" THEN real
        ELSE IF Up \in Range(path.parts) THEN Failed("Outside") ELSE real

Canonical(path) ==
    LET real == Realpath(path)
    IN  IF real.error # "none" THEN real
        ELSE IF Inside(real.at) THEN real ELSE Failed("Outside")

\* resolve_inside_root: add takes no absolute path.
ResolveInsideRoot(path) ==
    IF path.absolute THEN Failed("AbsolutePath") ELSE Canonical(path)

\* What a stored path means to verify: split at the slashes, below the root.
ReadBack(stored) == Walk[Call(Root, stored, 0)]
=============================================================================
