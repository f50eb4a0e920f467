----------------------------- MODULE MCProject ------------------------------
(***************************************************************************)
(* Small projects for TLC: a mix and a second mix of the same base name, a *)
(* job folder with two stems, a copy of the job record, comparison         *)
(* records.  Each configuration picks what is on disk, what the commands   *)
(* are and what changes meanwhile.                                         *)
(***************************************************************************)
EXTENDS Project

CONSTANTS wMix, wVocals, wRun, wNew      \* the words of ids

MCWords == {wMix, wVocals, wRun, wNew, Vs}

(***************************************************************************)
(* Names and places.                                                       *)
(***************************************************************************)
MCPaths == {"mix.wav", "alt/mix.flac", "run/vocals.wav", "run/vocals-2.wav",
            "run/job.json", "cmp.json", "dark.wav"}
MCNames == MCPaths \cup {"link.wav", "/abs.wav", "../out.wav"}
MCAbsolute == {"/abs.wav"}
MCStemNames == {"vocals", "vocals-2"}

MCLinks == [n \in MCNames |->
    CASE n \in MCPaths    -> n
      [] n = "link.wav"   -> "mix.wav"
      [] n = "/abs.wav"   -> "mix.wav"
      [] n = "../out.wav" -> Outside]

MCBaseOf == [n \in MCNames \cup MCStemNames |->
    CASE n \in {"mix.wav", "alt/mix.flac"}     -> <<wMix>>
      [] n \in {"vocals", "run/vocals.wav"}    -> <<wVocals>>
      [] n \in {"vocals-2", "run/vocals-2.wav"} -> <<wVocals, 2>>
      [] OTHER                                 -> <<wNew>>]

MCFolderOf == [n \in MCNames |-> <<wRun>>]

\* Both stem names of a record copied elsewhere still lie in its folder.
MCBeside == [ps \in MCNames \X MCStemNames |->
    IF ps[1] = "run/job.json"
    THEN IF ps[2] = "vocals" THEN "run/vocals.wav" ELSE "run/vocals-2.wav"
    ELSE "../out.wav"]

(***************************************************************************)
(* Contents, and what the evidence among them says.                        *)
(***************************************************************************)
Audio == {"mixA", "mixB", "voc", "inst"}
MCContents == Audio \cup {"job1", "job2", "jobNone", "jobBad", "jobAbs", "jobOut"}
                \cup {"cmpA", "cmpB", "cmpN", "cmpX", "cmpY", "cmpOff"}

MCSizeOf == [c \in MCContents |-> IF c \in {"mixA", "mixB"} THEN 2 ELSE 3]

Job(success, input, bytes, stems) ==
    [kind |-> "job", success |-> success, input |-> input,
     input_sha256 |-> Sha256(bytes), stems |-> stems]

Compare(labels, assets, preference) ==
    [kind |-> "compare", preference |-> preference,
     candidates |-> [i \in DOMAIN labels |-> [label |-> labels[i], asset |-> assets[i]]]]

TheMixes == <<<<wMix>>, <<wMix, 2>>>>

MCEvidence == [c \in MCContents |->
    CASE c = "job1"    -> Job(TRUE, "mix.wav", "mixA", <<"vocals", "vocals-2">>)
      [] c = "job2"    -> Job(TRUE, "alt/mix.flac", "mixA", <<"vocals", "vocals">>)
      [] c = "jobNone" -> Job(TRUE, "mix.wav", "mixA", <<>>)
      [] c = "jobBad"  -> Job(FALSE, "mix.wav", "mixA", <<>>)
      [] c = "cmpA"    -> Compare(<<"B", "A">>, TheMixes, "A")
      [] c = "cmpB"    -> Compare(<<"A", "A", "B">>, TheMixes \o <<<<wMix>>>>, "A")
      [] c = "cmpN"    -> Compare(<<"A", "B">>, TheMixes, None)
      [] c = "jobAbs"  -> Job(TRUE, "/abs.wav", "voc", <<>>)
      [] c = "jobOut"  -> Job(TRUE, "../out.wav", "mixB", <<>>)
      [] c = "cmpX"    -> Compare(<<"A", "B">>, <<<<wMix>>, None>>, "A")
      [] c = "cmpY"    -> Compare(<<"A", "B">>, TheMixes, "C")
      [] c = "cmpOff"  -> [kind |-> "nonconforming"]
      [] c = "voc"     -> [kind |-> "unrecognized"]
      [] OTHER         -> [kind |-> "malformed"]]

Disk == [place \in MCPaths \cup {Outside} |->
    CASE place = "mix.wav"          -> "mixA"
      [] place = "alt/mix.flac"     -> "mixB"
      [] place = "run/vocals.wav"   -> "voc"
      [] place = "run/vocals-2.wav" -> "inst"
      [] place = "run/job.json"     -> "job1"
      [] place = "cmp.json"         -> "cmpA"
      [] place \in {"dark.wav", Outside} -> "mixB"]

(***************************************************************************)
(* Manifests to start from.                                                *)
(***************************************************************************)
MixAsset == NewAsset(<<wMix>>, "mix.wav", Sha256("mixA"), 2)
AltAsset == NewAsset(<<wMix, 2>>, "alt/mix.flac", Sha256("mixB"), 2)
StemAsset == NewAsset(<<wVocals>>, "run/vocals.wav", Sha256("voc"), 3)

WithMix == [NewManifest EXCEPT !.assets = <<MixAsset>>]
WithBoth == [NewManifest EXCEPT !.assets = <<MixAsset, AltAsset>>]
Compared == [WithBoth EXCEPT !.evaluations =
    <<[id |-> <<wMix, Vs, wMix, 2>>, candidates |-> <<<<wMix>>, <<wMix, 2>>>>,
       preference |-> <<wMix, 2>>,
       record |-> [path |-> "cmp.json", sha256 |-> Sha256("cmpA")]]>>]
Imported == [NewManifest EXCEPT
    !.assets = <<MixAsset, StemAsset>>,
    !.derivations = <<[id |-> <<wRun>>, inputs |-> <<<<wMix>>>>, outputs |-> <<<<wVocals>>>>,
                       job |-> [path |-> "run/job.json", sha256 |-> Sha256("job1")]]>>]

(***************************************************************************)
(* Command lines.                                                          *)
(***************************************************************************)
DoInit(named) == [do |-> "init", named |-> named]
DoVerify == [do |-> "verify"]
DoShow(json) == [do |-> "show", json |-> json]
DoAdd(name, id) == [do |-> "add", name |-> name, id |-> id, roleIsSlug |-> TRUE]
DoImport(name) == [do |-> "import", name |-> name]
DoNothing == [do |-> "nothing"]

\* Registering: names that lead to one file, names that share a slug, an id
\* that a mint may want, and everything add refuses.
RegisterCommands ==
    {DoInit(TRUE), DoAdd("mix.wav", None), DoAdd("alt/mix.flac", None),
     DoAdd("link.wav", None), DoAdd("run/vocals.wav", <<wMix, 2>>)}
OddCommands ==
    {DoInit(TRUE), DoInit(FALSE), DoShow(FALSE), DoShow(TRUE), DoVerify,
     DoImport("run/job.json"), DoImport("../out.wav"),
     DoAdd("mix.wav", None), DoAdd("mix.wav", <<>>), DoAdd("/abs.wav", None),
     DoAdd("../out.wav", None), DoAdd("alt/mix.flac", <<wVocals>>),
     DoAdd("run/vocals.wav", <<wMix>>),
     [DoAdd("mix.wav", None) EXCEPT !.roleIsSlug = FALSE]}
ImportCommands == {DoImport("run/job.json"), DoAdd("run/vocals.wav", None),
                   DoAdd("alt/mix.flac", <<wVocals>>),
                   DoImport("cmp.json"), DoAdd("alt/mix.flac", None),
                   DoAdd("link.wav", None)}
AddThroughLink == {DoAdd("link.wav", None)}
VerifyCommands == {DoVerify, DoAdd("run/vocals.wav", None)}
EveryCommand == {DoInit(TRUE), DoAdd("mix.wav", None), DoImport("run/job.json"),
                 DoVerify, DoShow(FALSE)}

FromNew == {NewManifest}
FromMixes == {NewManifest, WithMix, WithBoth, Compared}
FromBoth == {Compared}
FromImported == {Imported}
FromAny == {NoProject, NewManifest, WithMix, Compared, Imported}

(***************************************************************************)
(* What changes on disk meanwhile.                                         *)
(***************************************************************************)
NoEdits == {}
ImportEdits == {<<"run/job.json", "job2">>, <<"mix.wav", "mixB">>, <<"mix.wav", Absent>>,
                <<"alt/mix.flac", "mixA">>, <<"run/vocals.wav", "inst">>,
                <<"cmp.json", "cmpB">>, <<"run/job.json", "cmpN">>}
VerifyEdits == {<<"mix.wav", "mixB">>, <<"mix.wav", "voc">>, <<"mix.wav", Absent>>,
                <<"mix.wav", "mixA">>, <<"cmp.json", "cmpB">>, <<"cmp.json", Absent>>}
Removals == {<<place, Absent>> : place \in MCPaths}
LinkMoves == {<<"link.wav", "alt/mix.flac">>}

With(changes) == [place \in DOMAIN Disk |->
    IF \E e \in changes : e[1] = place
    THEN (CHOOSE e \in changes : e[1] = place)[2] ELSE Disk[place]]

\* Evidence of every kind, and input or stems that are not where it says.
OddDisks ==
    {With({<<"run/job.json", c>>}) :
        c \in {"jobNone", "jobBad", "jobAbs", "jobOut", "voc", "mixA", "cmpX", "cmpY", "cmpOff"}}
      \cup {With({<<place, Absent>>}) : place \in MCPaths}
      \cup {With({<<"run/job.json", "job2">>}), With({<<"mix.wav", "mixB">>})}
MCDenied == {"dark.wav"}
\* A name replaced by a link: all that led to it lead where the link does.
Linked(name, place) == [n \in MCNames |-> IF MCLinks[n] = name THEN place ELSE MCLinks[n]]
OddLinks == {MCLinks} \cup
    {Linked(name, place) :
        name \in {"mix.wav", "run/vocals-2.wav", "run/job.json", "cmp.json"},
        place \in MCDenied \cup {Outside}}
Copies == {Disk, With({<<"run/job.json", "cmpA">>})}
NoStems == {With({<<"run/vocals.wav", Absent>>})}

Symmetry == Permutations(Procs)

JustDisk == {Disk}
JustLinks == {MCLinks}

(***************************************************************************)
(* Two commands that meet on a plain disk, with no edit left to be made;   *)
(* or one command alone on an odd disk, from any manifest, while a file    *)
(* disappears or a link moves.                                             *)
(***************************************************************************)
Anything == EveryCommand \cup RegisterCommands \cup OddCommands \cup {DoNothing}

Alone == \E p \in Procs : cmd[p] = DoNothing

TwoMeet ==
    /\ manifest \in {NoProject, NewManifest, WithMix}
    /\ files = Disk /\ links = MCLinks
    /\ cmd \in [Procs -> EveryCommand \cup RegisterCommands]

OneAlone ==
    /\ manifest \in FromAny
    /\ \/ files = Disk /\ links \in OddLinks
       \/ files \in OddDisks /\ links = MCLinks
    /\ \E p \in Procs, c \in OddCommands :
          cmd = [q \in Procs |-> IF q = p THEN c ELSE DoNothing]

TogetherInit ==
    /\ TwoMeet \/ OneAlone
    /\ lock = Free /\ now = 1 /\ edits = (IF Alone THEN 0 ELSE MaxEdits)
    /\ pc = [p \in Procs |-> IF cmd[p] = DoNothing THEN "done" ELSE "start"]
    /\ my = [p \in Procs |-> Blank]
    /\ seen = [p \in Procs |-> Facts(files, links)]

TogetherSpec ==
    TogetherInit /\ [][Next]_vars /\ \A p \in Procs : WF_vars(Command(p))
=============================================================================
