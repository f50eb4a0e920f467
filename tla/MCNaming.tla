------------------------------ MODULE MCNaming ------------------------------
(***************************************************************************)
(* A small tree for TLC: one file name in two folders, names whose slugs   *)
(* meet ("Mix 2.flac" and the second mix), a name with nothing in it a     *)
(* slug has, links inside, outside, onto themselves, and two names that    *)
(* are not UTF-8 and look alike as text; each job record is a file.        *)
(***************************************************************************)
EXTENDS Naming

MCAlnum == {"a", "s", "e", "t", "v", "m", "i", "x", "j"}
             \cup {"0", "1", "2", "3", "4", "5", "6", "7", "8", "9"}
MCChars == MCAlnum \cup {"-", ".", "_", "M", " ", "/"}
MCLowerOf == [c \in MCChars |-> IF c = "M" THEN "m" ELSE c]

MCRoot == <<"p">>
In(folder, name) == <<"p", folder, name>>

MCTree ==
    [at \in {<<>>, <<"p">>, <<"p", "alt">>, <<"p", "j">>, <<"etc">>} |-> Dir]
    @@ [at \in {<<"p", name>> : name \in 
              {"mix.wav", "Mix 2.flac", "---.wav", "bad1", "bad2", "bad?", "7.json"}}
            \cup {In("j", name) : name \in
              {"1.json", "2.json", "3.json", "4.json", "5.json", "6.json", "_v.wav"}}
            \cup {In("alt", "mix.wav"), <<"etc", "mix.wav">>, <<"etc", "8.json">>} |-> File]
    @@ (<<"p", "in">>   :> LinkTo(Relative(<<"alt">>)))
    @@ (<<"p", "out">>  :> LinkTo(FromTop(<<"etc">>)))
    @@ (<<"p", "loop">> :> LinkTo(Relative(<<"loop">>)))
    @@ (<<"p", "odd">>  :> LinkTo(Relative(<<"bad1">>)))
    @@ (In("alt", "link") :> LinkTo(Relative(<<"..", "mix.wav">>)))

MCNames == UNION {Range(at) : at \in DOMAIN MCTree} \cup {Up, "gone.wav"}
MCLossyOf == [n \in MCNames |-> IF n \in {"bad1", "bad2"} THEN "bad?" ELSE n]

Mix == <<"m", "i", "x">>
MCStemOf == [n \in MCNames |->
    CASE n = "mix.wav"    -> Mix
      [] n = "Mix 2.flac" -> <<"M", "i", "x", " ", "2">>
      [] n = "---.wav"    -> <<"-", "-", "-">>
      [] n = "_v.wav"     -> <<"_", "v">>
      [] n = "bad?"       -> <<"_">>
      [] n \in {"alt", "j", "in"} -> <<"j">>
      [] OTHER            -> <<>>]
MCNameOf == [n \in MCNames |-> IF n = "p" THEN <<"m">> ELSE MCStemOf[n]]

MCArgs ==
    {FromTop(<<"p", "mix.wav">>), Relative(<<"mix.wav">>), Relative(<<"alt", "mix.wav">>),
     Relative(<<"in", "mix.wav">>), Relative(<<"alt", "link">>), Relative(<<"alt", Up, "mix.wav">>),
     Relative(<<"in", Up, "mix.wav">>), Relative(<<Up, "p", "Mix 2.flac">>),
     Relative(<<"out", "mix.wav">>), Relative(<<Up, "etc", "mix.wav">>), Relative(<<"loop">>),
     Relative(<<"gone.wav">>), Relative(<<"mix.wav", Up>>), Relative(<<"alt">>),
     Relative(<<"---.wav">>), Relative(<<"bad1">>), Relative(<<"bad2">>), Relative(<<"bad?">>)}
MCAskedIds == {None, Mix, <<"m", "i", "x", "-", "2">>, <<"-">>}

Stem(name, path) == [name |-> name, path |-> path]
Vocals == Stem(<<"_", "v">>, Relative(<<"_v.wav">>))
Above == Stem(<<".", ".", "/", "m", "i", "x">>, Relative(<<Up, "mix.wav">>))
Elsewhere == Stem(<<"/", "e", "t">>, FromTop(<<"etc", "mix.wav">>))
Bad1 == Stem(<<"x">>, Relative(<<Up, "bad?">>))
Gone == Stem(<<"x">>, Relative(<<"gone.wav">>))

Job(arg, input, bytes, stems) ==
    [arg |-> arg, input |-> input, bytes |-> bytes, stems |-> stems]
MixFile == <<"p", "mix.wav">>
MCJobs ==
    {Job(FromTop(In("j", "1.json")), Relative(<<"alt", "link">>), MixFile, <<Vocals, Vocals, Above>>),
     Job(Relative(<<"in", Up, "j", "1.json">>), Relative(<<"alt", "link">>), MixFile,
         <<Vocals, Vocals, Above>>),
     Job(Relative(<<"j", "2.json">>), Relative(<<"mix.wav">>), MixFile, <<Bad1>>),
     Job(Relative(<<"j", "3.json">>), Relative(<<"mix.wav">>), MixFile, <<Gone>>),
     Job(Relative(<<"j", "4.json">>), Relative(<<"mix.wav">>), MixFile, <<Elsewhere>>),
     Job(Relative(<<"j", "5.json">>), Relative(<<"alt", "mix.wav">>), MixFile, <<>>),
     Job(Relative(<<"j", "6.json">>), FromTop(<<"etc", "mix.wav">>), <<"etc", "mix.wav">>, <<>>),
     Job(Relative(<<"7.json">>), Relative(<<"odd">>), <<"p", "bad1">>, <<>>),
     Job(FromTop(<<"etc", "8.json">>), Relative(<<"mix.wav">>), MixFile, <<>>)}
=============================================================================
