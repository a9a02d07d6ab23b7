------------------------------- MODULE MCShell -------------------------------
(* Lines that name files in up to three directories, with dots, doubled    *)
(* slashes, redundant blanks and redirections, on trees with an empty, a   *)
(* full and a deep directory, and every short file for head, tail and wc.  *)
EXTENDS Shell, TLC

MCTyped == {"a", "A", "b", "longer"}
MCShortName == [n \in MCTyped |-> CASE n \in {"a", "A"} -> "A" [] n = "b" -> "B" [] OTHER -> Invalid]
MCSymbolLen == [x \in MCTyped \cup {"/", ".", "..", " ", ">", "x", "y", "\n", "pwd", "mount", "umount", "cd"}
                        \cup Commands |-> IF x = ".." THEN 2 ELSE 1]

\* How what is meant is written.
Arg(abs, names) == [abs |-> abs, names |-> names]
Path(arg, sep) == (IF arg.abs THEN sep ELSE <<>>)
                  \o FlattenSeq([i \in DOMAIN arg.names |->
                         IF i = 1 THEN <<arg.names[i]>> ELSE sep \o <<arg.names[i]>>])
Said(cmd, args, text, append, blanks) ==
    [cmd |-> cmd, args |-> args, text |-> text, append |-> append, blanks |-> blanks]
OneLine(cmd, a, lead, path, trail) ==
    [said |-> Said(cmd, <<a>>, <<>>, FALSE, Length(trail)),
     parts |-> [lead |-> lead, path |-> path, trail |-> trail],
     line |-> (IF cmd = "cd" THEN <<"cd">> ELSE <<cmd, " ">>) \o lead \o path \o trail]

Rels == {Arg(FALSE, n) : n \in {<<"a">>, <<"b">>, <<"a", "b">>, <<"..">>, <<"..", "A">>}}
Abss == {Arg(TRUE, n) : n \in {<<>>, <<"a">>, <<"a", "b">>}}
Args == Rels \cup Abss
Odd  == {Arg(FALSE, n) : n \in {<<"longer">>, <<".", "b">>, <<"b", "..", "..", "a">>}}
Few  == {Arg(FALSE, <<"a">>), Arg(FALSE, <<"b">>), Arg(TRUE, <<"a">>), Arg(TRUE, <<"a", "b", "a">>)}

B == <<" ">>
OneArgLines ==
    {OneLine(c, a, <<>>, Path(a, <<"/">>), <<>>) : c \in {"mkdir", "rm", "touch"}, a \in Args}
    \cup {OneLine("cd", a, B, Path(a, <<"/">>), <<>>) : a \in Args}
    \cup {OneLine("rmdir", a, B, Path(a, <<"/", "/">>), <<>>) : a \in Few}
    \cup {OneLine("rmdir", a, <<>>, Path(a, <<"/">>), B) : a \in Abss \ {Arg(TRUE, <<>>)}}
    \cup {OneLine(c, a, B, Path(a, <<"/", "/">>), <<>>) : c \in {"mkdir", "cd"}, a \in Odd}
    \cup {OneLine("cd", Arg(TRUE, <<"a">>), <<>>, <<"/", "a">>, <<>>),
          [said |-> Said("cd", <<Arg(TRUE, <<>>)>>, <<>>, FALSE, 0),
           parts |-> [lead |-> <<>>, path |-> <<>>, trail |-> <<>>], line |-> <<"cd">>]}
ReadLines == {OneLine(c, a, <<>>, Path(a, <<"/">>), <<>>) :
                 c \in {"cat", "head", "tail", "wc"}, a \in {Arg(FALSE, <<"a">>)}}
TwoLine(cmd, a, b, lead, path, gap, path2, rest) ==
    [said |-> Said(cmd, <<a, b>>, <<>>, FALSE, 0),
     parts |-> [lead |-> lead, path |-> path, gap |-> gap, path2 |-> path2, rest |-> rest],
     line |-> <<cmd, " ">> \o lead \o path \o gap \o path2 \o rest]
TwoPathLines == {TwoLine(c, a, b, <<>>, Path(a, <<"/">>), B \o B, Path(b, <<"/">>), <<" ", "b">>) :
                    c \in {"cp", "mv"}, a \in Few, b \in Few \ {Arg(TRUE, <<"a">>)}}
TextLine(cmd, a, lead, path, gap, text) ==
    [said |-> Said(cmd, <<a>>, text, cmd = "append", 0),
     parts |-> [lead |-> lead, path |-> path, gap |-> gap],
     line |-> <<cmd, " ">> \o lead \o path \o gap \o text]
TextLines ==
    {TextLine("write", a, <<>>, Path(a, <<"/">>), B \o B, t) :
        a \in Few, t \in {<<"x">>, <<"x", ">", "b">>}}
    \cup {TextLine("append", a, <<>>, Path(a, <<"/">>), B, <<"x">>) : a \in Few}
EchoLine(a, text, gap, append, lead, path, trail) ==
    [said |-> Said("echo", <<a>>, text, append, 0),
     parts |-> [gap |-> gap, lead |-> lead, path |-> path, trail |-> trail],
     line |-> <<"echo", " ">> \o text \o gap \o (IF append THEN <<">", ">">> ELSE <<">">>)
              \o lead \o path \o trail]
EchoLines == {EchoLine(a, t, gap, append, gap, Path(a, <<"/">>), gap) :
                 a \in {Arg(FALSE, <<"a">>), Arg(TRUE, <<"a", "b">>)}, t \in {<<>>, <<"x">>},
                 append \in BOOLEAN, gap \in {<<>>, B}}

\* Lines in which something is missing, or one word too many.
Other(line) == [said |-> [cmd |-> "other"], line |-> line]
OtherLines == {Other(l) : l \in {<<"x">>, <<"mkdir">>, <<"mkdir", " ">>, <<"rmdir", " ", "/", " ">>,
                                 <<"write", " ", "a">>, <<"cp", " ", "a">>, <<"pwd">>,
                                 <<"echo", " ", "x", ">">>, <<"echo", " ", "x", ">", " ">>,
                                 <<"echo", " ", "x", ">", ">">>,
                                 <<"echo", " ", "x", ">", "a", " ", ">", "b">>,
                                 <<"mount">>, <<"umount">>, <<"rm", " ", "a", " ", "b">>,
                                 <<"cd", " ", "a", " ", "b">>}}
MCLines == OneArgLines \cup ReadLines \cup TwoPathLines \cup TextLines \cup EchoLines \cup OtherLines

Shorts == {"A", "B"}
MCPaths == UNION {[1 .. n -> Shorts] : n \in 0 .. 4}
MCTexts == {<<"x", "\n">>, <<"\n">>}

D == [dir |-> TRUE, data |-> <<>>]
F(b) == [dir |-> FALSE, data |-> b]
At(p, n) == p :> n
Bare == At(<<>>, D)
MCPrepared ==
    (Bare @@ At(<<"A">>, D)) :> 4
    @@ (Bare @@ At(<<"A">>, D) @@ At(<<"A", "B">>, F(<<"x", "\n">>)) @@ At(<<"B">>, D)) :> 4
    @@ (Bare @@ At(<<"A">>, D) @@ At(<<"A", "B">>, D) @@ At(<<"A", "B", "A">>, D)
        @@ At(<<"A", "B", "A", "B">>, D)) :> 4
    @@ [t \in {Bare @@ At(<<"A">>, F(b)) : b \in UNION {[1 .. n -> {"x", " ", "\n"}] : n \in 0 .. 5}} |-> 1]

ASSUME MCAssumption == Volumes /\ AllPaths /\ AllTexts /\ Alphabet /\ Faithful

View == <<tree, cwd, fs_mounted, entered>>
=============================================================================
