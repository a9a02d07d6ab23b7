------------------------------ MODULE MCVolume ------------------------------
(* A volume of five clusters, empty or with a file in two clusters that    *)
(* are not neighbours, with no cluster left, with a directory that has no  *)
(* free entry, or without a count of free clusters.                        *)
EXTENDS Volume, TLC

MCTyped == {"a", "A", "b", "c", "longer"}
MCShortName == [n \in MCTyped |-> CASE n \in {"a", "A"} -> "A"
                                    [] n = "b" -> "B"
                                    [] n = "c" -> "C"
                                    [] OTHER -> Invalid]
MCPaths == {<<>>, <<"a">>, <<"b">>, <<"a", "a">>, <<"A", "b">>, <<"a", "c">>, <<"longer">>}
MCTexts == {<<"x">>, <<"y", "y", "y", "y">>}

Empty == mount_volume(Formatted)
FullDirectory == written(written(f_mkdir(Empty, <<"a">>), <<"a", "a">>, "create", <<"x">>),
                         <<"a", "b">>, "create", <<"x">>)
Fragmented == written(written(written(Empty, <<"a">>, "create", <<"x", "x", "x">>),
                              <<"b">>, "create", <<"x">>), <<"a">>, "append", <<"y">>)
Full == written(f_mkdir(Fragmented, <<"c">>), <<"b">>, "append", <<"y", "x", "x", "x">>)
MCPrepared == Empty.disk :> 3 @@ Fragmented.disk :> 3 @@ Full.disk :> 3
              @@ FullDirectory.disk :> 2 @@ [Empty.disk EXCEPT ![Info].free = Unknown] :> 2
=============================================================================
