------------------------------ MODULE MCShell ------------------------------
(* Names that exist and names that do not: a host with one file and one    *)
(* directory, an empty SD card and an empty image, and a RAM disk and a    *)
(* flash with a file.                                                      *)
EXTENDS Shell

At(d, n) == <<SL, d, SL, n>>

MCTyped ==
  {<<<<c>>>> : c \in {"cd", "dir", "?"}}
  \cup {<<<<c>>, <<SL, m>>>> : <<c, m>> \in
          {<<"mount", "sd">>, <<"umount", "host">>, <<"mkfs", "flash">>, <<"mkfs", "ram">>,
           <<"mount", "ram">>, <<"umount", "sd">>, <<"dir", "sd">>, <<"cd", "sd">>}}
  \cup {<<<<"mountfat">>, <<SL, "img">>, <<"x">>>>}
  \cup {<<<<c>>, <<"d">>>> : c \in {"cd", "dir", "mkdir", "rmdir"}}
  \cup {<<<<c>>, <<"x">>>> : c \in {"copy", "type", "exec", "rm"}}
  \cup {<<<<"cp">>, <<"x">>, to>> : to \in {<<"x">>, <<"d">>, <<"d", SP, "d">>, <<SL, "sd">>, At("sd", "x")}}
  \cup {<<<<"cp">>, At("host", "x"), <<SL, "sd">>>>, <<<<"mv">>, <<"x">>, <<"d", SL, "x">>>>}

MCGaps == {<<SP>>, <<SP, SP>>}

MCMedia ==
  (Host :> ((<<>> :> Dir) @@ (<<<<"x">>>> :> <<1, 2>>) @@ (<<<<"d">>>> :> Dir)))
  @@ [m \in {<<"sd">>, <<"img">>, <<"pfs">>} |-> Blank]
  @@ [m \in {<<"ram">>, <<"flash">>} |-> (<<>> :> Dir) @@ (<<<<"x">>>> :> <<3>>)]

MCHostFiles == {[path |-> <<<<"x">>>>, holds |-> <<1>>], [path |-> <<<<"d">>>>, holds |-> Dir]}
=============================================================================
