---------------------------- MODULE MCPathMapping ----------------------------
EXTENDS PathMapping

(* Two mapped trees; /e/p stays the host's, as /etc/passwd does.           *)
MCMapping == <<"/", "v", ":", "/", "r", ",", "/", "e", ":", "/", "s">>
MCExclude == <<"/", "e", "/", "p">>

(* The bundle's files under /r and /s, the host's own under /v and /e. The *)
(* contents say where a file is from.                                      *)
Bundle ==
    << >> :> Directory @@ << <<"v">> >> :> Directory @@ << <<"r">> >> :> Directory
    @@ << <<"h">> >> :> Directory @@ << <<"e">> >> :> Directory @@ << <<"s">> >> :> Directory
    @@ << <<"v">>, <<"a">> >> :> File("host")   @@ << <<"v">>, <<"k">> >> :> Directory
    @@ << <<"e">>, <<"p">> >> :> File("host")   @@ << <<"s">>, <<"p">> >> :> File("bundle")
    @@ << <<"r">>, <<"a">> >> :> File("bundle") @@ << <<"r">>, <<"b">> >> :> Absent
MCDisks == {Bundle}
MCStartDirs == { << <<"r">> >>, << <<"h">> >>, << <<"v">>, <<"k">> >> }

MCPairNames == { <<"a">>, <<"/", "v", "/", "b">>, <<"/", "v", "/", "/", "a">> }
MCNames == MCPairNames \cup
           { <<".">>, <<"b">>, <<".", ".", "/", "h">>, <<"/", "v", "/", "k", "/", ".", ".">>,
             <<"/", "e", "/", "p">> }
MCTargets == { <<"a">>, <<"/", "v", "/", "a">> }
MCTemps == { <<"/", "e", "/", "p">> }
MCMarkNames == { <<"/", "v", "/", "b">> }
MCHome == <<"/", "h">>
=============================================================================
