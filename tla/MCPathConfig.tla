---------------------------- MODULE MCPathConfig ----------------------------
EXTENDS PathConfig

(* PATH_MAPPING: prefixes, with slashes and blanks; nested prefixes in     *)
(* both orders; entries that are not rules; a TO under another; stars.     *)
MCMappings ==
    { << >>,
      <<"/", "v", ":", "/", "r">>,
      <<"/", "v", "/", ":", "/", "r", "/", "s", "/", "s", "/">>,
      <<"/", "v", ":", "/", "r", ",", "/", "v", "/", "d", ":", "/", "s">>,
      <<"/", "v", "/", "d", ":", "/", "s", ",", " ", "/", "v", " ", ":", " ", "/", "r", " ",
        ",", ":", "v", ",", "r">>,
      <<",", "v", ":", ",", "/", "v", ":", "/", "r", ",", "/", "v", "/", "d", ":",
        "/", "r", "/", "k">>,
      <<"/", "v", "/", "*", ":", "/", "r", "/", "*">>,
      <<"/", "v", "/", "*", "/", "d", "/", "*", ":", "/", "r", "/", "*", "/", "k", "/", "*">> }

MCExcludes ==
    { << >>, <<"/", "v", "/", "k">>,
      <<",", "/", "v", "/", "d", "/", ".", ".", "/", "k", ",", "/", "v", "/", "*", "/", "k">> }

(* Every absolute name of up to five tokens, and longer ones under the     *)
(* names the rules are about.                                              *)
Tokens == {"/", "v", "d", "k", "."}
Roots  == { <<"v">>, <<"r">>, <<"v", "v">>, <<"s">>, <<"v", "/", "d">>, <<"v", ".">>,
            <<"v", "/", "k">> }
MCInputs == {<<"/">> \o s : s \in BoundedSeq(Tokens, 4)}
            \cup {<<"/">> \o a \o <<"/">> \o b : a \in Roots, b \in BoundedSeq(Tokens, 3)}
            \cup {<<"/", "v", "/", "k", "/", "d">> \o s : s \in BoundedSeq(Tokens, 4)}
=============================================================================
