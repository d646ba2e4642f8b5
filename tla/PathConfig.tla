----------------------------- MODULE PathConfig -----------------------------
(***************************************************************************)
(* The rule table of path-mapping.so and the questions put to it: the      *)
(* constructor reads PATH_MAPPING and PATH_MAPPING_EXCLUDE once, a wrapper *)
(* then maps a name forward and, where the call gives a name back, the     *)
(* real path back again. The properties compare the string algorithms of   *)
(* PathRules with the reference over segments of PathReference.            *)
(***************************************************************************)
EXTENDS PathReference

CONSTANTS Mappings,          \* values PATH_MAPPING may have
          Excludes,          \* values PATH_MAPPING_EXCLUDE may have
          Inputs             \* absolute names a program may use

VARIABLES rules, excludes,   \* struct pm_mapping_config
          asked,             \* the name a wrapper was called with, << >> for none
          real,              \* the answer of ApplyMapping for it
          back               \* the answer of ReverseMapping for the real path

vars == <<rules, excludes, asked, real, back>>

Init == /\ \E m \in Mappings, x \in Excludes :
                /\ rules = LoadMappings(m)
                /\ excludes = LoadExcludes(x)
        /\ asked = << >> /\ real = Same(<< >>) /\ back = Same(<< >>)

Ask(name) ==
    LET path == Normalize(name)
    IN  /\ asked = << >>
        /\ asked' = name
        /\ real' = IF IsExcluded(path, excludes) THEN Same(path) ELSE ApplyMapping(path, rules)
        /\ back' = ReverseMapping(real'.path, rules)
        /\ UNCHANGED <<rules, excludes>>

Return == /\ asked # << >>
          /\ asked' = << >> /\ real' = Same(<< >>) /\ back' = Same(<< >>)
          /\ UNCHANGED <<rules, excludes>>

Next == (\E name \in Inputs : Ask(name)) \/ Return

Spec == Init /\ [][Next]_vars

-----------------------------------------------------------------------------
(* Rule tables the reference covers: prefixes only, or one rule whose      *)
(* stars are whole segments, at the end or more than one.                  *)
Plain == \A i \in DOMAIN rules : ~IsGlob(rules[i].from) /\ ~IsGlob(rules[i].to)
WholeStars == /\ Len(rules) = 1
              /\ \A s \in {rules[1].from, rules[1].to} :
                    /\ OnlyStars(s) /\ Last(Segs(s)) = Star
                    /\ \A i \in DOMAIN Segs(s) : Segs(s)[i] = Star \/ ~Has("*", Segs(s)[i])
              /\ Len(SelectSeq(rules[1].from, LAMBDA t : t = "*"))
                    = Len(SelectSeq(rules[1].to, LAMBDA t : t = "*"))

(* A name that ends in "..", normalised, keeps a slash at its end, and a   *)
(* star then takes the empty rest: "/v/*" covers "/v/k/.." but not "/v".   *)
Covered == Plain \/ (WholeStars /\ (asked # << >> => Last(Normalize(asked)) # "/"))

(* The result is too long for a buffer.                                    *)
TooLong == \E i \in DOMAIN rules : Len(rules[i].to) + Len(asked) > MaxPath - 3

(* No TO lies under another one: the way back is unique.                   *)
Separate == \A i, j \in DOMAIN rules :
                i # j => ~IsPrefix(Segs(rules[i].to), Segs(rules[j].to))

-----------------------------------------------------------------------------
(* The table never holds more rules than its arrays have room for, and no  *)
(* answer is longer than the caller's buffer, whose last byte is the NUL   *)
(* (the out_size tests of pm_apply_mapping_with_config and of the way      *)
(* back).                                                                  *)
TypeOK == /\ Len(rules) <= MaxRules /\ Len(excludes) <= MaxRules
          /\ \A i \in DOMAIN rules : rules[i].from # << >> /\ rules[i].to # << >>
          /\ real.new \in BOOLEAN /\ back.new \in BOOLEAN
          /\ Len(real.path) < MaxPath /\ Len(back.path) < MaxPath

(* pm_fix_path_common finds the real counterpart of every name, however    *)
(* it is spelled ("//", "/./", "/../", a trailing slash), whatever the     *)
(* order of the rules and the blanks and slashes in the variables.         *)
MatchesReference ==
    Covered /\ ~TooLong =>
        Segs(real.path) = RefReal(Walk(<< >>, asked), rules, excludes)

(* A name that was mapped comes back as itself from                        *)
(* pm_apply_reverse_mapping_with_config, so what getcwd, readlink and      *)
(* realpath report can be used again.                                      *)
RoundTrip == real.new /\ Covered /\ Separate /\ ~TooLong =>
                Segs(back.path) = Walk(<< >>, asked)
=============================================================================
