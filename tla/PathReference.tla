---------------------------- MODULE PathReference ----------------------------
(***************************************************************************)
(* What a path mapping means, over sequences of segments and without any   *)
(* of the string handling of lib/pathmap_common.h: the definitions the     *)
(* algorithms of PathRules are compared with.                              *)
(***************************************************************************)
EXTENDS PathRules, FileTree

(* A rule matches segment by segment; a star stands for one segment, and   *)
(* as the last segment of FROM for one or more.                            *)
Star == <<"*">>

Covers(pattern, path) ==
    /\ IF pattern # << >> /\ Star \in {pattern[i] : i \in DOMAIN pattern}
       THEN IF Last(pattern) = Star THEN Len(path) >= Len(pattern) ELSE Len(path) = Len(pattern)
       ELSE Len(path) >= Len(pattern)
    /\ \A i \in DOMAIN pattern : pattern[i] \in {Star, path[i]}

Matching(path, rules) ==
    {i \in DOMAIN rules : Segs(rules[i].from) # << >> /\ Covers(Segs(rules[i].from), path)}

Longest(path, rules) ==
    CHOOSE i \in Matching(path, rules) : \A j \in Matching(path, rules) :
        LET n(k) == Len(Segs(rules[k].from)) IN n(j) < n(i) \/ (n(j) = n(i) /\ i <= j)

(* TO with the segments that the stars of FROM stand for, then the rest.   *)
Instance(from, to, path) ==
    LET stars == SelectSeq([i \in DOMAIN from |-> i], LAMBDA i : from[i] = Star)
        nth(k) == Len(SelectSeq(Upto(to, k), LAMBDA s : s = Star))
    IN  [k \in DOMAIN to |-> IF to[k] = Star THEN path[stars[nth(k)]] ELSE to[k]]
        \o From(path, Len(from) + 1)

UnderExclude(path, excludes) ==
    \E i \in DOMAIN excludes :
        LET e == Segs(excludes[i])
        IN  Covers(e, path) /\ (IsGlob(excludes[i]) => Len(path) = Len(e))

UnderAnyTo(path, rules) == \E i \in DOMAIN rules : IsPrefix(Segs(rules[i].to), path)

(* The real counterpart of a path, and the way back.                       *)
RefReal(path, rules, excludes) ==
    IF UnderExclude(path, excludes) \/ UnderAnyTo(path, rules) \/ Matching(path, rules) = {}
    THEN path
    ELSE LET i == Longest(path, rules)
         IN  Instance(Segs(rules[i].from), Segs(rules[i].to), path)

RefVirtual(path, rules) ==
    LET hits == {i \in DOMAIN rules : IsPrefix(Segs(rules[i].to), path)}
        i    == CHOOSE i \in hits : \A j \in hits :
                    Len(Segs(rules[j].to)) <= Len(Segs(rules[i].to))
    IN  IF hits = {} THEN path
        ELSE Segs(rules[i].from) \o From(path, Len(Segs(rules[i].to)) + 1)
=============================================================================
