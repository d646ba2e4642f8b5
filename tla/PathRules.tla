------------------------------ MODULE PathRules ------------------------------
(***************************************************************************)
(* The string algorithms of lib/pathmap_common.h: normalisation, the rule  *)
(* table read from the environment, the search for the rule that maps a    *)
(* path, and the way back from a real path to the name the program knows.  *)
(*                                                                         *)
(* A string is a sequence of tokens, one per character that the algorithms *)
(* tell apart: "/", "*", "?", "[", ".", the separators "," ":" " " of the  *)
(* environment variables, and name tokens that stand for the rest.         *)
(***************************************************************************)
EXTENDS Naturals, Sequences, SequencesExt

CONSTANTS MaxPath,    \* MAX_PATH, the size of every path buffer
          MaxRules    \* the 64 entries of struct pm_mapping_config

ASSUME BufferAssumption == MaxPath \in Nat \ {0, 1} /\ MaxRules \in Nat \ {0}

Metas == {"*", "?", "["}

(* strchr and strrchr, as positions; past the end, or 0, when not found.   *)
NextOf(t, s, i) == Min({j \in i..Len(s) : s[j] = t} \cup {Len(s) + 1})
LastOf(t, s) == Max({j \in DOMAIN s : s[j] = t} \cup {0})

Has(t, s) == \E i \in DOMAIN s : s[i] = t
IsGlob(s) == \E i \in DOMAIN s : s[i] \in Metas
OnlyStars(s) == IsGlob(s) /\ ~Has("?", s) /\ ~Has("[", s)
From(s, i) == SubSeq(s, i, Len(s))
Upto(s, i) == SubSeq(s, 1, i)

SplitAtAny(seps, s) ==
    FoldLeft(LAMBDA acc, t : IF t \in seps THEN Append(acc, << >>)
                             ELSE [acc EXCEPT ![Len(acc)] = Append(@, t)],
             << << >> >>, s)

-----------------------------------------------------------------------------
(* Prefixes and normalisation.                                             *)

PathLen(path) == Max({i \in DOMAIN path : path[i] # "/"} \cup {0})

PrefixMatches(prefix, path) ==
    LET n == PathLen(prefix)
    IN  /\ IsPrefix(Upto(prefix, n), path)
        /\ n = Len(path) \/ path[n + 1] = "/"

OrRoot(path) == IF path = << >> THEN <<"/">> ELSE path

(* ".." drops the last segment and leaves the slash before it.             *)
Up(out) ==
    LET open == IF Last(out) = "/" THEN Front(out) ELSE out
    IN  OrRoot(IF Len(out) > 1 THEN Upto(open, LastOf("/", open)) ELSE out)

Normalize(path) ==
    LET Add(out, seg) ==
            CASE seg \in {<< >>, <<".">>} -> out
              [] seg = <<".", ".">>       -> Up(out)
              [] OTHER -> (IF out # << >> /\ Last(out) = "/" THEN out
                           ELSE Append(out, "/")) \o seg
        first == IF path = << >> \/ Head(path) # "/" THEN <<"/">> ELSE << >>
    IN  OrRoot(FoldLeft(Add, first, SplitAtAny({"/"}, path)))

-----------------------------------------------------------------------------
(* Globs.                                                                  *)

(* fnmatch(pattern, path, FNM_PATHNAME) == 0, a libc function.             *)
FnMatch(pattern, path) ==
    LET m[i \in 0..Len(pattern), j \in 0..Len(path)] ==
        IF i = 0 THEN j = 0
        ELSE \/ pattern[i] = "*" /\ m[i - 1, j]
             \/ j > 0 /\ pattern[i] = "*" /\ path[j] # "/" /\ m[i, j - 1]
             \/ j > 0 /\ pattern[i] \in {"?", "["} /\ path[j] # "/" /\ m[i - 1, j - 1]
             \/ j > 0 /\ pattern[i] = path[j] /\ m[i - 1, j - 1]
    IN  m[Len(pattern), Len(path)]

(* A capture is the pair of its first and last position in the path.       *)
NoCapture == [ok |-> FALSE, at |-> 0, caps |-> << >>]
Captured(path, cap) == SubSeq(path, cap[1], cap[2])

(* One '*' and the literal that follows it, up to the next '*': what the   *)
(* star takes ends at the next '/' or before the last place in the segment *)
(* where the literal begins; the last star of a pattern takes the rest.    *)
Cuts(path, at, lit, last) ==
    LET end  == NextOf("/", path, at)
        head == Upto(lit, NextOf("/", lit, 1) - 1)
    IN  IF last /\ lit = << >> THEN {Len(path) + 1}
        ELSE IF head = << >> /\ lit # << >> THEN {end} \cap DOMAIN path
        ELSE {i \in at..(end - Len(head)) : IsPrefix(head, From(path, i))}

CaptureUpto(path, st, lit, cuts) ==
    LET cut == Max(cuts)
    IN  IF ~st.ok \/ cuts = {} \/ ~IsPrefix(lit, From(path, cut)) THEN NoCapture
        ELSE [ok |-> TRUE, at |-> cut + Len(lit),
              caps |-> Append(st.caps, <<st.at, cut - 1>>)]

CaptureOne(path, st, lit, last) ==
    CaptureUpto(path, st, lit, Cuts(path, st.at, lit, last))

Whole(path, st) == IF st.ok /\ st.at = Len(path) + 1 THEN st ELSE NoCapture

CaptureStars(pattern, path) ==
    LET lits  == SplitAtAny({"*"}, pattern)
        start == [ok |-> OnlyStars(pattern) /\ IsPrefix(lits[1], path),
                  at |-> Len(lits[1]) + 1, caps |-> << >>]
    IN  Whole(path, FoldLeft(LAMBDA st, k : CaptureOne(path, st, lits[k], k = Len(lits)),
                             start, [k \in 1..(Len(lits) - 1) |-> k + 1]))

-----------------------------------------------------------------------------
(* The rule table, from PATH_MAPPING and PATH_MAPPING_EXCLUDE.             *)

Trim(s) ==
    LET ink == {i \in DOMAIN s : s[i] # " "}
    IN  IF ink = {} THEN << >> ELSE SubSeq(s, Min(ink), Max(ink))

SplitPair(text, colon) ==
    [from |-> Trim(Upto(text, colon - 1)), to |-> Trim(From(text, colon + 1))]
ParsePair(entry) == SplitPair(entry, NextOf(":", entry, 1))

Limited(seq) == Upto(seq, Min({MaxRules, Len(seq)}))

ParseMapping(env) ==
    LET entries == SplitAtAny({","}, env)
    IN  SelectSeq([i \in DOMAIN entries |-> ParsePair(entries[i])],
                  LAMBDA p : p.from # << >> /\ p.to # << >>)

(* The tables that are used when a variable is not set or empty.           *)
DefaultMappings ==
    <<[from |-> <<"/", "tmp", "/", "path-mapping", "/", "tests", "/", "virtual">>,
       to   |-> <<"/", "tmp", "/", "path-mapping", "/", "tests", "/", "real">>]>>
DefaultExcludes == << <<"/", "etc", "/", "passwd">>, <<"/", "etc", "/", "group">>,
                      <<"/", "etc", "/", "nsswitch.conf">> >>

LoadMappings(env) ==
    Limited(IF env = << >> THEN DefaultMappings ELSE ParseMapping(env))

LoadExcludes(env) ==
    LET entries == SelectSeq(SplitAtAny({","}, env), LAMBDA e : e # << >>)
    IN  Limited(IF env = << >> THEN DefaultExcludes
                ELSE [i \in DOMAIN entries |-> Normalize(entries[i])])

IsExcluded(path, excludes) ==
    /\ path # << >> /\ Head(path) = "/"
    /\ \E i \in DOMAIN excludes :
            IF IsGlob(excludes[i]) THEN FnMatch(excludes[i], path)
                                   ELSE PrefixMatches(excludes[i], path)

-----------------------------------------------------------------------------
(* From the program's name to the real path. Every mapping function here   *)
(* answers with the string and whether it is a new one (the code compares  *)
(* pointers).                                                              *)

Same(path) == [new |-> FALSE, path |-> path]
Made(path) == [new |-> TRUE, path |-> path]

(* A result that does not fit the caller's buffer leaves the path alone.   *)
Bug_Fitted(in, out, room) == Made(out)
Fitted(in, out, room) == IF Len(out) > room THEN Same(in) ELSE Made(out)

(* What one rule does to the best match found so far. A plain prefix that  *)
(* wins over an earlier glob keeps that glob's captures.                   *)
NoMatch == [rule |-> 0, len |-> 0, tail |-> << >>, caps |-> << >>]

StarRule(rules, in, best, i) ==
    LET from == rules[i].from
        star == NextOf("*", from, 1)
        rest == From(in, star)
        end  == IF star = Len(from) THEN Len(in) ELSE NextOf("/", in, star) - 1
    IN  IF ~IsPrefix(Upto(from, star - 1), in) \/ star - 1 < best.len THEN best
        ELSE [rule |-> i, len |-> star - 1, tail |-> rest, caps |-> << <<star, end>> >>]

GlobHit(from, in, best, i, got) ==
    IF (OnlyStars(from) /\ ~got.ok /\ ~FnMatch(from, in)) \/ Len(in) < best.len THEN best
    ELSE [rule |-> i, len |-> Len(in), tail |-> << >>, caps |-> got.caps]
GlobRule(rules, in, best, i) ==
    GlobHit(rules[i].from, in, best, i, CaptureStars(rules[i].from, in))

Bug_PlainRule(rules, in, best, i) ==
    LET n == PathLen(rules[i].from)
    IN  IF ~PrefixMatches(rules[i].from, in) THEN best
        ELSE [best EXCEPT !.rule = i, !.len = n, !.tail = From(in, n + 1)]
PlainRule(rules, in, best, i) ==
    LET n == PathLen(rules[i].from)
    IN  IF ~PrefixMatches(rules[i].from, in) \/ n <= best.len THEN best
        ELSE [best EXCEPT !.rule = i, !.len = n, !.tail = From(in, n + 1)]

TryRule(rules, in, best, i) ==
    CASE ~IsGlob(rules[i].from) -> PlainRule(rules, in, best, i)
      [] OnlyStars(rules[i].from) /\ Len(SelectSeq(rules[i].from, LAMBDA t : t = "*")) = 1
            -> StarRule(rules, in, best, i)
      [] OTHER -> GlobRule(rules, in, best, i)

BestMatch(rules, in) ==
    FoldLeft(LAMBDA best, i : TryRule(rules, in, best, i), NoMatch, [i \in DOMAIN rules |-> i])

(* TO with its stars replaced in turn; a '/' after a replaced star is not  *)
(* doubled.                                                                *)
Substitute(to, in, caps) ==
    LET Stars(i) == Len(SelectSeq(Upto(to, i), LAMBDA t : t = "*"))
        Put(out, i) ==
            CASE to[i] = "*" /\ Stars(i) <= Len(caps) -> out \o Captured(in, caps[Stars(i)])
              [] /\ to[i] = "/" /\ i > 1 /\ to[i - 1] = "*" /\ Stars(i) <= Len(caps)
                 /\ out = << >> \/ Last(out) = "/" -> out
              [] OTHER -> Append(out, to[i])
    IN  FoldLeft(Put, << >>, [i \in DOMAIN to |-> i])

JoinTail(to, tail) ==
    to \o (IF to # << >> /\ tail # << >> /\ Last(to) # "/" /\ Head(tail) # "/"
           THEN <<"/">> ELSE << >>) \o tail

ApplyRule(in, rules, best) ==
    LET to   == rules[best.rule].to
        out  == IF best.caps # << >> THEN Substitute(to, in, best.caps)
                ELSE JoinTail(to, best.tail)
        room == IF best.caps # << >> THEN MaxPath - 1 ELSE MaxPath - 2
    IN  IF best.rule = 0 THEN Same(in) ELSE Fitted(in, out, room)

ApplyMapping(in, rules) ==
    IF \E i \in DOMAIN rules : PrefixMatches(rules[i].to, in) THEN Same(in)
    ELSE ApplyRule(in, rules, BestMatch(rules, in))

-----------------------------------------------------------------------------
(* From the real path back to the program's name.                          *)

UnderTo(path, rules) ==
    /\ path # << >> /\ Head(path) = "/"
    /\ \E i \in DOMAIN rules :
            IF IsGlob(rules[i].from) THEN FnMatch(rules[i].to, path)
                                     ELSE PrefixMatches(rules[i].to, path)

TryReverse(to, in, best, i, got) ==
    LET n   == IF IsGlob(to) THEN Len(in) ELSE PathLen(to)
        hit == IF IsGlob(to) THEN (got.ok \/ FnMatch(to, in)) /\ n >= best.len
               ELSE PrefixMatches(to, in) /\ n > best.len
    IN  IF hit THEN [rule |-> i, len |-> n, caps |-> got.caps] ELSE best

BestReverse(rules, in) ==
    FoldLeft(LAMBDA best, i : TryReverse(rules[i].to, in, best, i, CaptureStars(rules[i].to, in)),
             [rule |-> 0, len |-> 0, caps |-> << >>], [i \in DOMAIN rules |-> i])

(* FROM with its stars replaced in turn, each capture set off by slashes.  *)
SubstituteBack(from, in, caps) ==
    LET Stars(i) == Len(SelectSeq(Upto(from, i), LAMBDA t : t = "*"))
        Sep(out, wanted) == IF out # << >> /\ Last(out) # "/" /\ wanted
                            THEN Append(out, "/") ELSE out
        Put(out, i) ==
            IF from[i] # "*" \/ Stars(i) > Len(caps) THEN Append(out, from[i])
            ELSE LET cap  == caps[Stars(i)]
                     lead == Sep(out, cap[1] > Len(in) \/ in[cap[1]] # "/")
                 IN  Sep(lead \o Captured(in, cap), i < Len(from) /\ from[i + 1] # "/")
    IN  FoldLeft(Put, << >>, [i \in DOMAIN from |-> i])

ReverseRule(in, rules, best) ==
    LET from == rules[best.rule].from
        out  == IF best.caps # << >> /\ Has("*", from) THEN SubstituteBack(from, in, best.caps)
                ELSE Upto(from, PathLen(from)) \o From(in, PathLen(rules[best.rule].to) + 1)
        room == IF best.caps # << >> /\ Has("*", from) THEN MaxPath - 1 ELSE MaxPath - 2
    IN  IF best.rule = 0 THEN Same(in) ELSE Fitted(in, out, room)

Bug_ReverseMapping(in, rules) ==
    LET best == BestReverse(rules, in)
        rule == rules[best.rule]
    IN  IF best.rule = 0 THEN Same(in)
        ELSE Made(Upto(rule.from, PathLen(rule.from)) \o From(in, Len(rule.to) + 1))
ReverseMapping(in, rules) ==
    IF in = << >> THEN Same(in) ELSE ReverseRule(in, rules, BestReverse(rules, in))

VirtualizeCwd(real, rules) ==
    IF real # << >> /\ UnderTo(real, rules) THEN ReverseMapping(real, rules) ELSE Same(real)

(* A reversed path is not used when it is excluded.                        *)
Unless(virt, real, excludes) ==
    IF virt.new /\ IsExcluded(virt.path, excludes) THEN Same(real) ELSE virt
ReverseResult(real, rules, excludes) == Unless(ReverseMapping(real, rules), real, excludes)

DirName(s)  == Upto(s, LastOf("/", s) - 1)
BaseName(s) == From(s, LastOf("/", s) + 1)

(* The name under which an entry of a directory is listed. Only when the   *)
(* way back gives nothing new, an entry that is the last segment of a TO,  *)
(* seen in the directory of that TO or of its FROM, takes the last segment *)
(* of FROM.                                                                *)
SiblingNames(dir, entry, side, rules, excludes) ==
    {i \in DOMAIN rules :
        LET s == IF side = "to" THEN rules[i].to ELSE rules[i].from
        IN  /\ LastOf("/", s) > 1 /\ Normalize(DirName(s)) = Normalize(dir)
            /\ BaseName(rules[i].to) = entry
            /\ BaseName(rules[i].from) # << >>
            /\ ~IsExcluded(rules[i].from, excludes)}

EntryName(virt, dir, entry, rules, excludes) ==
    LET near(side) == SiblingNames(dir, entry, side, rules, excludes)
    IN  IF virt.new
        THEN IF IsExcluded(virt.path, excludes) \/ BaseName(virt.path) = << >>
             THEN entry ELSE BaseName(virt.path)
        ELSE IF near("to") # {} THEN BaseName(rules[Min(near("to"))].from)
        ELSE IF near("from") # {} THEN BaseName(rules[Min(near("from"))].from)
        ELSE entry

ReverseBasename(dir, entry, rules, excludes) ==
    IF \/ entry \in {<<".">>, <<".", ".">>}
       \/ \A i \in DOMAIN rules : ~PrefixMatches(rules[i].to, dir)
       \/ Len(dir) + Len(entry) + 2 >= MaxPath
    THEN entry
    ELSE EntryName(ReverseMapping(Normalize(dir \o <<"/">> \o entry), rules),
                   dir, entry, rules, excludes)

(* Entries are renamed in place: only to a name that is no longer.         *)
InPlace(name, entry) == IF Len(name) <= Len(entry) THEN name ELSE entry
ListedName(dir, entry, rules, excludes) ==
    InPlace(ReverseBasename(dir, entry, rules, excludes), entry)
=============================================================================
