--------------------------- MODULE ExecHooksProofs ---------------------------
(***************************************************************************)
(* Proofs about the exec hooks, for any programs, hosts and chains of      *)
(* calls: what a host program is handed, and what the library keeps of an  *)
(* environment that the program clears.                                    *)
(***************************************************************************)
EXTENDS ExecHooks, OrderLemmas, TLAPS

\* What the constructors captured: the bundle's translations, if it has any, are
\* in every environment that a program of the bundle is started with.
SavedDir ==
    /\ phase = "load" => /\ "locale" \in Shipped => Get(env, "TEXTDOMAINDIR") = "bundle"
                         /\ saved = NothingSaved /\ result = NoResult
    /\ phase = "run" /\ "locale" \in Shipped => saved.textdomaindir = "bundle"

\* Whatever programs did to it, no environment loses the host's directories:
\* not the caller's, nor the one the next program is handed.
DirsKept ==
    /\ HostBehind(env)
    /\ result.call \in Launches => HostBehind(result.env)

IInv == /\ SavedDir /\ DirsKept
        /\ TextDomainKept /\ ExternalClean /\ PathRepaired /\ PortableDirsRestored

-----------------------------------------------------------------------------
(* Environments.                                                           *)

\* Two environments agree on the variables for directories.
SameDirs(e, f) ==
    \A v \in DirVars : (v \in DOMAIN e <=> v \in DOMAIN f) /\ (v \in DOMAIN e => e[v] = f[v])

\* Of a list that is cut down, what is left keeps its values.
LEMMA RestrictAt ==
  ASSUME NEW e, NEW S
  PROVE  /\ DOMAIN Restrict(e, S) = S
         /\ \A w \in S : Restrict(e, S)[w] = e[w]
BY DEF Restrict

\* Unsetting a variable leaves the others as they were (unsetenv).
LEMMA DropAt ==
  ASSUME NEW e, NEW v
  PROVE  /\ DOMAIN Drop(e, v) = DOMAIN e \ {v}
         /\ \A w : w # v => Get(Drop(e, v), w) = Get(e, w)
         /\ \A w \in DOMAIN e : w # v => Drop(e, v)[w] = e[w]
BY DEF Drop, Restrict, Get

\* Whether the host is behind a list depends on the directory variables alone.
LEMMA SameDirsHost ==
  ASSUME NEW e, NEW f, SameDirs(e, f), HostBehind(e)
  PROVE  HostBehind(f)
BY DEF SameDirs, HostBehind, HomeBehind, CacheBehind, Either, Get, DirVars

\* Setting or unsetting another variable does not touch the directories.
LEMMA PutOther ==
  ASSUME NEW e, NEW v, NEW x, v \notin DirVars, HostBehind(e)
  PROVE  HostBehind(Put(e, v, x))
<1>1. SameDirs(e, Put(e, v, x))
  BY DEF SameDirs, Put
<1>2. QED
  BY <1>1, SameDirsHost

\* Leaving out variables that are no directories keeps the host behind a list.
LEMMA RestrictOther ==
  ASSUME NEW e, NEW S, DOMAIN e \cap DirVars \subseteq S, S \subseteq DOMAIN e, HostBehind(e)
  PROVE  HostBehind(Restrict(e, S))
<1>1. SameDirs(e, Restrict(e, S))
  BY RestrictAt DEF SameDirs
<1>2. QED
  BY <1>1, SameDirsHost

\* Nor does it matter when a directory itself is unset.
LEMMA DropOne ==
  ASSUME NEW e, NEW v, v \notin DirVars \/ v \in {"HOME", "XDG_CACHE_HOME"}, HostBehind(e)
  PROVE  HostBehind(Drop(e, v))
<1>1. CASE v \notin DirVars
  <2>1. SameDirs(e, Drop(e, v))
    BY <1>1, DropAt DEF SameDirs
  <2>2. QED
    BY <2>1, SameDirsHost
<1>2. CASE v \in {"HOME", "XDG_CACHE_HOME"}
  <2>1. /\ DOMAIN Drop(e, v) = DOMAIN e \ {v}
        /\ \A w \in DirVars : w # v => Get(Drop(e, v), w) = Get(e, w)
        /\ Get(Drop(e, v), v) = "empty"
    <3>1. DOMAIN Drop(e, v) = DOMAIN e \ {v} /\ \A w : w # v => Get(Drop(e, v), w) = Get(e, w)
      BY DropAt
    <3>2. QED
      BY <3>1 DEF Get
  <2>2. QED
    BY <1>2, <2>1 DEF HostBehind, HomeBehind, CacheBehind, Either, DirVars
<1>3. QED
  BY <1>1, <1>2

\* The host is behind the environment clearenv leaves.
LEMMA NoVarsHost == HostBehind(NoVars)
BY DEF NoVars, HostBehind, HomeBehind, CacheBehind, Either, Get

\* One directory is restored from its copy, when there is one (setenv).
LEMMA CopiedAt ==
  ASSUME NEW g, NEW from, NEW v, from # v
  PROVE  /\ DOMAIN g \subseteq DOMAIN Copied(g, from, v)
         /\ DOMAIN Copied(g, from, v) \subseteq DOMAIN g \cup {v}
         /\ \A w : w # v => Get(Copied(g, from, v), w) = Get(g, w)
         /\ Get(Copied(g, from, v), v) = Either(Get(g, from), Get(g, v))
         /\ v \in DOMAIN Copied(g, from, v) <=> v \in DOMAIN g \/ Get(g, from) # "empty"
<1>1. CASE Get(g, from) = "empty"
  BY <1>1 DEF Copied, Either
<1>2. CASE Get(g, from) # "empty"
  <2>1. Copied(g, from, v) = Put(g, v, g[from]) /\ Get(g, from) = g[from]
    BY <1>2 DEF Copied, Get
  <2>2. DOMAIN Copied(g, from, v) = DOMAIN g \cup {v} /\ Get(Copied(g, from, v), v) = g[from]
    BY <2>1 DEF Put, Get
  <2>3. ASSUME NEW w, w # v PROVE Get(Copied(g, from, v), w) = Get(g, w)
    BY <2>1, <2>3 DEF Put, Get
  <2>4. QED
    BY <1>2, <2>1, <2>2, <2>3 DEF Either
<1>3. QED
  BY <1>1, <1>2

\* No step of restore_portable_dirs loses the host's directories, each adds at
\* most the variable that it sets, and the last one leaves the host's in place.
LEMMA RestoreSteps ==
  ASSUME NEW e, HostBehind(e)
  PROVE  \E d, c, r, h, f :
           /\ RestorePortableDirs(e) = <<e, d, c, r, h, f>>
           /\ HostBehind(d) /\ HostBehind(c) /\ HostBehind(r) /\ HostBehind(h) /\ HostBehind(f)
           /\ DOMAIN e \subseteq DOMAIN d /\ DOMAIN d \subseteq DOMAIN e \cup {"XDG_DATA_HOME"}
           /\ DOMAIN d \subseteq DOMAIN c /\ DOMAIN c \subseteq DOMAIN d \cup {"XDG_CONFIG_HOME"}
           /\ DOMAIN c \subseteq DOMAIN r /\ DOMAIN r \subseteq DOMAIN c \cup {"XDG_CACHE_HOME"}
           /\ DOMAIN r \subseteq DOMAIN h /\ DOMAIN h \subseteq DOMAIN r \cup {"XDG_CACHE_HOME"}
           /\ DOMAIN h \subseteq DOMAIN f /\ DOMAIN f \subseteq DOMAIN h \cup {"HOME"}
           /\ "XDG_CACHE_HOME" \in DOMAIN h => h["XDG_CACHE_HOME"] = "host"
           /\ \A v \in DOMAIN f \cap {"HOME", "XDG_CACHE_HOME"} : f[v] = "host"
<1> DEFINE d == Copied(e, "REAL_XDG_DATA_HOME", "XDG_DATA_HOME")
           c == Copied(d, "REAL_XDG_CONFIG_HOME", "XDG_CONFIG_HOME")
           r == Copied(c, "REAL_XDG_CACHE_HOME", "XDG_CACHE_HOME")
           h == IF Get(e, "USE_HOST_XDG_CACHE_HOME") = "1" THEN r
                ELSE Copied(r, "HOST_XDG_CACHE_HOME", "XDG_CACHE_HOME")
           f == Copied(h, "REAL_HOME", "HOME")
<1>1. RestorePortableDirs(e) = <<e, d, c, r, h, f>>
  BY DEF RestorePortableDirs
<1>2. /\ DOMAIN e \subseteq DOMAIN d /\ DOMAIN d \subseteq DOMAIN e \cup {"XDG_DATA_HOME"}
      /\ \A w \in DirVars : Get(d, w) = Get(e, w)
  BY CopiedAt DEF DirVars
<1> HIDE DEF d
<1>3. /\ DOMAIN d \subseteq DOMAIN c /\ DOMAIN c \subseteq DOMAIN d \cup {"XDG_CONFIG_HOME"}
      /\ \A w \in DirVars : Get(c, w) = Get(d, w)
  BY CopiedAt DEF DirVars
<1> HIDE DEF c
<1>4. /\ DOMAIN c \subseteq DOMAIN r /\ DOMAIN r \subseteq DOMAIN c \cup {"XDG_CACHE_HOME"}
      /\ \A w \in DirVars \ {"XDG_CACHE_HOME"} : Get(r, w) = Get(c, w)
      /\ Get(r, "XDG_CACHE_HOME") = Either(Get(c, "REAL_XDG_CACHE_HOME"), Get(c, "XDG_CACHE_HOME"))
      /\ "XDG_CACHE_HOME" \in DOMAIN r <=>
           "XDG_CACHE_HOME" \in DOMAIN c \/ Get(c, "REAL_XDG_CACHE_HOME") # "empty"
  BY CopiedAt
<1> HIDE DEF r
<1>5. HostBehind(d) /\ HostBehind(c)
  BY <1>2, <1>3 DEF HostBehind, HomeBehind, CacheBehind, DirVars
<1>6. HostBehind(r)
  BY <1>4, <1>5 DEF HostBehind, HomeBehind, CacheBehind, Either, DirVars
<1>7. /\ DOMAIN r \subseteq DOMAIN h /\ DOMAIN h \subseteq DOMAIN r \cup {"XDG_CACHE_HOME"}
      /\ \A w \in DirVars \ {"XDG_CACHE_HOME"} : Get(h, w) = Get(r, w)
      /\ "XDG_CACHE_HOME" \in DOMAIN h => Get(h, "XDG_CACHE_HOME") = "host"
      /\ HostBehind(h)
  <2>1. CASE Get(e, "USE_HOST_XDG_CACHE_HOME") = "1"
    <3>1. h = r /\ Get(c, "USE_HOST_XDG_CACHE_HOME") = "1"
      BY <1>2, <1>3, <2>1 DEF DirVars
    <3> HIDE DEF h
    <3>2. "XDG_CACHE_HOME" \in DOMAIN r => Get(r, "XDG_CACHE_HOME") = "host"
      BY <1>4, <1>5, <3>1 DEF HostBehind, CacheBehind, Either
    <3>3. QED
      BY <1>6, <3>1, <3>2
  <2>2. CASE Get(e, "USE_HOST_XDG_CACHE_HOME") # "1"
    <3>1. /\ DOMAIN r \subseteq DOMAIN h /\ DOMAIN h \subseteq DOMAIN r \cup {"XDG_CACHE_HOME"}
          /\ \A w \in DirVars \ {"XDG_CACHE_HOME"} : Get(h, w) = Get(r, w)
          /\ Get(h, "XDG_CACHE_HOME") = Either(Get(r, "HOST_XDG_CACHE_HOME"), Get(r, "XDG_CACHE_HOME"))
          /\ "XDG_CACHE_HOME" \in DOMAIN h <=>
               "XDG_CACHE_HOME" \in DOMAIN r \/ Get(r, "HOST_XDG_CACHE_HOME") # "empty"
      BY <2>2, CopiedAt
    <3> HIDE DEF h
    <3>2. Get(r, "USE_HOST_XDG_CACHE_HOME") # "1"
      BY <1>2, <1>3, <1>4, <2>2 DEF DirVars
    <3>3. "XDG_CACHE_HOME" \in DOMAIN h => Get(h, "XDG_CACHE_HOME") = "host"
      <4>1. CASE Get(r, "HOST_XDG_CACHE_HOME") # "empty"
        BY <1>6, <3>1, <3>2, <4>1 DEF HostBehind, CacheBehind, Either
      <4>2. CASE Get(r, "HOST_XDG_CACHE_HOME") = "empty"
        <5>1. Get(c, "HOST_XDG_CACHE_HOME") = "empty" /\ Get(h, "XDG_CACHE_HOME") = Get(r, "XDG_CACHE_HOME")
          BY <1>4, <3>1, <4>2 DEF DirVars, Either
        <5>2. CacheBehind(c) = Get(r, "XDG_CACHE_HOME")
          BY <1>4, <5>1 DEF CacheBehind, Either
        <5>3. QED
          BY <1>4, <1>5, <3>1, <4>2, <5>1, <5>2 DEF HostBehind, CacheBehind, Either
      <4>3. QED
        BY <4>1, <4>2
    <3>4. HostBehind(h)
      BY <1>6, <3>1, <3>2, <3>3 DEF HostBehind, HomeBehind, CacheBehind, Either, DirVars
    <3>5. QED
      BY <3>1, <3>3, <3>4
  <2>3. QED
    BY <2>1, <2>2
<1> HIDE DEF h
<1>8. /\ DOMAIN h \subseteq DOMAIN f /\ DOMAIN f \subseteq DOMAIN h \cup {"HOME"}
      /\ \A w : w # "HOME" => Get(f, w) = Get(h, w)
      /\ Get(f, "HOME") = Either(Get(h, "REAL_HOME"), Get(h, "HOME"))
      /\ "HOME" \in DOMAIN f <=> "HOME" \in DOMAIN h \/ Get(h, "REAL_HOME") # "empty"
  BY CopiedAt
<1> HIDE DEF f
<1>9. "HOME" \in DOMAIN f => Get(f, "HOME") = "host"
  BY <1>7, <1>8 DEF HostBehind, HomeBehind, Either
<1>10. "XDG_CACHE_HOME" \in DOMAIN f => Get(f, "XDG_CACHE_HOME") = "host"
  BY <1>7, <1>8
<1>11. HostBehind(f)
  BY <1>7, <1>8, <1>9 DEF HostBehind, HomeBehind, CacheBehind, Either
<1>12. /\ "XDG_CACHE_HOME" \in DOMAIN h => h["XDG_CACHE_HOME"] = "host"
       /\ \A v \in DOMAIN f \cap {"HOME", "XDG_CACHE_HOME"} : f[v] = "host"
  BY <1>7, <1>9, <1>10 DEF Get
<1>13. QED
  BY <1>1, <1>2, <1>3, <1>4, <1>5, <1>6, <1>7, <1>8, <1>11, <1>12

\* What is left of environ once restore_portable_dirs is through, and what the
\* pointer that was read before it finds.
LEMMA Restored ==
  ASSUME NEW e, HostBehind(e), NEW given \in SeenThrough(RestorePortableDirs(e)),
         NEW f, f = Last(RestorePortableDirs(e))
  PROVE  /\ HostBehind(f) /\ "APPDIR" \in DOMAIN e <=> "APPDIR" \in DOMAIN f
         /\ \A v \in DOMAIN f \cap {"HOME", "XDG_CACHE_HOME"} : f[v] = "host"
         /\ HostBehind(given)
         /\ \A v \in DOMAIN given \cap {"HOME", "XDG_CACHE_HOME"} :
              given[v] = "host" \/ RestoredBefore(v) \cap (DOMAIN f \ DOMAIN given) # {}
<1>1. PICK d, c, r, h, l :
        /\ RestorePortableDirs(e) = <<e, d, c, r, h, l>>
        /\ HostBehind(d) /\ HostBehind(c) /\ HostBehind(r) /\ HostBehind(h) /\ HostBehind(l)
        /\ DOMAIN e \subseteq DOMAIN d /\ DOMAIN d \subseteq DOMAIN e \cup {"XDG_DATA_HOME"}
        /\ DOMAIN d \subseteq DOMAIN c /\ DOMAIN c \subseteq DOMAIN d \cup {"XDG_CONFIG_HOME"}
        /\ DOMAIN c \subseteq DOMAIN r /\ DOMAIN r \subseteq DOMAIN c \cup {"XDG_CACHE_HOME"}
        /\ DOMAIN r \subseteq DOMAIN h /\ DOMAIN h \subseteq DOMAIN r \cup {"XDG_CACHE_HOME"}
        /\ DOMAIN h \subseteq DOMAIN l /\ DOMAIN l \subseteq DOMAIN h \cup {"HOME"}
        /\ "XDG_CACHE_HOME" \in DOMAIN h => h["XDG_CACHE_HOME"] = "host"
        /\ \A v \in DOMAIN l \cap {"HOME", "XDG_CACHE_HOME"} : l[v] = "host"
  BY RestoreSteps
<1>2. /\ f = l
      /\ \/ given = l
         \/ given = e /\ DOMAIN d # DOMAIN e
         \/ given = d /\ DOMAIN c # DOMAIN d
         \/ given = c /\ DOMAIN r # DOMAIN c
         \/ given = r /\ DOMAIN h # DOMAIN r
         \/ given = h /\ DOMAIN l # DOMAIN h
  <2> DEFINE s == <<e, d, c, r, h, l>>
  <2>1. /\ Len(s) = 6 /\ s[1] = e /\ s[2] = d /\ s[3] = c /\ s[4] = r /\ s[5] = h /\ s[6] = l
    OBVIOUS
  <2>2. f = s[Len(s)] /\ given \in SeenThrough(s)
    BY <1>1 DEF Last
  <2> HIDE DEF s
  <2>3. given = s[6] \/ \E j \in 1 .. 5 : given = s[j] /\ DOMAIN s[j + 1] # DOMAIN s[j]
    BY <2>1, <2>2 DEF SeenThrough, Last
  <2>4. CASE given = s[6]
    BY <2>1, <2>2, <2>4
  <2>5. CASE \E j \in 1 .. 5 : given = s[j] /\ DOMAIN s[j + 1] # DOMAIN s[j]
    <3>1. PICK j \in 1 .. 5 : given = s[j] /\ DOMAIN s[j + 1] # DOMAIN s[j]
      BY <2>5
    <3>2. j = 1 \/ j = 2 \/ j = 3 \/ j = 4 \/ j = 5
      OBVIOUS
    <3>3. QED
      BY <2>1, <2>2, <3>1, <3>2
  <2>6. QED
    BY <2>3, <2>4, <2>5
<1>3. "APPDIR" \in DOMAIN e <=> "APPDIR" \in DOMAIN l
  BY <1>1
<1>4. HostBehind(given)
  BY <1>1, <1>2
<1>5. ASSUME NEW v \in DOMAIN given \cap {"HOME", "XDG_CACHE_HOME"}
      PROVE  given[v] = "host" \/ RestoredBefore(v) \cap (DOMAIN l \ DOMAIN given) # {}
  <2>1. CASE given = l
    BY <1>1, <2>1
  <2>2. CASE given = e /\ DOMAIN d # DOMAIN e
    <3>1. "XDG_DATA_HOME" \in DOMAIN l \ DOMAIN given
      BY <1>1, <2>2
    <3>2. QED
      BY <3>1 DEF RestoredBefore
  <2>3. CASE given = d /\ DOMAIN c # DOMAIN d
    <3>1. "XDG_CONFIG_HOME" \in DOMAIN l \ DOMAIN given
      BY <1>1, <2>3
    <3>2. QED
      BY <3>1 DEF RestoredBefore
  <2>4. ASSUME "XDG_CACHE_HOME" \in DOMAIN l \ DOMAIN given
        PROVE  RestoredBefore(v) \cap (DOMAIN l \ DOMAIN given) # {}
    <3>1. v = "HOME"
      BY <2>4
    <3>2. QED
      BY <2>4, <3>1 DEF RestoredBefore
  <2>5. CASE given = c /\ DOMAIN r # DOMAIN c
    BY <1>1, <2>4, <2>5
  <2>6. CASE given = r /\ DOMAIN h # DOMAIN r
    BY <1>1, <2>4, <2>6
  <2>7. CASE given = h /\ DOMAIN l # DOMAIN h
    <3>1. "HOME" \notin DOMAIN given
      BY <1>1, <2>7
    <3>2. QED
      BY <1>1, <2>7, <3>1
  <2>8. QED
    BY <1>2, <2>1, <2>2, <2>3, <2>5, <2>6, <2>7, Zenon
<1>6. QED
  BY <1>1, <1>2, <1>3, <1>4, <1>5

\* The settings that init_locale tries concern the locale.
LEMMA AttemptsAt ==
  ASSUME NEW e
  PROVE  /\ DOMAIN Attempts(e) = 1 .. Len(Attempts(e)) /\ Len(Attempts(e)) \in Nat \ {0}
         /\ \A i \in 1 .. Len(Attempts(e)) : Attempts(e)[i][1] \in {"LOCPATH", "LC_ALL"}
<1> DEFINE T == {<<"LOCPATH", "host">>, <<"LOCPATH", "bundle">>, <<"LC_ALL", "en_US.UTF-8">>,
                 <<"LC_ALL", "C.UTF-8">>, <<"LC_ALL", "C">>}
           a == << <<"LOCPATH", "host">> >>
           b == IF Get(e, "APPDIR") = "empty" THEN << >> ELSE << <<"LOCPATH", "bundle">> >>
           c == << <<"LC_ALL", "en_US.UTF-8">>, <<"LC_ALL", "C.UTF-8">>, <<"LC_ALL", "C">> >>
<1>1. a \in Seq(T) /\ b \in Seq(T) /\ c \in Seq(T) /\ Len(a) = 1
  OBVIOUS
<1>2. Attempts(e) = (a \o b) \o c
  BY DEF Attempts
<1>3. \A t \in T : t[1] \in {"LOCPATH", "LC_ALL"}
  OBVIOUS
<1> HIDE DEF T, a, b, c
<1>4. a \o b \in Seq(T) /\ Len(a \o b) >= 1
  BY <1>1
<1>5. (a \o b) \o c \in Seq(T) /\ Len((a \o b) \o c) >= 1
  <2> DEFINE ab == a \o b
  <2> HIDE DEF ab
  <2>1. ab \in Seq(T) /\ Len(ab) >= 1
    BY <1>4 DEF ab
  <2>2. ab \o c \in Seq(T) /\ Len(ab \o c) >= 1
    BY <1>1, <2>1
  <2>3. QED
    BY <2>2 DEF ab
<1>6. QED
  BY <1>2, <1>3, <1>5

\* init_locale changes no other variable.
LEMMA InitLocaleHost ==
  ASSUME NEW e, NEW works, HostBehind(e)
  PROVE  HostBehind(InitLocale(e, works))
<1> DEFINE tries == Attempts(e)
           good == {i \in DOMAIN tries : tries[i] \in works \/ i = Len(tries)}
           upto == IF <<"LANG", "host">> \in works THEN 0 ELSE Min(good)
           made(v) == {i \in 1 .. upto : tries[i][1] = v}
           touched == {tries[i][1] : i \in 1 .. upto}
<1>1. good \in SUBSET Nat /\ good # {} /\ good \subseteq 1 .. Len(tries)
  BY AttemptsAt
<1>2. Min(good) \in good
  <2> HIDE DEF good
  <2>1. \E m \in good : \A n \in good : m <= n
    BY <1>1, NatMin
  <2>2. QED
    BY <2>1 DEF Min
<1>3. upto \in Nat /\ upto <= Len(tries)
  <2> HIDE DEF good, tries
  <2>1. Len(tries) \in Nat
    BY AttemptsAt DEF tries
  <2>2. Min(good) \in 1 .. Len(tries)
    BY <1>1, <1>2
  <2>3. ASSUME NEW m \in 1 .. Len(tries) PROVE m \in Nat /\ m <= Len(tries)
    BY <2>1
  <2>4. Min(good) \in Nat /\ Min(good) <= Len(tries)
    BY <2>2, <2>3, Zenon
  <2>5. 0 \in Nat /\ 0 <= Len(tries)
    BY <2>1
  <2>6. QED
    BY <2>4, <2>5, Zenon
<1>4. \A i \in 1 .. upto : tries[i][1] \in {"LOCPATH", "LC_ALL"}
  <2> HIDE DEF upto
  <2> QED BY <1>3, AttemptsAt
<1>5. InitLocale(e, works)
        = [v \in DOMAIN e \cup touched |-> IF made(v) = {} THEN e[v] ELSE tries[Max(made(v))][2]]
  BY DEF InitLocale
<1> HIDE DEF upto, tries
<1>6. touched \subseteq {"LOCPATH", "LC_ALL"} /\ \A v \in DirVars : made(v) = {}
  BY <1>4 DEF DirVars
<1> HIDE DEF touched, made
<1>7. SameDirs(e, InitLocale(e, works))
  BY <1>5, <1>6 DEF SameDirs, DirVars
<1>8. QED
  BY <1>7, SameDirsHost

\* sharun's own settings leave the directories alone too.
LEMMA SharunStarts ==
  ASSUME NEW e, NEW patched
  PROVE  /\ "locale" \in Shipped => Get(Sharun(e, patched), "TEXTDOMAINDIR") = "bundle"
         /\ HostBehind(e) => HostBehind(Sharun(e, patched))
<1> DEFINE u == Unbroken(e)
           p == Put(u, "PATH", BinFirst(Get(e, "PATH")))
           q == WithPlugins(p)
           d == WithTranslations(q)
<1>1. Sharun(e, patched) = IF patched THEN Put(d, "LD_PRELOAD", "name") ELSE d
  BY DEF Sharun
<1>2. HostBehind(e) => HostBehind(u)
  <2>1. HostBehind(e) => HostBehind(Drop(e, "LD_PRELOAD"))
    BY DropOne DEF DirVars
  <2>2. HostBehind(Drop(e, "LD_PRELOAD")) => HostBehind(Drop(Drop(e, "LD_PRELOAD"), "QT_PLUGIN_PATH"))
    BY DropOne DEF DirVars
  <2>3. QED
    BY <2>1, <2>2 DEF Unbroken
<1> HIDE DEF u
<1>3. HostBehind(u) => HostBehind(p)
  BY PutOther DEF DirVars
<1> HIDE DEF p
<1>4. HostBehind(p) => HostBehind(q)
  BY PutOther DEF WithPlugins, DirVars
<1> HIDE DEF q
<1>5. /\ HostBehind(q) => HostBehind(d)
      /\ "locale" \in Shipped => Get(d, "TEXTDOMAINDIR") = "bundle"
  <2>1. HostBehind(q) => HostBehind(Put(q, "TEXTDOMAINDIR", "bundle"))
    BY PutOther DEF DirVars
  <2>2. Get(Put(q, "TEXTDOMAINDIR", "bundle"), "TEXTDOMAINDIR") = "bundle"
    BY DEF Put, Get
  <2>3. QED
    BY <2>1, <2>2 DEF WithTranslations
<1> HIDE DEF d
<1>6. HostBehind(d) => HostBehind(Put(d, "LD_PRELOAD", "name"))
  BY PutOther DEF DirVars
<1>7. Get(Put(d, "LD_PRELOAD", "name"), "TEXTDOMAINDIR") = Get(d, "TEXTDOMAINDIR")
  BY DEF Put, Get
<1>8. QED
  BY <1>1, <1>2, <1>3, <1>4, <1>5, <1>6, <1>7

-----------------------------------------------------------------------------
(* The wrapped calls.                                                      *)

\* The list of VARS_TO_UNSET has neither PATH nor the directories in it.
LEMMA NotUnset == "PATH" \notin VarsToUnset /\ VarsToUnset \cap DirVars = {}
BY DEF VarsToUnset, DirVars

\* create_cleaned_env, called with APPDIR in the environment, hands on nothing
\* that leads into the bundle, and takes nothing else away.
LEMMA Cleaned ==
  ASSUME NEW e, NEW given
  PROVE  /\ DOMAIN CreateCleanedEnv(e, given) \subseteq DOMAIN given
         /\ \A v \in DOMAIN CreateCleanedEnv(e, given) : CreateCleanedEnv(e, given)[v] = given[v]
         /\ "APPDIR" \in DOMAIN e =>
              \A v \in DOMAIN CreateCleanedEnv(e, given) : ~Leads(v, CreateCleanedEnv(e, given)[v])
         /\ HostBehind(given) => HostBehind(CreateCleanedEnv(e, given))
<1> DEFINE S == {v \in DOMAIN given : ~Leads(v, given[v])}
<1>1. CASE "APPDIR" \notin DOMAIN e
  BY <1>1 DEF CreateCleanedEnv
<1>2. CASE "APPDIR" \in DOMAIN e
  <2>1. CreateCleanedEnv(e, given) = Restrict(given, S)
    BY <1>2 DEF CreateCleanedEnv
  <2>2. DOMAIN given \cap DirVars \subseteq S
    BY NotUnset DEF Leads
  <2>3. \A v \in S : ~Leads(v, given[v]) /\ v \in DOMAIN given
    OBVIOUS
  <2> HIDE DEF S
  <2>4. DOMAIN Restrict(given, S) = S /\ \A v \in S : Restrict(given, S)[v] = given[v]
    BY RestrictAt
  <2>5. HostBehind(given) => HostBehind(Restrict(given, S))
    <3>1. S \subseteq DOMAIN given
      BY <2>3
    <3>2. QED
      BY <2>2, <3>1, RestrictOther
  <2>6. QED
    BY <2>1, <2>3, <2>4, <2>5
<1>3. QED
  BY <1>1, <1>2

\* A program's own list is in order when environ is.
LEMMA OwnHost ==
  ASSUME HostBehind(env), NEW given \in OwnLists
  PROVE  HostBehind(given)
<1>1. HostBehind(Drop(env, "PATH"))
  BY DropOne DEF DirVars
<1>2. QED
  BY <1>1, NoVarsHost DEF OwnLists

\* exec_common keeps the invariant's conditions on what is handed on.
LEMMA ExecKeeps ==
  ASSUME HostBehind(env), NEW call \in {"execve", "execvpe"}, NEW prog, NEW own \in BOOLEAN,
         ExecCommon(call, prog, own), saved' = saved
  PROVE  /\ DirsKept' /\ phase' \in {phase, "ended"}
         /\ TextDomainKept' /\ ExternalClean' /\ PathRepaired' /\ PortableDirsRestored'
<1> DEFINE quiet == Drop(env, "LD_DEBUG")
           cleans == IsExternalProcess(quiet, prog) \/ Wrapped(prog)
           steps == IF cleans THEN RestorePortableDirs(quiet) ELSE <<quiet>>
           restored == Last(steps)
           E(g) == IF cleans THEN CreateCleanedEnv(restored, g) ELSE g
           Adds(g) == saved.appdir /\ ~HasPath(E(g))
           Mine(g) == IF Adds(g) THEN Put(restored, "PATH", FullPath) ELSE restored
           Handed(g) == IF Adds(g) THEN WithPath(E(g)) ELSE E(g)
           Hand(g) == /\ env' = Mine(g)
                      /\ result' = [Answered(call, prog, Handed(g), Found(Mine(g), prog))
                                     EXCEPT !.own = own, !.lacked = "PATH" \notin DOMAIN g]
                      /\ UNCHANGED phase
<1>1. CASE ~own /\ env = NoVars /\ saved.appdir
  <2>1. result' = Fault /\ phase' = "ended" /\ UNCHANGED env
    BY <1>1 DEF ExecCommon
  <2>2. result'.call = "fault"
    BY <2>1 DEF Fault, Answered
  <2>3. QED
    BY <2>1, <2>2 DEF DirsKept, TextDomainKept, ExternalClean, PathRepaired,
                      PortableDirsRestored, HostProgram, IsExec, Launches, InBundle
<1>2. CASE ~(~own /\ env = NoVars /\ saved.appdir)
  <2>1. PICK g : /\ Hand(g)
                 /\ IF own THEN g \in OwnLists ELSE g \in SeenThrough(steps)
    BY <1>2 DEF ExecCommon
  <2>2. HostBehind(quiet)
    BY DropOne DEF DirVars
  <2>3. /\ "APPDIR" \in DOMAIN quiet <=> "APPDIR" \in DOMAIN restored
        /\ HostBehind(restored)
        /\ cleans => \A v \in DOMAIN restored \cap {"HOME", "XDG_CACHE_HOME"} : restored[v] = "host"
    <3>1. CASE cleans
      <4>1. restored = Last(RestorePortableDirs(quiet))
        BY <3>1
      <4>2. restored \in SeenThrough(RestorePortableDirs(quiet))
        BY <4>1 DEF SeenThrough
      <4> HIDE DEF restored, quiet
      <4>3. QED
        BY <2>2, <4>1, <4>2, Restored
    <3>2. CASE ~cleans
      <4>1. restored = quiet
        BY <3>2 DEF Last
      <4>2. QED
        BY <2>2, <3>2, <4>1
    <3>3. QED
      BY <3>1, <3>2
  <2>4. /\ HostBehind(g)
        /\ ~own /\ cleans =>
             \A v \in DOMAIN g \cap {"HOME", "XDG_CACHE_HOME"} :
               g[v] = "host" \/ RestoredBefore(v) \cap (DOMAIN restored \ DOMAIN g) # {}
    <3>1. CASE own
      BY <2>1, <3>1, OwnHost
    <3>2. CASE ~own /\ cleans
      <4>1. restored = Last(RestorePortableDirs(quiet)) /\ g \in SeenThrough(RestorePortableDirs(quiet))
        BY <2>1, <3>2
      <4> HIDE DEF restored, quiet
      <4>2. QED
        BY <2>2, <3>2, <4>1, Restored
    <3>3. CASE ~own /\ ~cleans
      <4>1. g \in SeenThrough(<<quiet>>)
        BY <2>1, <3>3
      <4> HIDE DEF quiet
      <4>2. g = quiet
        BY <4>1 DEF SeenThrough, Last
      <4>3. QED
        BY <2>2, <3>3, <4>2
    <3>4. QED
      BY <3>1, <3>2, <3>3
  <2>5. /\ result'.call = call /\ result'.prog = prog /\ result'.own = own
        /\ result'.env = Handed(g) /\ result'.ok = Found(Mine(g), prog)
        /\ result'.lacked = ("PATH" \notin DOMAIN g)
        /\ env' = Mine(g) /\ phase' = phase
    BY <2>1 DEF Answered
  <2>6. prog.place = "host" /\ "APPDIR" \in DOMAIN quiet => cleans
    BY DEF IsExternalProcess
  <2> HIDE DEF quiet, cleans, steps, restored, Hand
  <2>7. /\ HostBehind(E(g)) /\ DOMAIN E(g) \subseteq DOMAIN g
        /\ \A v \in DOMAIN E(g) : E(g)[v] = g[v]
        /\ cleans /\ "APPDIR" \in DOMAIN restored => \A v \in DOMAIN E(g) : ~Leads(v, E(g)[v])
    BY <2>4, Cleaned
  <2> HIDE DEF E
  <2>8. /\ HostBehind(Handed(g))
        /\ \A v \in DOMAIN Handed(g) : v # "PATH" => v \in DOMAIN E(g) /\ Handed(g)[v] = E(g)[v]
    <3>1. HostBehind(Put(E(g), "PATH", FullPath))
      BY <2>7, PutOther DEF DirVars
    <3>2. QED
      BY <2>7, <3>1 DEF WithPath, Put
  <2>9. /\ HostBehind(Mine(g))
        /\ \A v : v # "PATH" => (v \in DOMAIN Mine(g) <=> v \in DOMAIN restored)
        /\ \A v \in DOMAIN restored : v # "PATH" => Mine(g)[v] = restored[v]
    <3>1. HostBehind(Put(restored, "PATH", FullPath))
      BY <2>3, PutOther DEF DirVars
    <3>2. QED
      BY <2>3, <3>1 DEF Put
  <2>10. "PATH" \notin DOMAIN g /\ saved.appdir =>
           /\ HasAppdir(Get(Handed(g), "PATH")) /\ HasAppdir(Get(Mine(g), "PATH"))
           /\ prog.place = "bundle" => Found(Mine(g), prog)
    <3> SUFFICES ASSUME "PATH" \notin DOMAIN g, saved.appdir
                 PROVE  /\ HasAppdir(Get(Handed(g), "PATH")) /\ HasAppdir(Get(Mine(g), "PATH"))
                        /\ prog.place = "bundle" => Found(Mine(g), prog)
      OBVIOUS
    <3>1. "PATH" \notin DOMAIN E(g) /\ Adds(g)
      BY <2>7 DEF HasPath, Get
    <3>2. Handed(g) = Put(E(g), "PATH", FullPath) /\ Mine(g) = Put(restored, "PATH", FullPath)
      BY <3>1 DEF WithPath
    <3>3. HasAppdir(FullPath)
      BY DEF FullPath, HasAppdir
    <3>4. Get(Handed(g), "PATH") = FullPath /\ Get(Mine(g), "PATH") = FullPath
      BY <3>2 DEF Put, Get
    <3>5. QED
      BY <3>3, <3>4 DEF Found
  <2> HIDE DEF Handed, Mine
  <2>11. DirsKept'
    BY <2>5, <2>8, <2>9 DEF DirsKept
  <2>12. TextDomainKept'
    BY <2>5 DEF TextDomainKept
  <2>13. ExternalClean'
    <3> SUFFICES ASSUME prog.place = "host", "APPDIR" \in DOMAIN Mine(g),
                        NEW v \in DOMAIN Handed(g)
                 PROVE  ~Leads(v, Handed(g)[v])
      BY <2>5 DEF ExternalClean, HostProgram, InBundle
    <3>1. cleans /\ "APPDIR" \in DOMAIN restored
      BY <2>3, <2>6, <2>9
    <3>2. CASE v = "PATH"
      BY <3>2, NotUnset DEF Leads
    <3>3. CASE v # "PATH"
      BY <3>1, <3>3, <2>7, <2>8
    <3>4. QED
      BY <3>2, <3>3
  <2>14. PathRepaired'
    BY <2>5, <2>10 DEF PathRepaired, IsExec
  <2>15. PortableDirsRestored'
    <3> SUFFICES ASSUME prog.place = "host", "APPDIR" \in DOMAIN Mine(g),
                        NEW v \in {"HOME", "XDG_CACHE_HOME"}
                 PROVE  /\ v \in DOMAIN Mine(g) => Mine(g)[v] = "host"
                        /\ ~own /\ v \in DOMAIN Handed(g) =>
                             \/ Handed(g)[v] = "host"
                             \/ RestoredBefore(v) \cap (DOMAIN Mine(g) \ DOMAIN Handed(g)) # {}
      BY <2>5 DEF PortableDirsRestored, HostProgram, InBundle
    <3>1. cleans
      BY <2>3, <2>6, <2>9
    <3>2. v \in DOMAIN Mine(g) => Mine(g)[v] = "host"
      BY <2>3, <2>9, <3>1
    <3>3. ASSUME ~own, v \in DOMAIN Handed(g)
          PROVE  \/ Handed(g)[v] = "host"
                 \/ RestoredBefore(v) \cap (DOMAIN Mine(g) \ DOMAIN Handed(g)) # {}
      <4>1. v \in DOMAIN E(g) /\ Handed(g)[v] = E(g)[v] /\ v \in DOMAIN g /\ E(g)[v] = g[v]
        BY <2>7, <2>8, <3>3
      <4>2. g[v] = "host" \/ RestoredBefore(v) \cap (DOMAIN restored \ DOMAIN g) # {}
        BY <2>4, <3>1, <3>3, <4>1
      <4>3. CASE g[v] = "host"
        BY <4>1, <4>3
      <4>4. CASE RestoredBefore(v) \cap (DOMAIN restored \ DOMAIN g) # {}
        <5>1. PICK w \in RestoredBefore(v) : w \in DOMAIN restored /\ w \notin DOMAIN g
          BY <4>4
        <5>2. w # "PATH"
          BY <5>1 DEF RestoredBefore
        <5>3. w \in DOMAIN Mine(g) /\ w \notin DOMAIN Handed(g)
          BY <2>7, <2>8, <2>9, <5>1, <5>2
        <5>4. QED
          BY <5>1, <5>3
      <4>5. QED
        BY <4>2, <4>3, <4>4
    <3>4. QED
      BY <3>2, <3>3
  <2>16. QED
    BY <2>5, <2>11, <2>12, <2>13, <2>14, <2>15
<1>3. QED
  BY <1>1, <1>2

\* So do posix_spawn and posix_spawnp.
LEMMA SpawnKeeps ==
  ASSUME HostBehind(env), NEW call \in {"posix_spawn", "posix_spawnp"}, NEW prog,
         NEW own \in BOOLEAN, SpawnCommon(call, prog, own), saved' = saved
  PROVE  /\ DirsKept' /\ phase' = phase
         /\ TextDomainKept' /\ ExternalClean' /\ PathRepaired' /\ PortableDirsRestored'
<1> DEFINE E(g) == IF IsExternalProcess(env, prog) THEN CreateCleanedEnv(env, g) ELSE g
<1>1. PICK g \in IF own THEN OwnLists ELSE {env} :
        result' = [Answered(call, prog, E(g), Found(env, prog)) EXCEPT !.own = own]
  BY DEF SpawnCommon
<1>2. phase' = phase /\ env' = env
  BY DEF SpawnCommon
<1>3. result'.call = call /\ result'.prog = prog /\ result'.env = E(g)
  BY <1>1 DEF Answered
<1>4. HostBehind(g)
  BY <1>1, OwnHost
<1>5. HostBehind(E(g))
  BY <1>4, Cleaned
<1>6. prog.place = "host" /\ "APPDIR" \in DOMAIN env => \A v \in DOMAIN E(g) : ~Leads(v, E(g)[v])
  BY Cleaned DEF IsExternalProcess
<1> HIDE DEF E
<1>7. DirsKept' /\ TextDomainKept'
  BY <1>2, <1>3, <1>5 DEF DirsKept, TextDomainKept
<1>8. ExternalClean'
  BY <1>2, <1>3, <1>6 DEF ExternalClean, HostProgram, InBundle
<1>9. PathRepaired' /\ PortableDirsRestored'
  BY <1>3 DEF PathRepaired, PortableDirsRestored, IsExec
<1>10. QED
  BY <1>2, <1>7, <1>8, <1>9

\* With no launch in hand only the translations need an argument.
LEMMA NoLaunch ==
  ASSUME result'.call \notin Launches, HostBehind(env')
  PROVE  DirsKept' /\ ExternalClean' /\ PathRepaired' /\ PortableDirsRestored'
BY DEF DirsKept, ExternalClean, PathRepaired, PortableDirsRestored, HostProgram, IsExec, Launches

\* A step that ends no call leaves every promise about calls as it was.
LEMMA NoCall ==
  ASSUME result' = NoResult, HostBehind(env')
  PROVE  DirsKept' /\ TextDomainKept' /\ ExternalClean' /\ PathRepaired' /\ PortableDirsRestored'
<1>1. result'.call = "none"
  BY DEF NoResult, Answered
<1>2. QED
  BY <1>1, NoLaunch DEF Launches, TextDomainKept

\* The first program starts with the invariant.
LEMMA InitKeeps == Init => IInv
<1> SUFFICES ASSUME Init PROVE IInv
  OBVIOUS
<1>1. PICK e \in StartEnvs, patched \in BOOLEAN : env = Sharun(e, patched)
  BY DEF Init
<1>2. HostBehind(env) /\ ("locale" \in Shipped => Get(env, "TEXTDOMAINDIR") = "bundle")
  BY <1>1, DirsAssumption, SharunStarts
<1>3. /\ result.call = "none" /\ phase = "load"
      /\ saved = NothingSaved /\ result = NoResult
  BY DEF Init, NoResult, Answered
<1>4. QED
  BY <1>2, <1>3 DEF IInv, SavedDir, DirsKept, TextDomainKept, ExternalClean, PathRepaired,
                    PortableDirsRestored, HostProgram, IsExec, Launches

\* The constructors of the library keep the invariant.
LEMMA LoadKeeps == IInv /\ Load => IInv'
<1> SUFFICES ASSUME IInv, Load PROVE IInv'
  OBVIOUS
<1>1. PICK works \in Locales : env' = InitLocale(SpoofArgv0(env), works)
  BY DEF Load
<1>2. HostBehind(SpoofArgv0(env))
  BY DropOne DEF SpoofArgv0, DirVars, IInv, DirsKept
<1>3. HostBehind(env')
  BY <1>1, <1>2, InitLocaleHost
<1>4. /\ "locale" \in Shipped => saved'.textdomaindir = "bundle"
      /\ result' = NoResult /\ phase' = "run"
  BY DEF Load, InitBindtextdomainOverride, CaptureAppdirAndPath, IInv, SavedDir, NothingSaved
<1>5. SavedDir'
  BY <1>4 DEF SavedDir
<1>6. QED
  BY <1>3, <1>4, <1>5, NoCall DEF IInv

\* Whatever a program does to its environment, the invariant holds.
LEMMA ProgramKeeps == IInv /\ Program => IInv'
<1> SUFFICES ASSUME IInv, Program PROVE IInv'
  OBVIOUS
<1>1. HostBehind(env) /\ result' = NoResult /\ phase' = "run" /\ saved' = saved /\ phase = "run"
  BY DEF IInv, DirsKept, Program
<1>2. SavedDir'
  BY <1>1 DEF IInv, SavedDir
<1>3. HostBehind(env')
  <2>1. CASE \E c \in Changes : Setenv(c[1], c[2])
    <3>1. PICK c \in Changes : env' = Put(env, c[1], c[2])
      BY <2>1 DEF Setenv
    <3>2. QED
      BY <1>1, <3>1, DirsAssumption, PutOther
  <2>2. CASE \E v \in Unsets : Unsetenv(v)
    <3>1. PICK v \in Unsets : env' = Drop(env, v)
      BY <2>2 DEF Unsetenv
    <3>2. v \notin DirVars \/ v \in {"HOME", "XDG_CACHE_HOME"}
      BY DirsAssumption
    <3>3. QED
      BY <1>1, <3>1, <3>2, DropOne
  <2>3. CASE Clearenv
    BY <2>3, NoVarsHost DEF Clearenv
  <2>4. QED
    BY <2>1, <2>2, <2>3 DEF Program
<1>4. QED
  BY <1>1, <1>2, <1>3, NoCall DEF IInv

\* A step that only starts a program leaves the captured values alone.
LEMMA CallKeeps == IInv /\ Call => IInv'
<1> SUFFICES ASSUME IInv, Call PROVE IInv'
  OBVIOUS
<1>1. /\ HostBehind(env) /\ saved' = saved /\ phase = "run" /\ Calls
      /\ "locale" \in Shipped => saved.textdomaindir = "bundle"
  BY DEF IInv, DirsKept, SavedDir, Call
<1>2. phase' \in {phase, "ended"} => SavedDir'
  BY <1>1 DEF SavedDir
<1>3. ASSUME NEW call \in {"execve", "execvpe"}, NEW prog, NEW own \in BOOLEAN,
             ExecCommon(call, prog, own)
      PROVE  IInv'
  BY <1>1, <1>2, <1>3, ExecKeeps DEF IInv
<1>4. ASSUME NEW call \in {"posix_spawn", "posix_spawnp"}, NEW prog, NEW own \in BOOLEAN,
             SpawnCommon(call, prog, own)
      PROVE  IInv'
  BY <1>1, <1>2, <1>4, SpawnKeeps DEF IInv
<1>5. ASSUME NEW prog, Execve(prog) \/ Execv(prog) \/ Execvpe(prog) \/ Execvp(prog)
      PROVE  IInv'
  BY <1>3, <1>5 DEF Execve, Execv, Execvpe, Execvp
<1>6. ASSUME NEW prog, PosixSpawn(prog) \/ PosixSpawnp(prog)
      PROVE  IInv'
  BY <1>4, <1>6 DEF PosixSpawn, PosixSpawnp
<1>7. ASSUME NEW dir \in {"/usr/share/locale", "/tmp", "/opt"}, Bindtextdomain(dir)
      PROVE  IInv'
  <2>1. /\ result'.call = "bindtextdomain" /\ phase' = phase /\ env' = env
        /\ result'.prog.place = Redirected(dir, saved.textdomaindir)
    BY <1>1, <1>7 DEF Bindtextdomain, Answered, On
  <2>2. TextDomainKept'
    BY <1>1, <2>1 DEF TextDomainKept, Redirected
  <2>3. DirsKept' /\ ExternalClean' /\ PathRepaired' /\ PortableDirsRestored'
    BY <1>1, <2>1, NoLaunch DEF Launches
  <2>4. QED
    BY <1>2, <2>1, <2>2, <2>3 DEF IInv
<1>8. ASSUME NEW lib, Dlopen(lib)
      PROVE  IInv'
  <2>1. result'.call = "dlopen" /\ phase' = phase /\ env' = env
    BY <1>8 DEF Dlopen, Answered
  <2>2. DirsKept' /\ ExternalClean' /\ PathRepaired' /\ PortableDirsRestored'
    BY <1>1, <2>1, NoLaunch DEF Launches
  <2>3. QED
    BY <1>2, <2>1, <2>2 DEF IInv, TextDomainKept
<1>9. QED
  BY <1>1, <1>5, <1>6, <1>7, <1>8 DEF Calls

\* A program that goes on after a call keeps the invariant.
LEMMA GoOnKeeps == IInv /\ GoOn => IInv'
<1> SUFFICES ASSUME IInv, GoOn PROVE IInv'
  OBVIOUS
<1>1. /\ HostBehind(env') /\ result' = NoResult /\ phase' = "run"
      /\ "locale" \in Shipped => saved'.textdomaindir = "bundle"
  BY DEF IInv, DirsKept, SavedDir, GoOn
<1>2. QED
  BY <1>1, NoCall DEF IInv, SavedDir

\* sharun gives the next program its translations, and takes no directory away.
LEMMA TakeoverKeeps == IInv /\ Takeover => IInv'
<1> SUFFICES ASSUME IInv, Takeover PROVE IInv'
  OBVIOUS
<1>1. HostBehind(result.env) /\ result' = NoResult /\ saved' = NothingSaved
  BY DEF IInv, DirsKept, Takeover, Launches
<1>2. CASE result.prog.place = "bundle"
  <2>1. PICK patched \in BOOLEAN : env' = Sharun(result.env, patched)
    BY <1>2 DEF Takeover
  <2>2. HostBehind(env') /\ ("locale" \in Shipped => Get(env', "TEXTDOMAINDIR") = "bundle")
    BY <1>1, <2>1, SharunStarts
  <2>3. phase' = "load"
    BY <1>2 DEF Takeover
  <2>4. SavedDir'
    BY <1>1, <2>2, <2>3 DEF SavedDir, Get
  <2>5. QED
    BY <1>1, <2>2, <2>4, NoCall DEF IInv
<1>3. CASE result.prog.place # "bundle"
  <2>1. phase' = "ended" /\ HostBehind(env')
    BY <1>1, <1>3 DEF Takeover
  <2>2. QED
    BY <1>1, <2>1, NoCall DEF IInv, SavedDir
<1>4. QED
  BY <1>2, <1>3

\* A new session starts with the invariant.
LEMMA RestartKeeps == IInv /\ Restart => IInv'
<1> SUFFICES ASSUME IInv, Restart PROVE IInv'
  OBVIOUS
<1>1. PICK e \in StartEnvs, patched \in BOOLEAN : env' = Sharun(e, patched)
  BY DEF Restart
<1>2. HostBehind(env') /\ ("locale" \in Shipped => Get(env', "TEXTDOMAINDIR") = "bundle")
  BY <1>1, DirsAssumption, SharunStarts
<1>3. phase' = "load" /\ saved' = NothingSaved /\ result' = NoResult
  BY DEF Restart
<1>4. SavedDir'
  BY <1>2, <1>3 DEF SavedDir, Get
<1>5. QED
  BY <1>2, <1>3, <1>4, NoCall DEF IInv

\* The invariant holds in every state of every chain of programs that the
\* library is loaded into.
THEOREM ExecInvariant == Spec => []IInv
<1>1. Init => IInv
  BY InitKeeps
<1>2. IInv /\ [Next]_vars => IInv'
  <2>1. ASSUME IInv, UNCHANGED vars PROVE IInv'
    BY <2>1 DEF vars, IInv, SavedDir, DirsKept, TextDomainKept, ExternalClean, PathRepaired,
                PortableDirsRestored, HostProgram, InBundle, IsExec
  <2>2. QED
    BY <2>1, LoadKeeps, ProgramKeeps, CallKeeps, GoOnKeeps, TakeoverKeeps, RestartKeeps DEF Next
<1>3. QED
  BY <1>1, <1>2, PTL DEF Spec

\* No host program is handed a variable that leads into the bundle by a process
\* that still has APPDIR (create_cleaned_env), however long the chain was.
THEOREM ExternalAlwaysClean == Spec => []ExternalClean
<1>1. IInv => ExternalClean
  BY DEF IInv
<1>2. QED
  BY <1>1, ExecInvariant, PTL

\* Once a host program is started by exec, environ has the host's own
\* directories, and so has the program that inherits it, unless a directory that
\* is restored earlier had to be added and the list moved (restore_portable_dirs).
THEOREM PortableDirsAlwaysRestored == Spec => []PortableDirsRestored
<1>1. IInv => PortableDirsRestored
  BY DEF IInv
<1>2. QED
  BY <1>1, ExecInvariant, PTL

\* A program that lost PATH hands on a full one, and finds the bundle's helpers
\* by name (capture_appdir_and_path, exec_common).
THEOREM PathAlwaysRepaired == Spec => []PathRepaired
<1>1. IInv => PathRepaired
  BY DEF IInv
<1>2. QED
  BY <1>1, ExecInvariant, PTL

\* The translations come from the bundle, when it has any, whatever the program
\* did to its environment (init_bindtextdomain_override).
THEOREM TextDomainAlwaysKept == Spec => []TextDomainKept
<1>1. IInv => TextDomainKept
  BY DEF IInv
<1>2. QED
  BY <1>1, ExecInvariant, PTL
=============================================================================
