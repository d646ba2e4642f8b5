-------------------------- MODULE SymbolFixProofs --------------------------
(***************************************************************************)
(* Proofs about the lazily resolving wrappers, for any threads, libraries  *)
(* and calls.                                                              *)
(***************************************************************************)
EXTENDS SymbolFix, OrderLemmas, TLAPS

Keys == {"op", "at", "sym", "id", "k", "reg", "sure", "err", "ret", "boxed"}

\* A thread's record, whatever its fields hold.
IsThread(r) == r = [x \in Keys |-> r[x]]

\* A thread is looking a function up, or holds what it found.
Looking(r) == r.at \in {"check", "next", "handle", "probe", "sym"}
Holding(r) == Looking(r) \/ r.at = "act"

-----------------------------------------------------------------------------
(* What the operators on a thread's record do to its fields.               *)

\* A thread outside of every wrapper has no call and no error.
LEMMA IdleFields ==
  IsThread(Idle) /\ Idle.at = "idle" /\ Idle.op = "none" /\ Idle.err = "none" /\ ~Idle.boxed
BY DEF IsThread, Keys, Idle

\* What a thread keeps, and what it forgets, when it begins a look-up.
LEMMA ResolveFields ==
  ASSUME NEW r, IsThread(r), NEW s
  PROVE  LET q == Resolve(r, s)
         IN  /\ IsThread(q) /\ q.at = "check" /\ q.sym = s /\ q.reg = Null /\ q.k = 0
             /\ q.op = r.op /\ q.id = r.id /\ q.err = r.err /\ q.ret = r.ret
             /\ q.boxed = r.boxed /\ (q.sure <=> Within(s))
BY DEF IsThread, Resolve, Keys

\* What a thread keeps when its wrapper returns.
LEMMA FinishFields ==
  ASSUME NEW r, IsThread(r), NEW v
  PROVE  LET q == Finish(r, v)
         IN  /\ IsThread(q) /\ q.at = "done" /\ q.ret = v
             /\ q.op = r.op /\ q.id = r.id /\ q.sym = r.sym /\ q.err = r.err
             /\ q.boxed = r.boxed
BY DEF IsThread, Finish, Keys

\* Moving on, with or without a new register.
LEMMA AtFields ==
  ASSUME NEW r, IsThread(r), NEW a
  PROVE  LET q == [r EXCEPT !.at = a]
         IN  /\ IsThread(q) /\ q.at = a
             /\ q.op = r.op /\ q.id = r.id /\ q.sym = r.sym /\ q.err = r.err /\ q.k = r.k
             /\ q.boxed = r.boxed /\ q.sure = r.sure /\ q.reg = r.reg /\ q.ret = r.ret
BY DEF IsThread, Keys

-----------------------------------------------------------------------------
(* Libraries.                                                              *)

\* What a library needs is loaded with it, and needs no more.
LEMMA NeedsClosed ==
  ASSUME NEW lib, NEW l \in Needs(lib)
  PROVE  Needs(l) \subseteq Needs(lib)
BY DEF Needs, Gio, Glib

\* A library that is loaded is among those that are.
LEMMA NeedsSelf == ASSUME NEW lib PROVE lib \in Needs(lib)
BY DEF Needs, Gio, Glib

\* Every library brings glib, and so what clears an error.
LEMMA NeedsGlib == ASSUME NEW lib PROVE "libglib-2.0.so.0" \in Needs(lib)
BY DEF Needs, Gio, Glib

\* dlsym finds a name exactly if a library it searches provides it.
LEMMA Found ==
  ASSUME NEW s, NEW libs, Null \notin libs
  PROVE  /\ Exporter(s, libs) # Null <=> \E lib \in libs : s \in Exports(lib)
         /\ Exporter(s, libs) # Null =>
              Exporter(s, libs) \in libs /\ s \in Exports(Exporter(s, libs))
BY DEF Exporter

\* Names that every library of their group provides.
Everywhere == {Selector, ClearError}

\* Each library of a group brings the names every one of them provides.
LEMMA Uniform ==
  ASSUME NEW s \in Everywhere, NEW lib \in Range(Sonames(Group(s)))
  PROVE  \E l \in Needs(lib) : s \in Exports(l)
<1>1. CASE s = Selector
  <2>1. Sonames(Group(s)) = GlySonames
    BY <1>1 DEF Sonames, Group, GirSymbols, GlySymbols, Selector, LoaderWrappers, RequireWrappers
  <2>2. lib \in {"libglycin-2.so.0", "libglycin-1.so.0", "libglycin.so.0", "libglycin.so"}
    BY <2>1 DEF Range, GlySonames
  <2>3. lib \in Range(GlySonames)
    BY <2>1
  <2>4. Exports(lib) = GlySymbols
    BY <2>2, <2>3 DEF Exports
  <2>5. QED
    BY <1>1, <2>4, NeedsSelf DEF GlySymbols
<1>2. CASE s = ClearError
  <2>1. "libglib-2.0.so.0" \notin Range(GlySonames)
    BY DEF Range, GlySonames
  <2>2. ClearError \in Exports("libglib-2.0.so.0")
    BY <2>1 DEF Exports
  <2>3. QED
    BY <1>2, <2>2, NeedsGlib
<1>3. QED
  BY <1>1, <1>2 DEF Everywhere

-----------------------------------------------------------------------------
(* The invariant.                                                          *)

\* The functions a wrapper may look up.
Targets(op) ==
    CASE op \in SetIdWrappers \cup GetIdWrappers -> {op}
      [] op = "ctor" -> {"g_set_prgname"}
      [] op \in RequireWrappers -> {op, Fallback(op), ClearError}
      [] op \in LoaderWrappers -> {op, Selector}
      [] OTHER -> {}

Named(r) ==
    /\ r.op \in Wrappers \cup {"none", "ctor"}
    /\ r.at = "init" => r.op \in SetIdWrappers \cup GetIdWrappers \cup {"ctor"}
    /\ r.at = "test" => r.op \in GetIdWrappers \cup {"ctor"}
    /\ Holding(r) => r.sym \in Targets(r.op)
    /\ r.at = "call" => r.op \in RequireWrappers /\ r.sym \in {r.op, Fallback(r.op)}

\* What a look-up holds comes from a library in the process.
LookOK(r, libs) ==
    /\ r.at = "probe" => r.k \in DOMAIN Sonames(Group(r.sym))
    /\ r.at = "sym" => r.reg \in libs \cap Range(Sonames(Group(r.sym)))
    /\ r.at = "act" /\ r.reg # Null => r.reg \in libs /\ r.sym \in Exports(r.reg)

\* A name that every library of its group provides, looked up when one of
\* them is there, cannot be missed, not even by a probe under way.
UpOK(r, libs) ==
    Holding(r) /\ r.sym \in Everywhere =>
        LET names == Sonames(Group(r.sym))
        IN  /\ r.at \in {"check", "next", "handle"} => \E k \in DOMAIN names : names[k] \in libs
            /\ r.at = "probe" => \E k \in DOMAIN names : names[k] \in libs /\ r.k <= k
            /\ r.at = "act" => r.reg # Null

\* Once GTK_WINDOW_CLASS has been read it does not change; who gets as far as
\* looking an id up has none to return.
IdOK(r, override, done, class) ==
    /\ r.op \in SetIdWrappers \cup GetIdWrappers \cup {"ctor"} /\ r.at \notin {"idle", "init"} => done
    /\ r.op \in GetIdWrappers /\ Holding(r) => override = "none"
    /\ r.op \in SetIdWrappers \cup GetIdWrappers /\ r.at = "done" /\ r.ret # Null =>
         r.ret = IF class \in {"none", "empty"} THEN r.id ELSE class

\* The error on the way through require_private.
ErrOK(r) ==
    r.op \in RequireWrappers =>
        /\ Holding(r) => r.err = IF r.sym = r.op THEN "none" ELSE "private"
        /\ r.at = "call" => r.err = "none"
        /\ r.at = "done" => IF r.ret = Null THEN r.sym = r.op \/ r.err # "none"
                            ELSE r.err = "none"

BoxOK(r) ==
    r.op \in LoaderWrappers =>
        /\ Holding(r) /\ r.sym = r.op => ~r.boxed
        /\ r.at = "done" => ~r.boxed

Sound(r, libs, override, done, class) ==
    /\ IsThread(r) /\ Named(r) /\ LookOK(r, libs) /\ UpOK(r, libs)
    /\ IdOK(r, override, done, class) /\ ErrOK(r) /\ BoxOK(r)

Groups == {"glib", "gir", "gly"}

LibrariesOK == global \subseteq loaded /\ Null \notin loaded
               /\ \A lib \in loaded : Needs(lib) \subseteq loaded
SlotsOK == /\ slot = [s \in Symbols |-> slot[s]]
           /\ \A s \in Symbols : slot[s] # Null => slot[s] \in loaded /\ s \in Exports(slot[s])
CachesOK == /\ cache = [g \in Groups |-> cache[g]]
            /\ \A g \in Groups : cache[g] # Null => cache[g] \in loaded \cap Range(Sonames(g))
OverrideOK == /\ overrideId = IF ~initDone \/ windowClass = "empty" THEN "none" ELSE windowClass
              /\ initDone \in BOOLEAN /\ (started => initDone)

Shared == LibrariesOK /\ SlotsOK /\ CachesOK /\ OverrideOK /\ uses \in Usages
ThreadsOK == /\ thread = [t \in Threads |-> thread[t]]
             /\ \A t \in Threads : Sound(thread[t], loaded, overrideId, initDone, windowClass)
IInv == Shared /\ ThreadsOK

\* Nothing a thread relies on is taken back: libraries stay, and the id that
\* was read.
Grows == /\ loaded \subseteq loaded' /\ windowClass' = windowClass
         /\ initDone => initDone' /\ overrideId' = overrideId

\* Whatever other threads do meanwhile, a thread stays on its way.
LEMMA SoundStays ==
  ASSUME NEW r, Sound(r, loaded, overrideId, initDone, windowClass), Grows
  PROVE  Sound(r, loaded', overrideId', initDone', windowClass')
<1>1. LookOK(r, loaded')
  BY DEF Sound, LookOK, Grows
<1>2. UpOK(r, loaded')
  BY DEF Sound, UpOK, Grows
<1>3. IdOK(r, overrideId', initDone', windowClass')
  BY DEF Sound, IdOK, Grows, Holding, Looking
<1>4. QED
  BY <1>1, <1>2, <1>3 DEF Sound

\* A step of one thread keeps the invariant if it leaves that thread sound.
LEMMA OneThread ==
  ASSUME IInv, NEW t \in Threads, NEW q, Becomes(t, q), Grows, Shared',
         Sound(q, loaded', overrideId', initDone', windowClass')
  PROVE  IInv'
<1>1. /\ thread' = [thread EXCEPT ![t] = q]
      /\ thread = [u \in Threads |-> thread[u]]
  BY DEF Becomes, IInv, ThreadsOK
<1>2. /\ thread' = [u \in Threads |-> thread'[u]]
      /\ thread'[t] = q
      /\ \A u \in Threads : u # t => thread'[u] = thread[u]
  BY <1>1
<1>3. ASSUME NEW u \in Threads
      PROVE  Sound(thread'[u], loaded', overrideId', initDone', windowClass')
  <2>1. CASE u = t
    BY <1>2, <2>1
  <2>2. CASE u # t
    BY <1>2, <2>2, SoundStays DEF IInv, ThreadsOK
  <2>3. QED
    BY <2>1, <2>2
<1>4. QED
  BY <1>2, <1>3 DEF IInv, ThreadsOK

-----------------------------------------------------------------------------
(* real_sym_with.                                                          *)

\* Names of things, so that a proof need not list them.
LEMMA Kinds ==
  /\ \A op \in RequireWrappers : op \notin SetIdWrappers \cup GetIdWrappers \cup LoaderWrappers
  /\ \A op \in LoaderWrappers : op \notin SetIdWrappers \cup GetIdWrappers \cup RequireWrappers
  /\ \A op \in GetIdWrappers : op \notin SetIdWrappers \cup RequireWrappers \cup LoaderWrappers
  /\ \A op \in Wrappers : op # "ctor" /\ op # "none" /\ op \notin Everywhere
  /\ \A op \in RequireWrappers : Fallback(op) # op /\ Fallback(op) # ClearError /\ Fallback(op) # Selector
  /\ "ctor" \notin Wrappers /\ "none" \notin Wrappers /\ ClearError # Selector
  /\ "g_set_prgname" \notin Everywhere
BY DEF RequireWrappers, SetIdWrappers, GetIdWrappers, LoaderWrappers, Wrappers, Fallback,
       ClearError, Selector, Everywhere

\* Every function a wrapper looks up has a slot.
LEMMA TargetsAreSymbols ==
  ASSUME NEW op
  PROVE  Targets(op) \subseteq Symbols
<1>1. /\ SetIdWrappers \cup GetIdWrappers \subseteq Symbols
      /\ "g_set_prgname" \in Symbols /\ ClearError \in Symbols /\ Selector \in Symbols
      /\ \A o \in RequireWrappers : o \in Symbols /\ Fallback(o) \in Symbols
      /\ LoaderWrappers \subseteq Symbols
  BY DEF Symbols, SetIdWrappers, RequireWrappers, Fallback, GirSymbols, GlySymbols
<1>2. QED
  BY <1>1, Kinds DEF Targets, Wrappers

\* Every function belongs to one of the groups that have a handle.
LEMMA GroupIsGroup == ASSUME NEW s PROVE Group(s) \in Groups
BY DEF Group, Groups

\* The names a group is opened by are a finite list.
LEMMA SonamesCounted ==
  ASSUME NEW g \in Groups
  PROVE  DOMAIN Sonames(g) = 1 .. Len(Sonames(g)) /\ Len(Sonames(g)) \in Nat
<1>1. Len(GlibSonames) = 7 /\ DOMAIN GlibSonames = 1 .. 7
  BY DEF GlibSonames
<1>2. Len(GirSonames) = 2 /\ DOMAIN GirSonames = 1 .. 2
  BY DEF GirSonames
<1>3. Len(GlySonames) = 4 /\ DOMAIN GlySonames = 1 .. 4
  BY DEF GlySonames
<1>4. QED
  BY <1>1, <1>2, <1>3 DEF Groups, Sonames

\* What the steps of a look-up leave alone.
SameCall(q, r) == /\ q.op = r.op /\ q.id = r.id /\ q.sym = r.sym /\ q.err = r.err
                  /\ q.boxed = r.boxed

\* A step of a look-up has to answer for what it found only.
LEMMA LookStep ==
  ASSUME IInv, NEW t \in Threads, NEW q, Looking(thread[t]), Becomes(t, q),
         IsThread(q), SameCall(q, thread[t]), Holding(q),
         LookOK(q, loaded), UpOK(q, loaded), Others, UNCHANGED <<overrideId, initDone, started>>,
         SlotsOK', CachesOK'
  PROVE  IInv'
<1> DEFINE r == thread[t]
<1>1. Sound(r, loaded, overrideId, initDone, windowClass) /\ Holding(r)
  BY DEF IInv, ThreadsOK, Holding
<1> HIDE DEF r
<1>2. Grows
  BY DEF Others, Grows
<1>3. SameCall(q, r) /\ Looking(r)
  BY DEF r
<1>4. Named(q)
  BY <1>1, <1>3 DEF Sound, Named, SameCall, Holding, Looking
<1>5. IdOK(q, overrideId, initDone, windowClass)
  BY <1>1, <1>3 DEF Sound, IdOK, SameCall, Holding, Looking
<1>6. ErrOK(q) /\ BoxOK(q)
  BY <1>1, <1>3 DEF Sound, ErrOK, BoxOK, SameCall, Holding, Looking
<1>7. Sound(q, loaded', overrideId', initDone', windowClass')
  BY <1>4, <1>5, <1>6 DEF Sound, Others
<1>8. Shared'
  BY DEF IInv, Shared, LibrariesOK, OverrideOK, Others
<1>9. QED
  BY <1>2, <1>7, <1>8, OneThread

\* What a look-up knows of its thread.
LEMMA InLookup ==
  ASSUME IInv, NEW t \in Threads, Holding(thread[t])
  PROVE  LET r == thread[t]
         IN  /\ IsThread(r) /\ LookOK(r, loaded) /\ UpOK(r, loaded) /\ r.sym \in Symbols
             /\ Group(r.sym) \in Groups
             /\ LibrariesOK /\ SlotsOK /\ CachesOK
BY TargetsAreSymbols, GroupIsGroup DEF IInv, Shared, ThreadsOK, Sound, Named

\* The first test of the slot (real_sym_with).
LEMMA CheckStep == ASSUME IInv, NEW t \in Threads, Check(t) PROVE IInv'
<1> DEFINE r == thread[t]
           hit == [r EXCEPT !.reg = slot[r.sym], !.at = "act"]
           miss == [r EXCEPT !.at = "next"]
<1>1. /\ r.at = "check" /\ Becomes(t, IF slot[r.sym] # Null THEN hit ELSE miss)
      /\ Same /\ UNCHANGED slot /\ Looking(r) /\ Holding(r)
  BY DEF Check, Looking, Holding
<1>2. /\ IsThread(r) /\ LookOK(r, loaded) /\ UpOK(r, loaded) /\ r.sym \in Symbols
      /\ LibrariesOK /\ SlotsOK /\ CachesOK
  BY <1>1, InLookup
<1>3. SlotsOK' /\ CachesOK' /\ Others /\ UNCHANGED <<overrideId, initDone, started>>
  BY <1>1, <1>2 DEF SlotsOK, CachesOK, Same, Others
<1>4. CASE slot[r.sym] # Null
  <2>1. /\ IsThread(hit) /\ hit.at = "act" /\ hit.reg = slot[r.sym] /\ SameCall(hit, r)
    BY <1>2 DEF IsThread, Keys, SameCall
  <2>2. Becomes(t, hit)
    BY <1>1, <1>4
  <2> HIDE DEF hit
  <2>3. LookOK(hit, loaded) /\ UpOK(hit, loaded)
    BY <1>2, <1>4, <2>1 DEF LookOK, UpOK, SlotsOK, SameCall
  <2>4. QED
    BY <1>1, <1>3, <2>1, <2>2, <2>3, LookStep DEF Holding
<1>5. CASE slot[r.sym] = Null
  <2>1. IsThread(miss) /\ miss.at = "next" /\ SameCall(miss, r)
    BY <1>2, AtFields DEF SameCall
  <2>2. Becomes(t, miss)
    BY <1>1, <1>5
  <2> HIDE DEF miss
  <2>3. LookOK(miss, loaded) /\ UpOK(miss, loaded)
    BY <1>1, <1>2, <2>1 DEF LookOK, UpOK, SameCall, Holding, Looking
  <2>4. QED
    BY <1>1, <1>3, <2>1, <2>2, <2>3, LookStep DEF Holding, Looking
<1>6. QED
  BY <1>4, <1>5

\* What dlsym finds may be kept.
LEMMA StoreFound ==
  ASSUME LibrariesOK, SlotsOK, NEW s \in Symbols, NEW libs \in SUBSET loaded,
         slot' = [slot EXCEPT ![s] = Exporter(s, libs)], UNCHANGED loaded
  PROVE  SlotsOK'
<1>1. Null \notin libs
  BY DEF LibrariesOK
<1>2. Exporter(s, libs) # Null => Exporter(s, libs) \in loaded /\ s \in Exports(Exporter(s, libs))
  BY <1>1, Found
<1>3. QED
  BY <1>2 DEF SlotsOK

\* The look-up behind the own library (dlsym of RTLD_NEXT).
LEMMA TryNextStep == ASSUME IInv, NEW t \in Threads, TryNext(t) PROVE IInv'
<1> DEFINE r == thread[t]
           f == DlsymNext(r.sym)
           a == IF f # Null THEN "act" ELSE "handle"
           q == [r EXCEPT !.reg = f, !.at = a]
<1>1. /\ r.at = "next" /\ Becomes(t, q) /\ slot' = [slot EXCEPT ![r.sym] = f]
      /\ Same /\ Looking(r) /\ Holding(r)
  BY DEF TryNext, Looking, Holding
<1>2. /\ IsThread(r) /\ LookOK(r, loaded) /\ UpOK(r, loaded) /\ r.sym \in Symbols
      /\ LibrariesOK /\ SlotsOK /\ CachesOK
  BY <1>1, InLookup
<1>3. f # Null => f \in loaded /\ r.sym \in Exports(f)
  BY <1>2, Found DEF DlsymNext, LibrariesOK
<1>4. CachesOK' /\ Others /\ UNCHANGED <<overrideId, initDone, started>>
  BY <1>1, <1>2 DEF CachesOK, Same, Others
<1>5. SlotsOK'
  BY <1>1, <1>2, <1>4, StoreFound DEF DlsymNext, LibrariesOK, Others
<1> HIDE DEF f
<1>6. IsThread(q) /\ q.at = a /\ q.reg = f /\ SameCall(q, r)
  BY <1>2 DEF IsThread, Keys, SameCall
<1>7. Becomes(t, q)
  BY <1>1
<1> HIDE DEF q
<1>8. LookOK(q, loaded) /\ UpOK(q, loaded) /\ Holding(q)
  BY <1>1, <1>2, <1>3, <1>6 DEF LookOK, UpOK, SameCall, Holding, Looking
<1>9. QED
  BY <1>1, <1>4, <1>5, <1>6, <1>7, <1>8, LookStep

\* The look-up through the handle of the group.
LEMMA TryHandleStep == ASSUME IInv, NEW t \in Threads, TryHandle(t) PROVE IInv'
<1> DEFINE r == thread[t]
           f == DlsymIn(r.reg, r.sym)
           q == [r EXCEPT !.reg = f, !.at = "act"]
<1>1. /\ r.at = "sym" /\ Becomes(t, q) /\ slot' = [slot EXCEPT ![r.sym] = f]
      /\ Same /\ Looking(r) /\ Holding(r)
  BY DEF TryHandle, Looking, Holding
<1>2. /\ IsThread(r) /\ LookOK(r, loaded) /\ UpOK(r, loaded) /\ r.sym \in Symbols
      /\ LibrariesOK /\ SlotsOK /\ CachesOK
  BY <1>1, InLookup
<1>3. /\ r.reg \in Range(Sonames(Group(r.sym)))
      /\ Needs(r.reg) \subseteq loaded /\ Null \notin Needs(r.reg)
  BY <1>1, <1>2 DEF LookOK, LibrariesOK
<1>4. f # Null => f \in loaded /\ r.sym \in Exports(f)
  BY <1>3, Found DEF DlsymIn
<1>5. r.sym \in Everywhere => f # Null
  BY <1>3, Found, Uniform DEF DlsymIn
<1>6. CachesOK' /\ Others /\ UNCHANGED <<overrideId, initDone, started>>
  BY <1>1, <1>2 DEF CachesOK, Same, Others
<1>7. SlotsOK'
  BY <1>1, <1>2, <1>3, <1>6, StoreFound DEF DlsymIn, Others
<1> HIDE DEF f
<1>8. IsThread(q) /\ q.at = "act" /\ q.reg = f /\ SameCall(q, r)
  BY <1>2 DEF IsThread, Keys, SameCall
<1>9. Becomes(t, q)
  BY <1>1
<1> HIDE DEF q
<1>10. LookOK(q, loaded) /\ UpOK(q, loaded) /\ Holding(q)
  BY <1>4, <1>5, <1>8 DEF LookOK, UpOK, SameCall, Holding, Looking
<1>11. QED
  BY <1>1, <1>6, <1>7, <1>8, <1>9, <1>10, LookStep

\* loaded_handle and gly_handle when a handle was taken before.
LEMMA HandleStep ==
  ASSUME IInv, NEW t \in Threads, LoadedHandle(t), thread[t].at = "handle"
  PROVE  IInv'
<1> DEFINE r == thread[t]
           g == Group(r.sym)
           c == cache[g]
           hit == [r EXCEPT !.reg = c, !.at = "sym"]
           miss == [r EXCEPT !.k = 1, !.at = "probe"]
<1>1. /\ Becomes(t, IF c # Null THEN hit ELSE miss)
      /\ Others /\ UNCHANGED <<slot, cache, overrideId, initDone, started>>
      /\ Looking(r) /\ Holding(r)
  BY DEF LoadedHandle, Looking, Holding
<1>2. /\ IsThread(r) /\ LookOK(r, loaded) /\ UpOK(r, loaded) /\ r.sym \in Symbols
      /\ LibrariesOK /\ SlotsOK /\ CachesOK /\ g \in Groups
  BY <1>1, InLookup
<1>3. SlotsOK' /\ CachesOK'
  BY <1>1, <1>2 DEF SlotsOK, CachesOK, Others
<1>4. c # Null => c \in loaded \cap Range(Sonames(g))
  BY <1>2 DEF CachesOK
<1> HIDE DEF c
<1>5. CASE c # Null
  <2>1. IsThread(hit) /\ hit.at = "sym" /\ hit.reg = c /\ SameCall(hit, r)
    BY <1>2 DEF IsThread, Keys, SameCall
  <2>2. Becomes(t, hit)
    BY <1>1, <1>5
  <2> HIDE DEF hit
  <2>3. LookOK(hit, loaded) /\ UpOK(hit, loaded) /\ Holding(hit)
    BY <1>4, <1>5, <2>1 DEF LookOK, UpOK, SameCall, Holding, Looking
  <2>4. QED
    BY <1>1, <1>3, <2>1, <2>2, <2>3, LookStep
<1>6. CASE c = Null
  <2>1. IsThread(miss) /\ miss.at = "probe" /\ miss.k = 1 /\ SameCall(miss, r)
    BY <1>2 DEF IsThread, Keys, SameCall
  <2>2. Becomes(t, miss)
    BY <1>1, <1>6
  <2> HIDE DEF miss
  <2>3. DOMAIN Sonames(g) \subseteq Nat \ {0} /\ 1 \in DOMAIN Sonames(g)
    BY <1>2 DEF Groups, Sonames, GlibSonames, GirSonames, GlySonames
  <2>4. LookOK(miss, loaded) /\ UpOK(miss, loaded) /\ Holding(miss)
    <3>1. Group(miss.sym) = g /\ miss.sym = r.sym
      BY <2>1 DEF SameCall
    <3>2. \A k \in DOMAIN Sonames(g) : miss.k <= k
      BY <2>1, <2>3
    <3> HIDE DEF g
    <3>3. QED
      BY <1>1, <1>2, <2>1, <2>3, <3>1, <3>2 DEF LookOK, UpOK, Holding, Looking, LoadedHandle, g
  <2>5. QED
    BY <1>1, <1>3, <2>1, <2>2, <2>4, LookStep
<1>7. QED
  BY <1>5, <1>6

\* One of the sonames is tried, and the answer stored.
LEMMA ProbeStep ==
  ASSUME IInv, NEW t \in Threads, LoadedHandle(t), thread[t].at = "probe"
  PROVE  IInv'
<1> DEFINE r == thread[t]
           g == Group(r.sym)
           names == Sonames(g)
           lib == names[r.k]
           s == slot[r.sym]
           hit == [r EXCEPT !.reg = lib, !.at = "sym"]
           miss == [r EXCEPT !.k = @ + 1]
           none == [r EXCEPT !.reg = s, !.at = "act"]
<1>1. /\ cache' = [cache EXCEPT ![g] = Probe(lib)]
      /\ Becomes(t, IF Probe(lib) # Null THEN hit ELSE IF r.k < Len(names) THEN miss ELSE none)
      /\ Others /\ UNCHANGED <<slot, overrideId, initDone, started>>
      /\ Looking(r) /\ Holding(r)
  BY DEF LoadedHandle, Looking, Holding
<1>2. /\ IsThread(r) /\ LookOK(r, loaded) /\ UpOK(r, loaded) /\ r.sym \in Symbols
      /\ LibrariesOK /\ SlotsOK /\ CachesOK /\ g \in Groups
  BY <1>1, InLookup
<1>3. r.k \in DOMAIN names /\ DOMAIN names = 1 .. Len(names) /\ Len(names) \in Nat
  BY <1>1, <1>2, SonamesCounted DEF LookOK, LoadedHandle
<1>4. lib \in Range(names) /\ (Probe(lib) # Null <=> lib \in loaded)
      /\ (Probe(lib) # Null => Probe(lib) = lib)
  BY <1>2, <1>3 DEF Range, Probe, LibrariesOK
<1>5. SlotsOK' /\ CachesOK'
  <2> HIDE DEF lib
  <2>1. QED
    BY <1>1, <1>2, <1>4 DEF SlotsOK, CachesOK, Others
<1>6. s # Null => s \in loaded /\ r.sym \in Exports(s)
  BY <1>2 DEF SlotsOK
<1> HIDE DEF lib, s
<1>7. CASE Probe(lib) # Null
  <2>1. IsThread(hit) /\ hit.at = "sym" /\ hit.reg = lib /\ SameCall(hit, r)
    BY <1>2 DEF IsThread, Keys, SameCall
  <2>2. Becomes(t, hit)
    BY <1>1, <1>7
  <2> HIDE DEF hit
  <2>3. LookOK(hit, loaded) /\ UpOK(hit, loaded) /\ Holding(hit)
    BY <1>4, <1>7, <2>1 DEF LookOK, UpOK, SameCall, Holding, Looking
  <2>4. QED
    BY <1>1, <1>5, <2>1, <2>2, <2>3, LookStep
<1>8. ASSUME Probe(lib) = Null, r.sym \in Everywhere
      PROVE  \E k \in DOMAIN names : names[k] \in loaded /\ r.k + 1 <= k
  <2>1. PICK k \in DOMAIN names : names[k] \in loaded /\ r.k <= k
    BY <1>1, <1>2, <1>8 DEF UpOK
  <2>2. k # r.k
    BY <1>4, <1>8, <2>1 DEF lib
  <2>3. QED
    BY <1>3, <2>1, <2>2
<1>9. CASE Probe(lib) = Null /\ r.k < Len(names)
  <2>1. IsThread(miss) /\ miss.at = "probe" /\ miss.k = r.k + 1 /\ SameCall(miss, r)
    BY <1>2 DEF IsThread, Keys, SameCall
  <2>2. Becomes(t, miss)
    BY <1>1, <1>9
  <2> HIDE DEF miss
  <2>3. miss.k \in DOMAIN names /\ miss.sym = r.sym
    BY <1>3, <1>9, <2>1 DEF SameCall
  <2>4. LookOK(miss, loaded)
    BY <2>1, <2>3 DEF LookOK
  <2>5. UpOK(miss, loaded)
    BY <1>8, <1>9, <2>1, <2>3 DEF UpOK
  <2>6. Holding(miss)
    BY <2>1 DEF Holding, Looking
  <2>7. QED
    BY <1>1, <1>5, <2>1, <2>2, <2>4, <2>5, <2>6, LookStep
<1>10. CASE Probe(lib) = Null /\ ~(r.k < Len(names))
  <2>1. IsThread(none) /\ none.at = "act" /\ none.reg = s /\ SameCall(none, r)
    BY <1>2 DEF IsThread, Keys, SameCall
  <2>2. Becomes(t, none)
    BY <1>1, <1>10
  <2> HIDE DEF none
  <2>3. r.sym \notin Everywhere
    BY <1>3, <1>8, <1>10
  <2>4. LookOK(none, loaded) /\ UpOK(none, loaded) /\ Holding(none)
    BY <1>6, <2>1, <2>3 DEF LookOK, UpOK, SameCall, Holding, Looking
  <2>5. QED
    BY <1>1, <1>5, <2>1, <2>2, <2>4, LookStep
<1>11. QED
  BY <1>7, <1>9, <1>10

-----------------------------------------------------------------------------
(* The wrappers.                                                           *)

\* A step that writes no more than slots, and lets started come true.
LEMMA CallStep ==
  ASSUME IInv, NEW t \in Threads, NEW q, Becomes(t, q), Others,
         UNCHANGED <<cache, overrideId, initDone>>, SlotsOK', started' => initDone,
         Sound(q, loaded, overrideId, initDone, windowClass)
  PROVE  IInv'
<1>1. Grows
  BY DEF Others, Grows
<1>2. Shared'
  BY DEF IInv, Shared, LibrariesOK, CachesOK, OverrideOK, Others
<1>3. QED
  BY <1>1, <1>2, OneThread DEF Others

\* The same when the slots are left alone as well.
LEMMA QuietStep ==
  ASSUME IInv, NEW t \in Threads, NEW q, Becomes(t, q), Same, UNCHANGED slot,
         Sound(q, loaded, overrideId, initDone, windowClass)
  PROVE  IInv'
<1>1. SlotsOK' /\ (started' => initDone)
  BY DEF IInv, Shared, SlotsOK, OverrideOK, Same, Others
<1>2. QED
  BY <1>1, CallStep DEF Same

\* What holds of every thread.
LEMMA ThreadSound ==
  ASSUME IInv, NEW t \in Threads
  PROVE  LET r == thread[t]
         IN  /\ IsThread(r) /\ Named(r) /\ LookOK(r, loaded) /\ UpOK(r, loaded)
             /\ IdOK(r, overrideId, initDone, windowClass) /\ ErrOK(r) /\ BoxOK(r)
             /\ SlotsOK /\ LibrariesOK
BY DEF IInv, Shared, ThreadsOK, Sound

\* Starting a look-up, nothing is held yet.
LEMMA CheckSound ==
  ASSUME NEW q, IsThread(q), q.at = "check", q.op \in Wrappers \cup {"ctor"},
         q.sym \in Targets(q.op),
         q.sym \in Everywhere => \E k \in DOMAIN Sonames(Group(q.sym)) : Sonames(Group(q.sym))[k] \in loaded,
         IdOK(q, overrideId, initDone, windowClass), ErrOK(q), BoxOK(q)
  PROVE  Sound(q, loaded, overrideId, initDone, windowClass)
BY DEF Sound, Named, LookOK, UpOK, Holding, Looking

\* A wrapper that returns with what it promised is sound.
LEMMA DoneSound ==
  ASSUME NEW q, IsThread(q), q.at = "done", q.op \in Wrappers \cup {"ctor"},
         IdOK(q, overrideId, initDone, windowClass), ErrOK(q), BoxOK(q)
  PROVE  Sound(q, loaded, overrideId, initDone, windowClass)
BY DEF Sound, Named, LookOK, UpOK, Holding, Looking

\* A wrapper that is about to read the window class is sound.
LEMMA InitSound ==
  ASSUME NEW q, IsThread(q), q.at = "init", q.op \in SetIdWrappers \cup GetIdWrappers \cup {"ctor"}
  PROVE  Sound(q, loaded, overrideId, initDone, windowClass)
<1>1. q.op \notin RequireWrappers \cup LoaderWrappers /\ q.op \in Wrappers \cup {"ctor"}
  BY Kinds DEF Wrappers
<1>2. QED
  BY <1>1 DEF Sound, Named, LookOK, UpOK, IdOK, ErrOK, BoxOK, Holding, Looking

\* Entering a wrapper.
LEMMA EnterStep ==
  ASSUME IInv, NEW t \in Threads, NEW op \in uses[t], Enter(t, op)
  PROVE  IInv'
<1> DEFINE r == [Idle EXCEPT !.op = op]
<1>1. op \in Wrappers
  BY SymbolAssumption DEF IInv, Shared
<1>2. IsThread(r) /\ r.op = op /\ r.err = "none" /\ ~r.boxed
  BY DEF IsThread, Keys, Idle
<1>3. Same /\ UNCHANGED slot
  BY DEF Enter
<1> HIDE DEF r
<1>4. CASE op \in RequireWrappers
  <2>1. PICK d \in Dirs : Becomes(t, Resolve([r EXCEPT !.id = d], op))
    BY <1>4 DEF Enter, r
  <2> DEFINE p == [r EXCEPT !.id = d]
             q == Resolve(p, op)
  <2>2. IsThread(p) /\ p.op = op /\ p.err = "none"
    BY <1>2 DEF IsThread, Keys
  <2> HIDE DEF p
  <2>3. IsThread(q) /\ q.at = "check" /\ q.sym = op /\ q.op = op /\ q.err = "none"
    BY <2>2, ResolveFields
  <2>4. Becomes(t, q)
    BY <2>1 DEF p
  <2> HIDE DEF q
  <2>5. Sound(q, loaded, overrideId, initDone, windowClass)
    BY <1>1, <1>4, <2>3, Kinds, CheckSound
       DEF Targets, IdOK, ErrOK, BoxOK, Holding, Looking
  <2>6. QED
    BY <1>3, <2>4, <2>5, QuietStep
<1>5. CASE op \in LoaderWrappers
  <2> DEFINE q == Resolve(r, op)
  <2>1. IsThread(q) /\ q.at = "check" /\ q.sym = op /\ q.op = op /\ ~q.boxed
    BY <1>2, ResolveFields
  <2>2. Becomes(t, q)
    BY <1>5, Kinds DEF Enter, r
  <2> HIDE DEF q
  <2>3. Sound(q, loaded, overrideId, initDone, windowClass)
    BY <1>1, <1>5, <2>1, Kinds, CheckSound
       DEF Targets, IdOK, ErrOK, BoxOK, Holding, Looking
  <2>4. QED
    BY <1>3, <2>2, <2>3, QuietStep
<1>6. CASE op \notin RequireWrappers \cup LoaderWrappers
  <2>1. PICK i \in Ids : Becomes(t, [r EXCEPT !.id = i, !.at = "init"])
    BY <1>6 DEF Enter, r
  <2> DEFINE q == [r EXCEPT !.id = i, !.at = "init"]
  <2>2. IsThread(q) /\ q.at = "init" /\ q.op = op
    BY <1>2 DEF IsThread, Keys
  <2>3. Becomes(t, q)
    BY <2>1
  <2> HIDE DEF q
  <2>4. Sound(q, loaded, overrideId, initDone, windowClass)
    BY <1>1, <1>6, <2>2, InitSound DEF Wrappers
  <2>5. QED
    BY <1>3, <2>3, <2>4, QuietStep
<1>7. QED
  BY <1>4, <1>5, <1>6

\* The constructor of the window class fix.
LEMMA CtorStep == ASSUME IInv, GtkClassFixCtor PROVE IInv'
<1> DEFINE q == [Idle EXCEPT !.op = "ctor", !.at = "init"]
<1>1. Becomes(Main, q) /\ Same /\ UNCHANGED slot /\ Main \in Threads
  BY SymbolAssumption DEF GtkClassFixCtor
<1>2. IsThread(q) /\ q.at = "init" /\ q.op = "ctor"
  BY DEF IsThread, Keys, Idle
<1> HIDE DEF q
<1>3. Sound(q, loaded, overrideId, initDone, windowClass)
  BY <1>2, InitSound
<1>4. QED
  BY <1>1, <1>3, QuietStep

\* gtk_init.
LEMMA GtkInitStep == ASSUME IInv, NEW t \in Threads, GtkInit(t) PROVE IInv'
<1> DEFINE r == thread[t]
           q == AfterInit(r)
           found == IF initDone THEN overrideId
                    ELSE IF windowClass = "empty" THEN "none" ELSE windowClass
<1>1. /\ r.at = "init" /\ Becomes(t, q) /\ overrideId' = found /\ initDone' = TRUE
      /\ Others /\ UNCHANGED <<slot, cache, started>>
  BY DEF GtkInit
<1>2. IsThread(r) /\ r.op \in SetIdWrappers \cup GetIdWrappers \cup {"ctor"}
  BY <1>1, ThreadSound DEF Named
<1>3. Shared' /\ Grows
  BY <1>1 DEF IInv, Shared, LibrariesOK, SlotsOK, CachesOK, OverrideOK, Others, Grows
<1>4. r.op \notin RequireWrappers \cup LoaderWrappers /\ r.op \in Wrappers \cup {"ctor"}
  BY <1>2, Kinds DEF Wrappers
<1> HIDE DEF q
<1>5. CASE r.op \in GetIdWrappers \cup {"ctor"}
  <2>1. q = [r EXCEPT !.at = "test"]
    BY <1>5 DEF q, AfterInit
  <2>2. IsThread(q) /\ q.at = "test" /\ q.op = r.op
    BY <1>2, <2>1 DEF IsThread, Keys
  <2>3. Sound(q, loaded', overrideId', initDone', windowClass')
    BY <1>1, <1>4, <1>5, <2>2 DEF Sound, Named, LookOK, UpOK, IdOK, ErrOK, BoxOK, Holding, Looking
  <2>4. QED
    BY <1>1, <1>3, <2>3, OneThread
<1>6. CASE r.op \in SetIdWrappers
  <2>1. q = Resolve(r, r.op)
    BY <1>6, Kinds DEF q, AfterInit, Wrappers
  <2>2. IsThread(q) /\ q.at = "check" /\ q.op = r.op /\ q.sym = r.op
    BY <1>2, <2>1, ResolveFields
  <2>3. q.sym \in Targets(q.op) /\ q.sym \notin Everywhere /\ q.op \notin GetIdWrappers
    BY <1>6, <2>2, Kinds DEF Targets, Wrappers
  <2>4. Sound(q, loaded', overrideId', initDone', windowClass')
    BY <1>1, <1>4, <1>6, <2>2, <2>3 DEF Sound, Named, LookOK, UpOK, IdOK, ErrOK, BoxOK, Holding, Looking
  <2>5. QED
    BY <1>1, <1>3, <2>4, OneThread
<1>7. QED
  BY <1>2, <1>5, <1>6

\* What GTK_WINDOW_CLASS says, once it has been read.
LEMMA OverrideRead ==
  ASSUME IInv, initDone
  PROVE  /\ overrideId # "none" => overrideId = windowClass /\ windowClass \notin {"none", "empty"}
         /\ overrideId = "none" => windowClass \in {"none", "empty"}
BY DEF IInv, Shared, OverrideOK

\* The test whether an id is forced (effective_id).
LEMMA TestIdStep == ASSUME IInv, NEW t \in Threads, TestId(t) PROVE IInv'
<1> DEFINE r == thread[t]
<1>1. r.at = "test" /\ Same /\ UNCHANGED slot
  BY DEF TestId
<1>2. /\ IsThread(r) /\ r.op \in GetIdWrappers \cup {"ctor"} /\ initDone
      /\ r.op \notin RequireWrappers \cup LoaderWrappers \cup SetIdWrappers
      /\ r.op \in Wrappers \cup {"ctor"}
  <2>1. IsThread(r) /\ r.op \in GetIdWrappers \cup {"ctor"} /\ initDone
    BY <1>1, ThreadSound DEF Named, IdOK
  <2>2. QED
    BY <2>1, Kinds DEF Wrappers
<1>3. ASSUME NEW v, Becomes(t, Finish(r, v)),
             r.op \in GetIdWrappers => v = windowClass /\ windowClass \notin {"none", "empty"}
      PROVE  IInv'
  <2> DEFINE q == Finish(r, v)
  <2>1. IsThread(q) /\ q.at = "done" /\ q.op = r.op /\ q.ret = v
    BY <1>2, FinishFields
  <2> HIDE DEF q
  <2>2. IdOK(q, overrideId, initDone, windowClass) /\ ErrOK(q) /\ BoxOK(q)
    BY <1>2, <1>3, <2>1 DEF IdOK, ErrOK, BoxOK, Holding, Looking
  <2>3. QED
    BY <1>1, <1>2, <1>3, <2>1, <2>2, DoneSound, QuietStep DEF q
<1>4. ASSUME NEW s, Becomes(t, Resolve(r, s)), s \in Targets(r.op), s \notin Everywhere,
             r.op \in GetIdWrappers => overrideId = "none"
      PROVE  IInv'
  <2> DEFINE q == Resolve(r, s)
  <2>1. IsThread(q) /\ q.at = "check" /\ q.op = r.op /\ q.sym = s
    BY <1>2, ResolveFields
  <2> HIDE DEF q
  <2>2. IdOK(q, overrideId, initDone, windowClass) /\ ErrOK(q) /\ BoxOK(q)
    BY <1>2, <1>4, <2>1 DEF IdOK, ErrOK, BoxOK, Holding, Looking
  <2>3. QED
    BY <1>1, <1>2, <1>4, <2>1, <2>2, CheckSound, QuietStep DEF q
<1>5. CASE r.op = "ctor"
  <2>1. "g_set_prgname" \in Targets(r.op) /\ "g_set_prgname" \notin Everywhere
        /\ "ctor" \notin GetIdWrappers
    BY <1>5, Kinds DEF Targets, Wrappers
  <2>2. Becomes(t, Resolve(r, "g_set_prgname")) \/ Becomes(t, Finish(r, Null))
    BY <1>5 DEF TestId
  <2>3. QED
    BY <1>3, <1>4, <1>5, <2>1, <2>2
<1>6. CASE r.op \in GetIdWrappers
  <2>1. r.op # "ctor" /\ r.op \in Targets(r.op) /\ r.op \notin Everywhere
    BY <1>6, Kinds DEF Targets, Wrappers
  <2>2. IF overrideId # "none" THEN Becomes(t, Finish(r, overrideId)) ELSE Becomes(t, Resolve(r, r.op))
    BY <2>1 DEF TestId
  <2>3. QED
    BY <1>2, <1>3, <1>4, <2>1, <2>2, OverrideRead
<1>7. QED
  BY <1>2, <1>5, <1>6

\* The call of the real function that takes the id.
LEMMA SetIdStep == ASSUME IInv, NEW t \in Threads, SetId(t) PROVE IInv'
<1> DEFINE r == thread[t]
           v == IF r.reg = Null THEN Null
                ELSE IF r.op \in GetIdWrappers THEN r.id ELSE EffectiveId(r.id)
           q == Finish(r, v)
<1>1. /\ r.at = "act" /\ r.op \in SetIdWrappers \cup GetIdWrappers \cup {"ctor"}
      /\ Becomes(t, q) /\ Same /\ UNCHANGED slot
  BY DEF SetId, Act
<1>2. IsThread(r) /\ IdOK(r, overrideId, initDone, windowClass) /\ initDone
  BY <1>1, ThreadSound DEF IdOK
<1>3. r.op \notin RequireWrappers \cup LoaderWrappers /\ r.op \in Wrappers \cup {"ctor"}
  BY <1>1, Kinds DEF Wrappers
<1>4. IsThread(q) /\ q.at = "done" /\ q.op = r.op /\ q.id = r.id /\ q.ret = v
  BY <1>2, FinishFields
<1> HIDE DEF q
<1>5. r.op \in GetIdWrappers => overrideId = "none"
  BY <1>1, <1>2 DEF IdOK, Holding
<1>6. v # Null => v = IF windowClass \in {"none", "empty"} THEN r.id ELSE windowClass
  BY <1>2, <1>5, OverrideRead DEF EffectiveId
<1> HIDE DEF v
<1>7. IdOK(q, overrideId, initDone, windowClass) /\ ErrOK(q) /\ BoxOK(q)
  BY <1>2, <1>3, <1>4, <1>6 DEF IdOK, ErrOK, BoxOK, Holding, Looking
<1>8. QED
  BY <1>1, <1>3, <1>4, <1>7, DoneSound, QuietStep

-----------------------------------------------------------------------------
(* require_private_or_search_path.                                         *)

\* A call of require_private that is under way in thread t.
LEMMA InRequire ==
  ASSUME IInv, NEW t \in Threads, thread[t].op \in RequireWrappers
  PROVE  LET r == thread[t]
         IN  /\ IsThread(r) /\ Named(r) /\ LookOK(r, loaded) /\ ErrOK(r) /\ SlotsOK /\ LibrariesOK
             /\ r.op \notin SetIdWrappers \cup GetIdWrappers \cup LoaderWrappers
             /\ r.op \in Wrappers /\ r.op # "ctor" /\ r.op \notin Everywhere
             /\ Fallback(r.op) # r.op /\ Fallback(r.op) \notin Everywhere /\ ClearError # r.op
             /\ Targets(r.op) = {r.op, Fallback(r.op), ClearError}
<1> DEFINE r == thread[t]
<1>1. IsThread(r) /\ Named(r) /\ LookOK(r, loaded) /\ ErrOK(r) /\ SlotsOK /\ LibrariesOK
  BY ThreadSound
<1>2. /\ r.op \notin SetIdWrappers \cup GetIdWrappers \cup LoaderWrappers
      /\ r.op \in Wrappers /\ r.op # "ctor" /\ r.op \notin Everywhere
      /\ Fallback(r.op) # r.op /\ Fallback(r.op) \notin Everywhere /\ ClearError # r.op
  BY Kinds DEF Wrappers, Everywhere
<1>3. Targets(r.op) = {r.op, Fallback(r.op), ClearError}
  BY <1>2 DEF Targets
<1>4. QED
  BY <1>1, <1>2, <1>3

\* The ways such a call ends: the typelib without an error, NULL with one or
\* for want of the function.
LEMMA RequireEnds ==
  ASSUME IInv, NEW t \in Threads, thread[t].op \in RequireWrappers,
         NEW r, NEW v, IsThread(r), r.op = thread[t].op, Becomes(t, Finish(r, v)), Others,
         UNCHANGED <<cache, overrideId, initDone, started>>, SlotsOK',
         IF v = Null THEN r.sym = r.op \/ r.err # "none" ELSE r.err = "none"
  PROVE  IInv'
<1> DEFINE q == Finish(r, v)
<1>1. /\ IsThread(q) /\ q.at = "done" /\ q.ret = v /\ q.op = r.op /\ q.sym = r.sym /\ q.err = r.err
  BY FinishFields
<1>2. Becomes(t, q) /\ (started => initDone)
  BY DEF IInv, Shared, OverrideOK
<1> HIDE DEF q
<1>3. r.op \in Wrappers /\ r.op \notin SetIdWrappers \cup GetIdWrappers \cup LoaderWrappers /\ r.op # "ctor"
  BY InRequire
<1>4. IdOK(q, overrideId, initDone, windowClass) /\ ErrOK(q) /\ BoxOK(q)
  BY <1>1, <1>3 DEF IdOK, ErrOK, BoxOK, Holding, Looking
<1>5. QED
  BY <1>1, <1>2, <1>3, <1>4, DoneSound, CallStep

\* Such a call goes on to the function it stored.
LEMMA RequireCalls ==
  ASSUME IInv, NEW t \in Threads, thread[t].op \in RequireWrappers,
         NEW q, IsThread(q), q.op = thread[t].op, q.at = "call", q.sym \in {q.op, Fallback(q.op)},
         q.err = "none", Becomes(t, q), Others,
         UNCHANGED <<cache, overrideId, initDone, started>>, SlotsOK'
  PROVE  IInv'
<1>1. q.op \in Wrappers /\ q.op \notin SetIdWrappers \cup GetIdWrappers \cup LoaderWrappers /\ q.op # "ctor"
  BY InRequire
<1>2. Sound(q, loaded, overrideId, initDone, windowClass)
  BY <1>1 DEF Sound, Named, LookOK, UpOK, IdOK, ErrOK, BoxOK, Holding, Looking
<1>3. QED
  BY <1>2, CallStep DEF IInv, Shared, OverrideOK

\* Such a call looks up what it needs after a failure.
LEMMA RequireResolves ==
  ASSUME IInv, NEW t \in Threads, thread[t].op \in RequireWrappers,
         NEW r, IsThread(r), r.op = thread[t].op, r.err = "private",
         NEW s \in {Fallback(r.op), ClearError},
         s = ClearError => \E k \in DOMAIN Sonames("glib") : Sonames("glib")[k] \in loaded,
         Becomes(t, Resolve(r, s)), Others,
         UNCHANGED <<cache, overrideId, initDone, started>>, SlotsOK'
  PROVE  IInv'
<1> DEFINE q == Resolve(r, s)
<1>1. /\ IsThread(q) /\ q.at = "check" /\ q.sym = s /\ q.op = r.op /\ q.err = "private"
  BY ResolveFields
<1>2. Becomes(t, q) /\ (started => initDone)
  BY DEF IInv, Shared, OverrideOK
<1> HIDE DEF q
<1>3. /\ r.op \in Wrappers /\ r.op \notin SetIdWrappers \cup GetIdWrappers \cup LoaderWrappers
      /\ r.op # "ctor" /\ Fallback(r.op) # r.op /\ Fallback(r.op) \notin Everywhere /\ ClearError # r.op
      /\ Targets(r.op) = {r.op, Fallback(r.op), ClearError}
  BY InRequire
<1>4. IdOK(q, overrideId, initDone, windowClass) /\ ErrOK(q) /\ BoxOK(q)
  BY <1>1, <1>3 DEF IdOK, ErrOK, BoxOK, Holding, Looking
<1>5. Group(ClearError) = "glib"
  BY DEF Group, ClearError, GirSymbols, GlySymbols, RequireWrappers, LoaderWrappers, Selector
<1>6. Sound(q, loaded, overrideId, initDone, windowClass)
  BY <1>1, <1>3, <1>4, <1>5, CheckSound
<1>7. QED
  BY <1>2, <1>6, CallStep

\* The slots are written again with what was found.
LEMMA StoreAgain ==
  ASSUME IInv, NEW t \in Threads, thread[t].op \in RequireWrappers, thread[t].at = "act",
         slot' = [slot EXCEPT ![thread[t].sym] = thread[t].reg], UNCHANGED loaded
  PROVE  SlotsOK'
<1> DEFINE r == thread[t]
<1>1. LookOK(r, loaded) /\ SlotsOK /\ r.sym \in Symbols
  BY InLookup DEF Holding
<1>2. r.reg # Null => r.reg \in loaded /\ r.sym \in Exports(r.reg)
  BY <1>1 DEF LookOK
<1>3. QED
  BY <1>1, <1>2 DEF SlotsOK

\* require_private finds a slot filled and goes on with it.
LEMMA TestSlotStep == ASSUME IInv, NEW t \in Threads, TestSlot(t) PROVE IInv'
<1> DEFINE r == thread[t]
           q == [r EXCEPT !.at = "call"]
<1>1. /\ r.at = "check" /\ r.op \in RequireWrappers /\ r.sym # ClearError /\ slot[r.sym] # Null
      /\ Becomes(t, IF r.sym = r.op THEN q ELSE Resolve(r, ClearError))
      /\ Others /\ UNCHANGED <<slot, cache, overrideId, initDone, started>>
  BY DEF TestSlot, Stored, Same
<1>2. Looking(r) /\ Holding(r)
  BY <1>1 DEF Holding, Looking
<1>3. /\ IsThread(r) /\ LibrariesOK /\ SlotsOK /\ ErrOK(r) /\ r.sym \in Symbols
      /\ r.sym \in {r.op, Fallback(r.op)} /\ r.op # Fallback(r.op)
  BY <1>1, <1>2, InRequire, InLookup DEF Named
<1>4. SlotsOK'
  BY <1>1, <1>3 DEF SlotsOK, Others
<1>5. CASE r.sym = r.op
  <2>1. r.err = "none"
    BY <1>1, <1>2, <1>3, <1>5 DEF ErrOK
  <2>2. IsThread(q) /\ q.at = "call" /\ q.op = r.op /\ q.sym = r.op /\ q.err = "none"
    <3> HIDE DEF r
    <3>1. IsThread(q) /\ q.at = "call" /\ q.op = r.op /\ q.sym = r.sym /\ q.err = r.err
      BY <1>3, AtFields
    <3>2. QED
      BY <1>5, <2>1, <3>1
  <2>3. Becomes(t, q)
    <3> HIDE DEF q
    <3> QED BY <1>1, <1>5
  <2> HIDE DEF q
  <2>4. QED
    BY <1>1, <1>4, <2>2, <2>3, RequireCalls
<1>6. CASE r.sym # r.op
  <2>1. r.err = "private"
    BY <1>1, <1>2, <1>3, <1>6 DEF ErrOK
  <2>2. "libglib-2.0.so.0" \in loaded
    BY <1>1, <1>3, NeedsGlib DEF LibrariesOK, SlotsOK
  <2>3. 6 \in DOMAIN Sonames("glib") /\ Sonames("glib")[6] = "libglib-2.0.so.0"
    BY DEF Sonames, GlibSonames
  <2>4. Becomes(t, Resolve(r, ClearError))
    BY <1>1, <1>6
  <2>5. QED
    BY <1>1, <1>3, <1>4, <2>1, <2>2, <2>3, <2>4, RequireResolves
<1>7. QED
  BY <1>5, <1>6

\* require_private stores what its look-up found.
LEMMA StorePrivateStep == ASSUME IInv, NEW t \in Threads, StorePrivate(t) PROVE IInv'
<1> DEFINE r == thread[t]
           q == [r EXCEPT !.at = "call"]
<1>1. /\ r.at = "act" /\ r.op \in RequireWrappers /\ r.sym = r.op
      /\ slot' = [slot EXCEPT ![r.sym] = r.reg]
      /\ Becomes(t, IF r.reg = Null THEN Finish(r, Null) ELSE q)
      /\ Others /\ UNCHANGED <<cache, overrideId, initDone, started>>
  BY DEF StorePrivate, Act, Same
<1>2. SlotsOK'
  BY <1>1, StoreAgain DEF Others
<1>3. IsThread(r) /\ r.err = "none" /\ r.sym = r.op
  BY <1>1, InRequire DEF ErrOK, Holding
<1>4. CASE r.reg = Null
  BY <1>1, <1>2, <1>3, <1>4, RequireEnds
<1>5. CASE r.reg # Null
  <2>1. IsThread(q) /\ q.at = "call" /\ q.op = r.op /\ q.sym = r.op /\ q.err = "none"
    <3> HIDE DEF r
    <3>1. IsThread(q) /\ q.at = "call" /\ q.op = r.op /\ q.sym = r.sym /\ q.err = r.err
      BY <1>3, AtFields
    <3>2. QED
      BY <1>3, <3>1
  <2>2. Becomes(t, q)
    <3> HIDE DEF q
    <3> QED BY <1>1, <1>5
  <2> HIDE DEF q
  <2>3. QED
    BY <1>1, <1>2, <2>1, <2>2, RequireCalls
<1>6. QED
  BY <1>4, <1>5

\* require_private calls the private function.
LEMMA CallPrivateStep == ASSUME IInv, NEW t \in Threads, CallPrivate(t) PROVE IInv'
<1> DEFINE r == thread[t]
           p == [r EXCEPT !.err = "private"]
<1>1. /\ r.at = "call" /\ r.sym = r.op
      /\ \/ Becomes(t, Finish(r, "fault"))
         \/ Becomes(t, Finish(r, RemapTypelibDir(r.id)))
         \/ Becomes(t, Resolve(p, Fallback(r.op)))
      /\ Others /\ UNCHANGED <<slot, cache, overrideId, initDone, started>>
  BY DEF CallPrivate, Same
<1>2. r.op \in RequireWrappers
  BY <1>1, ThreadSound DEF Named
<1>3. IsThread(r) /\ r.err = "none" /\ Fallback(r.op) # ClearError
  BY <1>1, <1>2, InRequire DEF ErrOK, Everywhere
<1>4. SlotsOK'
  BY <1>1, <1>2, InRequire DEF SlotsOK, Others
<1>5. ASSUME NEW v, Becomes(t, Finish(r, v))
      PROVE  IInv'
  BY <1>1, <1>2, <1>3, <1>4, <1>5, RequireEnds
<1>6. CASE Becomes(t, Resolve(p, Fallback(r.op)))
  <2>1. IsThread(p) /\ p.op = r.op /\ p.err = "private"
    BY <1>3 DEF IsThread, Keys
  <2> HIDE DEF p
  <2>2. QED
    BY <1>1, <1>2, <1>3, <1>4, <1>6, <2>1, RequireResolves
<1>7. QED
  BY <1>1, <1>5, <1>6

\* require_private stores the function it falls back to.
LEMMA StoreFallbackStep == ASSUME IInv, NEW t \in Threads, StoreFallback(t) PROVE IInv'
<1> DEFINE r == thread[t]
<1>1. /\ r.at = "act" /\ r.op \in RequireWrappers /\ r.sym = Fallback(r.op)
      /\ slot' = [slot EXCEPT ![r.sym] = r.reg]
      /\ Becomes(t, IF r.reg = Null THEN Finish(r, Null) ELSE Resolve(r, ClearError))
      /\ Others /\ UNCHANGED <<cache, overrideId, initDone, started>>
  BY DEF StoreFallback, Act, Same
<1>2. SlotsOK'
  BY <1>1, StoreAgain DEF Others
<1>3. IsThread(r) /\ r.err = "private" /\ LibrariesOK /\ (r.reg # Null => r.reg \in loaded)
  BY <1>1, InRequire DEF ErrOK, Holding, LookOK
<1>4. CASE r.reg = Null
  BY <1>1, <1>2, <1>3, <1>4, RequireEnds
<1>5. CASE r.reg # Null
  <2>1. "libglib-2.0.so.0" \in loaded
    BY <1>3, <1>5, NeedsGlib DEF LibrariesOK
  <2>2. 6 \in DOMAIN Sonames("glib") /\ Sonames("glib")[6] = "libglib-2.0.so.0"
    BY DEF Sonames, GlibSonames
  <2>3. Becomes(t, Resolve(r, ClearError))
    BY <1>1, <1>5
  <2>4. QED
    BY <1>1, <1>2, <1>3, <2>1, <2>2, <2>3, RequireResolves
<1>6. QED
  BY <1>4, <1>5

\* The first error is cleared before the second attempt.
LEMMA ClearGiErrorStep == ASSUME IInv, NEW t \in Threads, ClearGiError(t) PROVE IInv'
<1> DEFINE r == thread[t]
           q == [r EXCEPT !.err = IF r.reg = Null THEN @ ELSE "none",
                          !.sym = Fallback(r.op), !.at = "call"]
<1>1. /\ r.at = "act" /\ r.op \in RequireWrappers /\ r.sym = ClearError
      /\ Becomes(t, q) /\ Others /\ UNCHANGED <<slot, cache, overrideId, initDone, started>>
  BY DEF ClearGiError, Act, Same
<1>2. r.reg # Null
  BY <1>1, InLookup DEF UpOK, Everywhere, Holding
<1>3. IsThread(r) /\ SlotsOK
  BY <1>1, InRequire
<1>4. IsThread(q) /\ q.op = r.op /\ q.at = "call" /\ q.sym = Fallback(r.op) /\ q.err = "none"
  BY <1>2, <1>3 DEF IsThread, Keys
<1> HIDE DEF q
<1>5. SlotsOK'
  BY <1>1, <1>3 DEF SlotsOK, Others
<1>6. QED
  BY <1>1, <1>4, <1>5, RequireCalls

\* The second attempt, through the search path.
LEMMA CallFallbackStep == ASSUME IInv, NEW t \in Threads, CallFallback(t) PROVE IInv'
<1> DEFINE r == thread[t]
           p == [r EXCEPT !.err = IF @ = "none" THEN "fallback" ELSE @]
<1>1. /\ r.at = "call" /\ r.sym = Fallback(r.op)
      /\ \/ Becomes(t, Finish(r, "fault"))
         \/ Becomes(t, Finish(r, "GI_TYPELIB_PATH"))
         \/ Becomes(t, Finish(p, Null))
      /\ Others /\ UNCHANGED <<slot, cache, overrideId, initDone, started>>
  BY DEF CallFallback, Same
<1>2. r.op \in RequireWrappers
  BY <1>1, ThreadSound DEF Named
<1>3. IsThread(r) /\ r.err = "none" /\ SlotsOK
  BY <1>1, <1>2, InRequire DEF ErrOK
<1>4. SlotsOK'
  BY <1>1, <1>3 DEF SlotsOK, Others
<1>5. ASSUME NEW v, v # Null, Becomes(t, Finish(r, v))
      PROVE  IInv'
  BY <1>1, <1>2, <1>3, <1>4, <1>5, RequireEnds
<1>6. CASE Becomes(t, Finish(p, Null))
  <2>1. IsThread(p) /\ p.op = r.op /\ p.err = "fallback"
    BY <1>3 DEF IsThread, Keys
  <2> HIDE DEF p
  <2>2. QED
    BY <1>1, <1>2, <1>4, <1>6, <2>1, RequireEnds
<1>7. QED
  BY <1>1, <1>5, <1>6 DEF Null

-----------------------------------------------------------------------------
(* GLY_LOADER_WRAPPER.                                                     *)

\* A function that makes a loader comes from glycin.
LEMMA LoadersAreGlycin ==
  ASSUME NEW lib, NEW s \in LoaderWrappers, s \in Exports(lib)
  PROVE  \E k \in DOMAIN Sonames(Group(Selector)) : Sonames(Group(Selector))[k] = lib
<1>1. lib \in Range(GlySonames)
  BY DEF Exports, LoaderWrappers, ClearError
<1>2. Sonames(Group(Selector)) = GlySonames
  BY DEF Sonames, Group, GirSymbols, GlySymbols, Selector, LoaderWrappers, RequireWrappers
<1>3. QED
  BY <1>1, <1>2 DEF Range

\* A call that makes a loader, under way in thread t.
LEMMA InLoader ==
  ASSUME IInv, NEW t \in Threads, thread[t].op \in LoaderWrappers
  PROVE  LET r == thread[t]
         IN  /\ IsThread(r) /\ LookOK(r, loaded) /\ BoxOK(r) /\ SlotsOK
             /\ r.op \notin SetIdWrappers \cup GetIdWrappers \cup RequireWrappers
             /\ r.op \in Wrappers /\ r.op # "ctor" /\ r.op # Selector
             /\ Targets(r.op) = {r.op, Selector}
<1> DEFINE r == thread[t]
<1>1. IsThread(r) /\ LookOK(r, loaded) /\ BoxOK(r) /\ SlotsOK
  BY ThreadSound
<1>2. /\ r.op \notin SetIdWrappers \cup GetIdWrappers \cup RequireWrappers
      /\ r.op \in Wrappers /\ r.op # "ctor" /\ r.op # Selector
  BY Kinds DEF Wrappers, Everywhere
<1>3. Targets(r.op) = {r.op, Selector}
  BY <1>2 DEF Targets
<1>4. QED
  BY <1>1, <1>2, <1>3

\* It ends with the sandbox off.
LEMMA LoaderEnds ==
  ASSUME IInv, NEW t \in Threads, thread[t].op \in LoaderWrappers,
         NEW r, NEW v, IsThread(r), r.op = thread[t].op, ~r.boxed,
         Becomes(t, Finish(r, v)), Same, UNCHANGED slot
  PROVE  IInv'
<1> DEFINE q == Finish(r, v)
<1>1. IsThread(q) /\ q.at = "done" /\ q.op = r.op /\ ~q.boxed
  BY FinishFields
<1>2. r.op \in Wrappers /\ r.op \notin SetIdWrappers \cup GetIdWrappers \cup RequireWrappers /\ r.op # "ctor"
  BY InLoader
<1>3. Becomes(t, q)
  OBVIOUS
<1> HIDE DEF q
<1>4. IdOK(q, overrideId, initDone, windowClass) /\ ErrOK(q) /\ BoxOK(q)
  BY <1>1, <1>2 DEF IdOK, ErrOK, BoxOK, Holding, Looking
<1>5. QED
  BY <1>1, <1>2, <1>3, <1>4, DoneSound, QuietStep

\* A glycin loader is made.
LEMMA NewLoaderStep == ASSUME IInv, NEW t \in Threads, NewLoader(t) PROVE IInv'
<1> DEFINE r == thread[t]
           p == [r EXCEPT !.boxed = TRUE]
<1>1. /\ r.at = "act" /\ r.op \in LoaderWrappers /\ r.sym = r.op
      /\ \/ Becomes(t, Finish(r, Null))
         \/ r.reg # Null /\ Becomes(t, Resolve(p, Selector))
      /\ Same /\ UNCHANGED slot
  BY DEF NewLoader, Act
<1>2. IsThread(r) /\ ~r.boxed /\ LookOK(r, loaded)
  BY <1>1, InLoader DEF BoxOK, Holding
<1>3. CASE Becomes(t, Finish(r, Null))
  BY <1>1, <1>2, <1>3, LoaderEnds
<1>4. CASE r.reg # Null /\ Becomes(t, Resolve(p, Selector))
  <2>1. r.reg \in loaded /\ r.op \in Exports(r.reg)
    BY <1>1, <1>2, <1>4 DEF LookOK
  <2>2. \E k \in DOMAIN Sonames(Group(Selector)) : Sonames(Group(Selector))[k] \in loaded
    BY <1>1, <2>1, LoadersAreGlycin
  <2>3. IsThread(p) /\ p.op = r.op
    BY <1>2 DEF IsThread, Keys
  <2> HIDE DEF p
  <2> DEFINE q == Resolve(p, Selector)
  <2>4. IsThread(q) /\ q.at = "check" /\ q.sym = Selector /\ q.op = r.op
    BY <2>3, ResolveFields
  <2>5. Becomes(t, q)
    BY <1>4
  <2> HIDE DEF q
  <2>6. /\ r.op \in Wrappers /\ r.op \notin SetIdWrappers \cup GetIdWrappers \cup RequireWrappers
        /\ r.op # "ctor" /\ r.op # Selector /\ Targets(r.op) = {r.op, Selector}
    BY <1>1, InLoader
  <2>7. IdOK(q, overrideId, initDone, windowClass) /\ ErrOK(q) /\ BoxOK(q)
    BY <2>4, <2>6 DEF IdOK, ErrOK, BoxOK, Holding, Looking
  <2>8. Sound(q, loaded, overrideId, initDone, windowClass)
    BY <2>2, <2>4, <2>6, <2>7, CheckSound
  <2>9. QED
    BY <1>1, <2>5, <2>8, QuietStep
<1>5. QED
  BY <1>1, <1>3, <1>4

\* The loader is told to run without a sandbox.
LEMMA ForceNotSandboxedStep == ASSUME IInv, NEW t \in Threads, ForceNotSandboxed(t) PROVE IInv'
<1> DEFINE r == thread[t]
           p == [r EXCEPT !.boxed = r.reg = Null]
<1>1. /\ r.at = "act" /\ r.op \in LoaderWrappers /\ r.sym = Selector
      /\ Becomes(t, Finish(p, "loader")) /\ Same /\ UNCHANGED slot
  BY DEF ForceNotSandboxed, Act
<1>2. r.reg # Null
  BY <1>1, InLookup DEF UpOK, Everywhere, Holding
<1>3. IsThread(r)
  BY <1>1, InLoader
<1>4. IsThread(p) /\ p.op = r.op /\ ~p.boxed
  BY <1>2, <1>3 DEF IsThread, Keys
<1> HIDE DEF p
<1>5. QED
  BY <1>1, <1>4, LoaderEnds

-----------------------------------------------------------------------------
\* A thread outside of every wrapper is sound.
LEMMA IdleSound ==
  ASSUME NEW libs, NEW override, NEW done, NEW class
  PROVE  Sound(Idle, libs, override, done, class)
BY IdleFields, Kinds DEF Sound, Named, LookOK, UpOK, IdOK, ErrOK, BoxOK, Holding, Looking, Wrappers

\* A wrapper returns to the application.
LEMMA ReturnStep == ASSUME IInv, NEW t \in Threads, Return(t) PROVE IInv'
<1>1. /\ thread[t].at = "done" /\ Becomes(t, Idle)
      /\ started' = (started \/ thread[t].op = "ctor")
      /\ Others /\ UNCHANGED <<slot, cache, overrideId, initDone>>
  BY DEF Return
<1>2. started' => initDone
  BY <1>1, ThreadSound DEF IInv, Shared, OverrideOK, IdOK
<1>3. SlotsOK'
  BY <1>1 DEF IInv, Shared, SlotsOK, Others
<1>4. QED
  BY <1>1, <1>2, <1>3, IdleSound, CallStep

LEMMA DlopenStep ==
  ASSUME IInv, NEW lib \in Libraries, NEW visible \in BOOLEAN, Dlopen(lib, visible)
  PROVE  IInv'
<1>1. /\ loaded' = loaded \cup Needs(lib) /\ global \subseteq global'
      /\ global' \subseteq global \cup Needs(lib)
      /\ UNCHANGED <<slot, cache, overrideId, initDone, windowClass, uses, started, thread>>
  BY DEF Dlopen
<1>2. Null \notin Needs(lib)
  BY SymbolAssumption DEF Needs, Null, Gio, Glib
<1>3. LibrariesOK'
  BY <1>1, <1>2, NeedsClosed DEF IInv, Shared, LibrariesOK
<1>4. Shared' /\ Grows
  BY <1>1, <1>3 DEF IInv, Shared, SlotsOK, CachesOK, OverrideOK, Grows
<1>5. ThreadsOK'
  BY <1>1, <1>4, SoundStays DEF IInv, ThreadsOK
<1>6. QED
  BY <1>4, <1>5 DEF IInv

\* Before the first call the invariant holds.
LEMMA Start == Init => IInv
<1> SUFFICES ASSUME Init PROVE IInv
  OBVIOUS
<1>1. PICK libs \in SUBSET Libraries : global = UNION {Needs(lib) : lib \in libs}
  BY DEF Init
<1>2. LibrariesOK
  <2>1. \A lib \in libs : Null \notin Needs(lib)
    BY SymbolAssumption DEF Needs, Null, Gio, Glib
  <2>2. \A l \in global : \E lib \in libs : l \in Needs(lib)
    BY <1>1
  <2>3. \A l \in global : Needs(l) \subseteq global
    BY <1>1, <2>2, NeedsClosed
  <2>4. QED
    BY <2>1, <2>2, <2>3 DEF Init, LibrariesOK
<1>3. SlotsOK /\ CachesOK
  BY DEF Init, SlotsOK, CachesOK, Groups
<1>4. OverrideOK
  BY DEF Init, OverrideOK
<1>5. ThreadsOK
  BY IdleSound DEF Init, ThreadsOK
<1>6. QED
  BY <1>2, <1>3, <1>4, <1>5 DEF Init, IInv, Shared

\* Every step of every thread keeps the invariant.
LEMMA Step == IInv /\ [Next]_vars => IInv'
<1> SUFFICES ASSUME IInv, [Next]_vars PROVE IInv'
  OBVIOUS
<1>1. ASSUME NEW t \in Threads, NEW op \in uses[t], Enter(t, op)
      PROVE  IInv'
  BY <1>1, EnterStep
<1>2. ASSUME NEW t \in Threads,
             Check(t) \/ TryNext(t) \/ LoadedHandle(t) \/ TryHandle(t)
      PROVE  IInv'
  <2>1. LoadedHandle(t) => thread[t].at \in {"handle", "probe"}
    BY DEF LoadedHandle
  <2>2. QED
    BY <1>2, <2>1, CheckStep, TryNextStep, HandleStep, ProbeStep, TryHandleStep
<1>3. ASSUME NEW t \in Threads,
             \/ GtkInit(t) \/ TestId(t) \/ SetId(t) \/ TestSlot(t)
             \/ StorePrivate(t) \/ CallPrivate(t) \/ StoreFallback(t) \/ ClearGiError(t)
             \/ CallFallback(t) \/ NewLoader(t) \/ ForceNotSandboxed(t) \/ Return(t)
      PROVE  IInv'
  BY <1>3, GtkInitStep, TestIdStep, SetIdStep, TestSlotStep, StorePrivateStep,
     CallPrivateStep, StoreFallbackStep, ClearGiErrorStep, CallFallbackStep, NewLoaderStep, ForceNotSandboxedStep,
     ReturnStep
<1>4. CASE GtkClassFixCtor
  BY <1>4, CtorStep
<1>5. ASSUME NEW lib \in Libraries, NEW visible \in BOOLEAN, Dlopen(lib, visible)
      PROVE  IInv'
  BY <1>5, DlopenStep
<1>6. CASE UNCHANGED vars
  BY <1>6 DEF vars, IInv, Shared, ThreadsOK, LibrariesOK, SlotsOK, CachesOK, OverrideOK
<1>7. QED
  BY <1>1, <1>2, <1>3, <1>4, <1>5, <1>6 DEF Next

\* Whatever threads store in the slots and handles meanwhile: what they hold
\* belongs to libraries that are in the process, and every wrapper is on its
\* way to keeping what it promises.
THEOREM SymbolsInvariant == Spec => []IInv
<1>1. Init => IInv
  BY Start
<1>2. IInv /\ [Next]_vars => IInv'
  BY Step
<1>3. QED
  BY <1>1, <1>2, PTL DEF Spec

\* The types of SymbolFix: no slot ever holds a wrapper of its own.
THEOREM SymbolTypesHold == Spec => []TypeOK
<1>1. IInv => TypeOK
  <2> SUFFICES ASSUME IInv PROVE TypeOK
    OBVIOUS
  <2>1. /\ global \subseteq loaded
        /\ \A s \in Symbols : slot[s] = Null \/ (slot[s] \in loaded /\ s \in Exports(slot[s]))
    BY DEF IInv, Shared, LibrariesOK, SlotsOK
  <2>2. CachesOK /\ DOMAIN cache = Groups
    BY DEF IInv, Shared, CachesOK
  <2>3. \A g \in DOMAIN cache : cache[g] = Null \/ cache[g] \in loaded \cap Range(Sonames(g))
    BY <2>2 DEF CachesOK
  <2>4. overrideId \in {"none", windowClass} /\ (started => initDone)
    BY DEF IInv, Shared, OverrideOK
  <2>5. QED
    BY <2>1, <2>3, <2>4 DEF TypeOK
<1>2. QED
  BY <1>1, SymbolsInvariant, PTL

\* A window class that is set is the one every call of every thread uses
\* (gtk_init, effective_id).
THEOREM IdAlwaysForced == Spec => []ForcedId
<1>1. IInv => ForcedId
  BY DEF IInv, ThreadsOK, Sound, IdOK, ForcedId, Ended
<1>2. QED
  BY <1>1, SymbolsInvariant, PTL

\* The GError contract of require_private, with any number of threads in it.
THEOREM ErrorContractKept == Spec => []ErrorContract
<1>1. IInv => ErrorContract
  BY DEF IInv, ThreadsOK, Sound, ErrOK, ErrorContract, Ended
<1>2. QED
  BY <1>1, SymbolsInvariant, PTL

\* No loader is handed out with its sandbox on (force_not_sandboxed): the
\* look-up of the selector cannot fail once a loader has been made.
THEOREM NeverSandboxed == Spec => []NotSandboxed
<1>1. IInv => NotSandboxed
  BY DEF IInv, ThreadsOK, Sound, BoxOK, NotSandboxed, Ended
<1>2. QED
  BY <1>1, SymbolsInvariant, PTL

-----------------------------------------------------------------------------
(* Look-ups that have to succeed.                                          *)

Loadable == UNION {Needs(lib) : lib \in Libraries}

\* Of the libraries of a group that can be loaded here, one that is tried
\* earlier provides what a later one does: an application has one generation
\* of each toolkit, and its sonames are listed from the top of the stack down.
Layered ==
    \A s \in Symbols :
        LET names == Sonames(Group(s))
        IN  \A i, j \in DOMAIN names :
                i < j /\ names[i] \in Loadable /\ names[j] \in Loadable
                  /\ DlsymIn(names[j], s) # Null => DlsymIn(names[i], s) # Null

\* The library that the probes of s will find, or have found, provides it.
Good(s) ==
    LET g == Group(s)
        names == Sonames(g)
    IN  /\ cache[g] # Null => DlsymIn(cache[g], s) # Null
        /\ \E k \in DOMAIN names :
             /\ names[k] \in loaded /\ DlsymIn(names[k], s) # Null
             /\ \A t \in Threads :
                  thread[t].at = "probe" /\ Group(thread[t].sym) = g => thread[t].k <= k

SureOK(r) ==
    r.sure =>
        /\ r.at \in {"check", "next"} => DlsymNext(r.sym) # Null \/ Good(r.sym)
        /\ r.at \in {"handle", "probe"} => Good(r.sym)
        /\ r.at = "sym" => DlsymIn(r.reg, r.sym) # Null
        /\ r.at = "act" => r.reg # Null

SureInv == /\ IInv /\ loaded \subseteq Loadable
           /\ \A t \in Threads : SureOK(thread[t])

\* Away from a look-up, or at the start of one.
Landed(q) ==
    \/ q.at \in {"idle", "init", "test", "call", "done"}
    \/ q.at = "check" /\ (q.sure <=> Within(q.sym))

\* The two ends of a look-up leave nothing of it behind.
LEMMA Lands ==
  ASSUME NEW r, IsThread(r), NEW s, NEW v
  PROVE  Landed(Resolve(r, s)) /\ Landed(Finish(r, v)) /\ Landed(Idle)
BY ResolveFields, FinishFields, IdleFields DEF Landed

\* No step outside of a look-up is in the middle of one.
LEMMA WrapperLands ==
  ASSUME IInv, NEW t \in Threads,
         \/ \E op \in uses[t] : Enter(t, op)
         \/ GtkInit(t) \/ TestId(t) \/ SetId(t) \/ TestSlot(t)
         \/ StorePrivate(t) \/ CallPrivate(t) \/ StoreFallback(t) \/ ClearGiError(t)
         \/ CallFallback(t) \/ NewLoader(t) \/ ForceNotSandboxed(t) \/ Return(t)
  PROVE  (\E q : Becomes(t, q) /\ Landed(q)) /\ UNCHANGED <<cache, loaded, global>>
<1> DEFINE r == thread[t]
<1>1. IsThread(r)
  BY ThreadSound
<1>2. ASSUME NEW op \in uses[t], Enter(t, op)
      PROVE  (\E q : Becomes(t, q) /\ Landed(q)) /\ UNCHANGED <<cache, loaded, global>>
  <2> DEFINE p == [Idle EXCEPT !.op = op]
  <2>1. IsThread(p)
    BY DEF IsThread, Keys, Idle
  <2>2. \/ \E d \in Dirs : Becomes(t, Resolve([p EXCEPT !.id = d], op))
        \/ Becomes(t, Resolve(p, op))
        \/ \E i \in Ids : Becomes(t, [p EXCEPT !.id = i, !.at = "init"])
    BY <1>2 DEF Enter
  <2> HIDE DEF p
  <2>3. \A d : IsThread([p EXCEPT !.id = d])
    BY <2>1 DEF IsThread, Keys
  <2>4. \A d : [p EXCEPT !.id = d, !.at = "init"].at = "init"
    BY <2>1 DEF IsThread, Keys
  <2>5. QED
    BY <1>2, <2>1, <2>2, <2>3, <2>4, Lands DEF Enter, Same, Others, Landed
<1>3. CASE GtkInit(t)
  <2>1. Landed(AfterInit(r))
    BY <1>1, AtFields, Lands DEF AfterInit, Landed
  <2>2. QED
    BY <1>3, <2>1 DEF GtkInit, Others
<1>4. CASE TestId(t) \/ SetId(t) \/ Return(t)
  BY <1>1, <1>4, Lands DEF TestId, SetId, Return, Same, Others
<1>5. CASE StorePrivate(t)
  <2> DEFINE q == [r EXCEPT !.at = "call"]
  <2>1. q.at = "call"
    BY <1>1 DEF IsThread, Keys
  <2>2. /\ Becomes(t, IF r.reg = Null THEN Finish(r, Null) ELSE q)
        /\ UNCHANGED <<cache, loaded, global>>
    BY <1>5 DEF StorePrivate, Same, Others
  <2> HIDE DEF q
  <2>3. QED
    BY <1>1, <2>1, <2>2, Lands DEF Landed
<1>6. CASE CallPrivate(t)
  <2>1. IsThread([r EXCEPT !.err = "private"])
    BY <1>1 DEF IsThread, Keys
  <2>2. QED
    BY <1>1, <1>6, <2>1, Lands DEF CallPrivate, Same, Others
<1>7. CASE StoreFallback(t)
  BY <1>1, <1>7, Lands DEF StoreFallback, Same, Others
<1>8. CASE ClearGiError(t)
  <2> DEFINE q == [r EXCEPT !.err = IF r.reg = Null THEN @ ELSE "none",
                            !.sym = Fallback(r.op), !.at = "call"]
  <2>1. q.at = "call"
    BY <1>1 DEF IsThread, Keys
  <2>2. Becomes(t, q) /\ UNCHANGED <<cache, loaded, global>>
    BY <1>8 DEF ClearGiError, Same, Others
  <2> HIDE DEF q
  <2>3. QED
    BY <2>1, <2>2 DEF Landed
<1>9. CASE CallFallback(t)
  <2>1. IsThread([r EXCEPT !.err = IF @ = "none" THEN "fallback" ELSE @])
    BY <1>1 DEF IsThread, Keys
  <2>2. QED
    BY <1>1, <1>9, <2>1, Lands DEF CallFallback, Same, Others
<1>10. CASE NewLoader(t)
  <2>1. IsThread([r EXCEPT !.boxed = TRUE])
    BY <1>1 DEF IsThread, Keys
  <2>2. QED
    BY <1>1, <1>10, <2>1, Lands DEF NewLoader, Same, Others
<1>11. CASE ForceNotSandboxed(t)
  <2>1. IsThread([r EXCEPT !.boxed = r.reg = Null])
    BY <1>1 DEF IsThread, Keys
  <2>2. QED
    BY <1>1, <1>11, <2>1, Lands DEF ForceNotSandboxed, Same, Others
<1>12. CASE TestSlot(t)
  <2> DEFINE q == [r EXCEPT !.at = "call"]
  <2>1. q.at = "call"
    BY <1>1 DEF IsThread, Keys
  <2>2. /\ Becomes(t, IF r.sym = r.op THEN q ELSE Resolve(r, ClearError))
        /\ UNCHANGED <<cache, loaded, global>>
    BY <1>12 DEF TestSlot, Same, Others
  <2> HIDE DEF q
  <2>3. QED
    BY <1>1, <2>1, <2>2, Lands DEF Landed
<1>13. QED
  BY <1>2, <1>3, <1>4, <1>5, <1>6, <1>7, <1>8, <1>9, <1>10, <1>11, <1>12

\* A look-up that has to succeed starts with a good library, or with one in
\* the sight of RTLD_NEXT.
LEMMA WithinGood ==
  ASSUME IInv, NEW s \in Symbols, Within(s)
  PROVE  DlsymNext(s) # Null \/ Good(s)
<1> DEFINE g == Group(s)
           names == Sonames(g)
           up == {k \in DOMAIN names : names[k] \in loaded}
           h == IF cache[g] # Null THEN cache[g] ELSE IF up = {} THEN Null ELSE names[Min(up)]
<1> SUFFICES ASSUME DlsymNext(s) = Null
             PROVE  Good(s)
  OBVIOUS
<1>1. h # Null /\ DlsymIn(h, s) # Null /\ \A t \in Threads : thread[t].at # "probe"
  BY DEF Within
<1>2. g \in Groups /\ CachesOK
  BY GroupIsGroup DEF IInv, Shared
<1>3. DOMAIN names \subseteq Nat
  BY <1>2, SonamesCounted
<1>4. \E k \in DOMAIN names : names[k] \in loaded /\ names[k] = h
  <2>1. CASE cache[g] # Null
    BY <1>2, <2>1 DEF CachesOK, Range
  <2>2. CASE cache[g] = Null
    <3>1. up # {} /\ h = names[Min(up)]
      BY <1>1, <2>2
    <3>2. Min(up) \in up
      <4>1. up \subseteq Nat
        BY <1>3
      <4> HIDE DEF up
      <4>2. \E m \in up : \A n \in up : m <= n
        BY <3>1, <4>1, NatMin
      <4>3. QED
        BY <4>2 DEF Min
    <3>3. QED
      BY <3>1, <3>2
  <2>3. QED
    BY <2>1, <2>2
<1>5. cache[g] # Null => h = cache[g]
  OBVIOUS
<1> HIDE DEF h
<1>6. QED
  BY <1>1, <1>4, <1>5 DEF Good
\* Layers, for the libraries that are there.
LEMMA LayeredHere ==
  ASSUME Layered, loaded \subseteq Loadable, NEW s \in Symbols,
         NEW i \in DOMAIN Sonames(Group(s)), NEW j \in DOMAIN Sonames(Group(s)),
         i <= j, Sonames(Group(s))[i] \in loaded, Sonames(Group(s))[j] \in loaded,
         DlsymIn(Sonames(Group(s))[j], s) # Null
  PROVE  DlsymIn(Sonames(Group(s))[i], s) # Null
<1>1. i \in Nat /\ j \in Nat
  BY SonamesCounted, GroupIsGroup
<1>2. CASE i = j
  BY <1>2
<1>3. CASE i < j
  BY <1>3 DEF Layered
<1>4. QED
  BY <1>1, <1>2, <1>3

\* A good library stays good: whoever probes finds it, or one on top of it.
LEMMA GoodStays ==
  ASSUME Layered, SureInv, IInv', NEW s \in Symbols, Good(s),
         NEW t \in Threads, LoadedHandle(t) \/ TryNext(t) \/ TryHandle(t) \/ Check(t)
  PROVE  Good(s)'
<1> DEFINE r == thread[t]
           g == Group(s)
           names == Sonames(g)
<1>1. PICK k \in DOMAIN names :
        /\ names[k] \in loaded /\ DlsymIn(names[k], s) # Null
        /\ \A u \in Threads :
             thread[u].at = "probe" /\ Group(thread[u].sym) = g => thread[u].k <= k
  BY DEF Good
<1>2. /\ cache[g] # Null => DlsymIn(cache[g], s) # Null
      /\ g \in Groups /\ CachesOK
      /\ DOMAIN names = 1 .. Len(names) /\ Len(names) \in Nat
      /\ loaded' = loaded /\ IsThread(r) /\ LookOK(r, loaded) /\ thread = [u \in Threads |-> thread[u]]
  <2>1. cache[g] # Null => DlsymIn(cache[g], s) # Null
    BY DEF Good
  <2>2. g \in Groups
    BY GroupIsGroup
  <2>3. loaded' = loaded
    BY DEF LoadedHandle, TryNext, TryHandle, Check, Same, Others
  <2>4. QED
    BY <2>1, <2>2, <2>3, SonamesCounted, ThreadSound DEF SureInv, IInv, Shared, ThreadsOK
<1> HIDE DEF names, g
<1>3. ASSUME cache' = cache, thread'[t].at # "probe",
             \A u \in Threads : u # t => thread'[u] = thread[u]
      PROVE  Good(s)'
  <2>1. \A u \in Threads : thread'[u].at = "probe" /\ Group(thread'[u].sym) = g => thread'[u].k <= k
    BY <1>1, <1>3
  <2>2. QED
    BY <1>1, <1>2, <1>3, <2>1 DEF Good, names, g
<1>4. CASE Check(t) \/ TryNext(t) \/ TryHandle(t)
  <2>1. PICK a \in {"act", "next", "handle"} :
          \/ \E f : Becomes(t, [r EXCEPT !.reg = f, !.at = a])
          \/ Becomes(t, [r EXCEPT !.at = a])
    BY <1>4 DEF Check, TryNext, TryHandle
  <2>2. thread'[t].at = a
    BY <1>2, <2>1 DEF Becomes, IsThread, Keys
  <2>3. \A u \in Threads : u # t => thread'[u] = thread[u]
    BY <1>2, <2>1 DEF Becomes
  <2>4. cache' = cache
    BY <1>4 DEF Check, TryNext, TryHandle, Same
  <2>5. QED
    BY <1>3, <2>2, <2>3, <2>4
<1>5. CASE LoadedHandle(t) /\ r.at = "handle"
  <2> DEFINE G == Group(r.sym)
  <2>1. /\ Becomes(t, IF cache[G] # Null THEN [r EXCEPT !.reg = cache[G], !.at = "sym"]
                      ELSE [r EXCEPT !.k = 1, !.at = "probe"])
        /\ cache' = cache
    BY <1>5 DEF LoadedHandle
  <2>2. thread'[t].at = "sym" \/ (thread'[t].at = "probe" /\ thread'[t].k = 1)
    BY <1>2, <2>1 DEF Becomes, IsThread, Keys
  <2>3. \A u \in Threads : u # t => thread'[u] = thread[u]
    BY <1>2, <2>1 DEF Becomes
  <2>4. \A u \in Threads : thread'[u].at = "probe" /\ Group(thread'[u].sym) = g => thread'[u].k <= k
    BY <1>1, <1>2, <2>2, <2>3
  <2>5. QED
    BY <1>1, <1>2, <2>1, <2>4 DEF Good, names, g
<1>6. CASE LoadedHandle(t) /\ r.at = "probe"
  <2> DEFINE G == Group(r.sym)
             lib == Sonames(G)[r.k]
  <2>1. /\ cache' = [cache EXCEPT ![G] = Probe(lib)]
        /\ \/ Probe(lib) # Null /\ Becomes(t, [r EXCEPT !.reg = lib, !.at = "sym"])
           \/ Probe(lib) = Null /\ Becomes(t, [r EXCEPT !.k = @ + 1])
           \/ Probe(lib) = Null /\ Becomes(t, [r EXCEPT !.reg = slot[r.sym], !.at = "act"])
    BY <1>6 DEF LoadedHandle
  <2>2. \/ thread'[t].at \in {"sym", "act"}
        \/ Probe(lib) = Null /\ thread'[t].at = "probe" /\ thread'[t].k = r.k + 1 /\ thread'[t].sym = r.sym
    <3> HIDE DEF lib
    <3>1. ASSUME NEW rec, Becomes(t, rec) PROVE thread'[t] = rec
      BY <1>2, <3>1, Zenon DEF Becomes
    <3>2. /\ [r EXCEPT !.reg = lib, !.at = "sym"].at = "sym"
          /\ [r EXCEPT !.reg = slot[r.sym], !.at = "act"].at = "act"
      BY <1>2 DEF IsThread, Keys
    <3>3. /\ [r EXCEPT !.k = @ + 1].at = "probe"
          /\ [r EXCEPT !.k = @ + 1].k = r.k + 1
          /\ [r EXCEPT !.k = @ + 1].sym = r.sym
      BY <1>2, <1>6 DEF IsThread, Keys
    <3>4. QED
      BY <2>1, <3>1, <3>2, <3>3
  <2>3. \A u \in Threads : u # t => thread'[u] = thread[u]
    BY <1>2, <2>1 DEF Becomes
  <2>4. r.k \in DOMAIN Sonames(G)
    BY <1>2, <1>6 DEF LookOK
  <2>5. (Probe(lib) # Null <=> lib \in loaded) /\ (Probe(lib) # Null => Probe(lib) = lib)
    BY DEF Probe, SureInv, IInv, Shared, LibrariesOK
  <2> HIDE DEF lib
  <2>6. ASSUME G = g
        PROVE  /\ r.k <= k /\ r.k \in Nat
               /\ Probe(lib) = Null => r.k + 1 <= k
               /\ Probe(lib) # Null => DlsymIn(lib, s) # Null
    <3>1. r.k <= k /\ r.k \in DOMAIN names
      BY <1>1, <1>6, <2>4, <2>6 DEF names
    <3>2. lib = names[r.k]
      BY <2>6 DEF lib, names
    <3>3. Probe(lib) = Null => r.k # k
      BY <1>1, <2>5, <3>2
    <3>4. Probe(lib) # Null => DlsymIn(lib, s) # Null
      BY <1>1, <2>5, <3>1, <3>2, LayeredHere DEF names, g, SureInv
    <3>5. QED
      BY <1>2, <3>1, <3>3, <3>4
  <2>7. \A u \in Threads : thread'[u].at = "probe" /\ Group(thread'[u].sym) = g => thread'[u].k <= k
    BY <1>1, <2>2, <2>3, <2>6
  <2>8. cache'[g] # Null => DlsymIn(cache'[g], s) # Null
    BY <1>2, <2>1, <2>5, <2>6 DEF CachesOK
  <2>9. QED
    BY <1>1, <1>2, <2>7, <2>8 DEF Good, names, g
<1>7. QED
  BY <1>4, <1>5, <1>6 DEF LoadedHandle
\* The same for the steps that take no handle.
LEMMA GoodKept ==
  ASSUME SureInv, NEW s \in Symbols, Good(s), loaded \subseteq loaded', cache' = cache,
         \A u \in Threads : thread'[u].at = "probe" => thread'[u] = thread[u]
  PROVE  Good(s)'
BY DEF Good

\* What dlsym of RTLD_NEXT found it finds again.
LEMMA NextGrows ==
  ASSUME IInv, IInv', NEW s, global \subseteq global', DlsymNext(s) # Null
  PROVE  DlsymNext(s)' # Null
BY Found DEF DlsymNext, IInv, Shared, LibrariesOK

\* What others do leaves a look-up on its way.
LEMMA OtherSure ==
  ASSUME IInv, IInv', NEW u \in Threads, SureOK(thread[u]), thread'[u] = thread[u],
         global \subseteq global',
         \A s \in Symbols : Good(s) => Good(s)'
  PROVE  SureOK(thread[u])'
<1> DEFINE r == thread[u]
<1>1. r.at \in {"check", "next", "handle", "probe"} => r.sym \in Symbols
  BY InLookup DEF Holding, Looking
<1>2. DlsymNext(r.sym) # Null => DlsymNext(r.sym)' # Null
  BY NextGrows
<1>3. r' = r /\ DlsymIn(r.reg, r.sym)' = DlsymIn(r.reg, r.sym)
  OBVIOUS
<1> HIDE DEF r
<1>4. SureOK(r)'
  BY <1>1, <1>2, <1>3 DEF SureOK, r
<1>5. QED
  BY <1>4 DEF r

\* Who looks something up looks up one of the wrapped functions.
LEMMA SureSymbols ==
  ASSUME IInv', NEW t \in Threads, Holding(thread'[t])
  PROVE  thread'[t].sym \in Symbols
BY TargetsAreSymbols DEF IInv, ThreadsOK, Sound, Named

\* Steps outside of a look-up keep the promise to those inside.
LEMMA WrapperSure ==
  ASSUME SureInv, IInv', NEW t \in Threads, NEW q, Becomes(t, q), Landed(q),
         UNCHANGED <<cache, loaded, global>>
  PROVE  SureInv'
<1>1. /\ thread'[t] = q
      /\ \A u \in Threads : u # t => thread'[u] = thread[u]
  BY DEF Becomes, SureInv, IInv, ThreadsOK
<1>2. q.at # "probe"
  BY DEF Landed
<1>3. \A s \in Symbols : Good(s) => Good(s)'
  BY <1>1, <1>2, GoodKept
<1>4. ASSUME NEW u \in Threads, u # t PROVE SureOK(thread[u])'
  BY <1>1, <1>3, <1>4, OtherSure DEF SureInv
<1>5. SureOK(thread[t])'
  <2>1. CASE q.at = "check" /\ q.sure
    <3>1. q.sym \in Symbols
      BY <1>1, <2>1, SureSymbols DEF Holding, Looking
    <3>2. DlsymNext(q.sym) # Null \/ Good(q.sym)
      BY <2>1, <3>1, WithinGood DEF Landed, SureInv
    <3>3. DlsymNext(q.sym)' # Null \/ Good(q.sym)'
      BY <1>3, <3>1, <3>2, NextGrows DEF SureInv
    <3>4. QED
      BY <1>1, <2>1, <3>3 DEF SureOK
  <2>2. CASE ~(q.at = "check" /\ q.sure)
    BY <1>1, <2>2 DEF SureOK, Landed
  <2>3. QED
    BY <2>1, <2>2
<1>6. QED
  BY <1>4, <1>5 DEF SureInv

\* A library that is loaded takes no function away.
LEMMA DlopenSure ==
  ASSUME SureInv, IInv', NEW lib \in Libraries, NEW visible \in BOOLEAN, Dlopen(lib, visible)
  PROVE  SureInv'
<1>1. /\ loaded' = loaded \cup Needs(lib) /\ global \subseteq global'
      /\ thread' = thread /\ cache' = cache
  BY DEF Dlopen
<1>2. \A s \in Symbols : Good(s) => Good(s)'
  BY <1>1, GoodKept
<1>3. \A u \in Threads : SureOK(thread[u])'
  BY <1>1, <1>2, OtherSure DEF SureInv
<1>4. loaded' \subseteq Loadable
  BY <1>1 DEF SureInv, Loadable
<1>5. QED
  BY <1>3, <1>4 DEF SureInv

\* real_sym_with, for the thread that is in it.
LEMMA LookupSure ==
  ASSUME Layered, SureInv, IInv', NEW t \in Threads,
         Check(t) \/ TryNext(t) \/ LoadedHandle(t) \/ TryHandle(t),
         \A s \in Symbols : Good(s) => Good(s)'
  PROVE  SureOK(thread[t])'
<1> DEFINE r == thread[t]
           s == r.sym
           g == Group(s)
           names == Sonames(g)
<1>1. /\ IsThread(r) /\ SureOK(r) /\ s \in Symbols /\ LookOK(r, loaded) /\ g \in Groups
      /\ LibrariesOK /\ CachesOK /\ DOMAIN thread = Threads
  BY InLookup
     DEF Check, TryNext, LoadedHandle, TryHandle, Holding, Looking, SureInv, IInv, ThreadsOK
<1>2. global' = global
  BY DEF Check, TryNext, LoadedHandle, TryHandle, Same, Others
<1>3. ASSUME NEW q, Becomes(t, q), IsThread(q), q.sym = s, q.sure = r.sure,
             r.sure => \/ q.at = "next" /\ (DlsymNext(s) # Null \/ Good(s))
                       \/ q.at \in {"handle", "probe"} /\ Good(s)
                       \/ q.at = "sym" /\ DlsymIn(q.reg, s) # Null
                       \/ q.at = "act" /\ q.reg # Null
      PROVE  SureOK(thread[t])'
  <2>1. thread'[t] = q
    BY <1>1, <1>3 DEF Becomes
  <2>2. PICK x \in Symbols : x = s
    BY <1>1
  <2>3. Good(x) => Good(x)'
    OBVIOUS
  <2>4. DlsymNext(x) # Null => DlsymNext(x)' # Null
    BY <1>2, NextGrows DEF SureInv
  <2>5. q.sym = x /\ (r.sure <=> q.sure)
    BY <1>3, <2>2
  <2>6. r.sure => \/ q.at = "next" /\ (DlsymNext(x) # Null \/ Good(x))
                  \/ q.at \in {"handle", "probe"} /\ Good(x)
                  \/ q.at = "sym" /\ DlsymIn(q.reg, x) # Null
                  \/ q.at = "act" /\ q.reg # Null
    BY <1>3, <2>2
  <2> HIDE DEF r, s
  <2>7. QED
    BY <2>1, <2>3, <2>4, <2>5, <2>6 DEF SureOK
<1> HIDE DEF names
<1>4. CASE Check(t)
  <2> DEFINE f == slot[s]
             hit == [r EXCEPT !.reg = f, !.at = "act"]
             miss == [r EXCEPT !.at = "next"]
  <2>1. r.at = "check" /\ Becomes(t, IF f # Null THEN hit ELSE miss)
    BY <1>4 DEF Check
  <2> HIDE DEF f
  <2>2. /\ IsThread(hit) /\ hit.sym = s /\ hit.sure = r.sure /\ hit.at = "act" /\ hit.reg = f
        /\ IsThread(miss) /\ miss.sym = s /\ miss.sure = r.sure /\ miss.at = "next"
    BY <1>1 DEF IsThread, Keys
  <2>3. r.sure => DlsymNext(s) # Null \/ Good(s)
    BY <1>1, <2>1 DEF SureOK
  <2> HIDE DEF hit, miss
  <2>4. QED
    BY <1>3, <2>1, <2>2, <2>3
<1>5. CASE TryNext(t)
  <2> DEFINE f == DlsymNext(s)
             a == IF f # Null THEN "act" ELSE "handle"
             q == [r EXCEPT !.reg = f, !.at = a]
  <2>1. r.at = "next" /\ Becomes(t, q)
    BY <1>5 DEF TryNext
  <2>2. r.sure => f # Null \/ Good(s)
    BY <1>1, <2>1 DEF SureOK
  <2>3. f # Null <=> DlsymNext(s) # Null
    OBVIOUS
  <2> HIDE DEF f
  <2>4. IsThread(q) /\ q.sym = s /\ q.sure = r.sure /\ q.at = a /\ q.reg = f
    BY <1>1 DEF IsThread, Keys
  <2> HIDE DEF q
  <2>5. QED
    BY <1>3, <2>1, <2>2, <2>4
<1>6. CASE LoadedHandle(t) /\ r.at = "handle"
  <2> DEFINE c == cache[g]
             hit == [r EXCEPT !.reg = c, !.at = "sym"]
             miss == [r EXCEPT !.k = 1, !.at = "probe"]
  <2>1. Becomes(t, IF c # Null THEN hit ELSE miss)
    BY <1>6 DEF LoadedHandle
  <2>2. r.sure => Good(s)
    BY <1>1, <1>6 DEF SureOK
  <2>3. Good(s) /\ c # Null => DlsymIn(c, s) # Null
    BY DEF Good
  <2> HIDE DEF c
  <2>4. /\ IsThread(hit) /\ hit.sym = s /\ hit.sure = r.sure /\ hit.at = "sym" /\ hit.reg = c
        /\ IsThread(miss) /\ miss.sym = s /\ miss.sure = r.sure /\ miss.at = "probe"
    BY <1>1 DEF IsThread, Keys
  <2> HIDE DEF hit, miss
  <2>5. QED
    BY <1>3, <2>1, <2>2, <2>3, <2>4
<1>7. CASE LoadedHandle(t) /\ r.at = "probe"
  <2> DEFINE lib == names[r.k]
             f == slot[s]
             hit == [r EXCEPT !.reg = lib, !.at = "sym"]
             miss == [r EXCEPT !.k = @ + 1]
             none == [r EXCEPT !.reg = f, !.at = "act"]
  <2>1. Becomes(t, IF Probe(lib) # Null THEN hit ELSE IF r.k < Len(names) THEN miss ELSE none)
    BY <1>7 DEF LoadedHandle, names
  <2>2. r.sure => Good(s)
    BY <1>1, <1>7 DEF SureOK
  <2>3. /\ r.k \in DOMAIN names /\ DOMAIN names = 1 .. Len(names) /\ Len(names) \in Nat
        /\ Probe(lib) # Null <=> lib \in loaded
    BY <1>1, <1>7, SonamesCounted DEF LookOK, Probe, LibrariesOK, names
  <2>4. ASSUME Good(s)
        PROVE  /\ Probe(lib) # Null => DlsymIn(lib, s) # Null
               /\ Probe(lib) = Null => r.k < Len(names)
    <3>1. PICK k \in DOMAIN names : names[k] \in loaded /\ DlsymIn(names[k], s) # Null /\ r.k <= k
      BY <1>7, <2>4 DEF Good, names
    <3>2. Probe(lib) # Null => DlsymIn(lib, s) # Null
      BY <1>1, <2>3, <3>1, LayeredHere DEF names, SureInv
    <3>3. Probe(lib) = Null => r.k # k
      BY <2>3, <3>1
    <3>4. QED
      BY <2>3, <3>1, <3>2, <3>3
  <2> HIDE DEF lib, f
  <2>5. /\ IsThread(hit) /\ hit.sym = s /\ hit.sure = r.sure /\ hit.at = "sym" /\ hit.reg = lib
        /\ IsThread(miss) /\ miss.sym = s /\ miss.sure = r.sure /\ miss.at = "probe"
        /\ IsThread(none) /\ none.sym = s /\ none.sure = r.sure
    BY <1>1, <1>7 DEF IsThread, Keys
  <2> HIDE DEF hit, miss, none
  <2>6. QED
    BY <1>3, <2>1, <2>2, <2>4, <2>5
<1>8. CASE TryHandle(t)
  <2> DEFINE f == DlsymIn(r.reg, s)
             q == [r EXCEPT !.reg = f, !.at = "act"]
  <2>1. r.at = "sym" /\ Becomes(t, q)
    BY <1>8 DEF TryHandle
  <2>2. r.sure => f # Null
    BY <1>1, <2>1 DEF SureOK
  <2> HIDE DEF f
  <2>3. IsThread(q) /\ q.sym = s /\ q.sure = r.sure /\ q.at = "act" /\ q.reg = f
    BY <1>1 DEF IsThread, Keys
  <2> HIDE DEF q
  <2>4. QED
    BY <1>3, <2>1, <2>2, <2>3
<1>9. QED
  BY <1>4, <1>5, <1>6, <1>7, <1>8 DEF LoadedHandle
\* A step of a look-up keeps the promise to every thread.
LEMMA LookupSteps ==
  ASSUME Layered, SureInv, IInv', NEW t \in Threads,
         Check(t) \/ TryNext(t) \/ LoadedHandle(t) \/ TryHandle(t)
  PROVE  SureInv'
<1>1. \A s \in Symbols : Good(s) => Good(s)'
  BY GoodStays
<1>2. SureOK(thread[t])'
  BY <1>1, LookupSure
<1>3. /\ global' = global /\ loaded' = loaded
      /\ \A u \in Threads : u # t => thread'[u] = thread[u]
  BY DEF Check, TryNext, LoadedHandle, TryHandle, Same, Others, Becomes, SureInv, IInv, ThreadsOK
<1>4. ASSUME NEW u \in Threads, u # t PROVE SureOK(thread[u])'
  BY <1>1, <1>3, <1>4, OtherSure DEF SureInv
<1>5. QED
  BY <1>2, <1>3, <1>4 DEF SureInv

\* Every step keeps the promise of look-ups that have to succeed.
LEMMA SureStep == ASSUME Layered PROVE SureInv /\ [Next]_vars => SureInv'
<1> SUFFICES ASSUME SureInv, [Next]_vars PROVE SureInv'
  OBVIOUS
<1>1. IInv'
  BY Step DEF SureInv
<1>2. ASSUME NEW t \in Threads, Check(t) \/ TryNext(t) \/ LoadedHandle(t) \/ TryHandle(t)
      PROVE  SureInv'
  BY <1>1, <1>2, LookupSteps
<1>3. ASSUME NEW t \in Threads,
             \/ \E op \in uses[t] : Enter(t, op)
             \/ GtkInit(t) \/ TestId(t) \/ SetId(t) \/ TestSlot(t)
             \/ StorePrivate(t) \/ CallPrivate(t) \/ StoreFallback(t) \/ ClearGiError(t)
             \/ CallFallback(t) \/ NewLoader(t) \/ ForceNotSandboxed(t) \/ Return(t)
      PROVE  SureInv'
  BY <1>1, <1>3, WrapperLands, WrapperSure DEF SureInv
<1>4. CASE GtkClassFixCtor
  <2> DEFINE q == [Idle EXCEPT !.op = "ctor", !.at = "init"]
  <2>1. Becomes(Main, q) /\ UNCHANGED <<cache, loaded, global>> /\ Main \in Threads
    BY <1>4, SymbolAssumption DEF GtkClassFixCtor, Same, Others
  <2>2. Landed(q)
    BY DEF Idle, Landed
  <2> HIDE DEF q
  <2>3. QED
    BY <1>1, <2>1, <2>2, WrapperSure
<1>5. ASSUME NEW lib \in Libraries, NEW visible \in BOOLEAN, Dlopen(lib, visible)
      PROVE  SureInv'
  BY <1>1, <1>5, DlopenSure
<1>6. CASE UNCHANGED vars
  BY <1>1, <1>6 DEF vars, SureInv, SureOK, DlsymNext, Good
<1>7. QED
  BY <1>2, <1>3, <1>4, <1>5, <1>6 DEF Next

\* A call that starts when its library is loaded reaches the real function,
\* whatever other threads load and store meanwhile (real_sym_with), in an
\* application that has one generation of each library.  Without that a library
\* that is loaded during the look-up and tried first hides the function.
THEOREM AlwaysReached ==
  ASSUME Layered
  PROVE  Spec => []Reached
<1>1. Init => SureInv
  <2> SUFFICES ASSUME Init PROVE SureInv
    OBVIOUS
  <2>1. IInv
    BY Start
  <2>2. loaded \subseteq Loadable
    BY DEF Init, Loadable
  <2>3. \A t \in Threads : SureOK(thread[t])
    BY DEF Init, SureOK, Idle
  <2>4. QED
    BY <2>1, <2>2, <2>3 DEF SureInv
<1>2. SureInv /\ [Next]_vars => SureInv'
  BY SureStep
<1>3. SureInv => Reached
  BY DEF SureInv, SureOK, Reached
<1>4. QED
  BY <1>1, <1>2, <1>3, PTL DEF Spec
-----------------------------------------------------------------------------
(* The slots of require_private.                                           *)

\* What thread r counts on in require_private_or_search_path: the application
\* called the function, the slot it calls through is filled, and the fallback
\* is there before the error is cleared.
Filled(r, slots, mine) ==
    /\ r.op \in RequireWrappers => r.op \in mine
    /\ r.at = "call" => slots[r.sym] # Null
    /\ r.op \in RequireWrappers /\ Holding(r) /\ r.sym = ClearError => slots[Fallback(r.op)] # Null

\* Each of the two functions is called by one thread at most.
Apart == \A t, u \in Threads : t # u => uses[t] \cap uses[u] \cap RequireWrappers = {}

FilledInv == IInv /\ Apart /\ \A t \in Threads : Filled(thread[t], slot, uses[t])

\* No call goes through an empty slot.
CallsFilled == \A t \in Threads : thread[t].at = "call" => slot[thread[t].sym] # Null

\* The slots of a require function are looked up by that function alone.
LEMMA OwnSlots ==
  ASSUME NEW op \in RequireWrappers, NEW x \in {op, Fallback(op)},
         NEW o \in Wrappers \cup {"none", "ctor"}, x \in Targets(o)
  PROVE  o = op
<1>1. /\ op \notin SetIdWrappers \cup GetIdWrappers \cup LoaderWrappers
      /\ Fallback(op) \notin SetIdWrappers \cup GetIdWrappers \cup LoaderWrappers \cup RequireWrappers
      /\ op # "g_set_prgname" /\ Fallback(op) # "g_set_prgname"
      /\ op # ClearError /\ op # Selector
      /\ Fallback(op) # op /\ Fallback(op) # ClearError /\ Fallback(op) # Selector
  BY DEF RequireWrappers, SetIdWrappers, GetIdWrappers, LoaderWrappers, Fallback, ClearError, Selector
<1>2. ASSUME NEW p \in RequireWrappers, Fallback(p) = Fallback(op) PROVE p = op
  BY <1>2 DEF RequireWrappers, Fallback
<1>3. CASE o \in RequireWrappers
  <2>1. Targets(o) = {o, Fallback(o), ClearError}
    BY <1>3, Kinds DEF Targets
  <2>2. Fallback(o) \notin RequireWrappers
    BY <1>3 DEF RequireWrappers, Fallback
  <2>3. QED
    BY <1>1, <1>2, <1>3, <2>1, <2>2
<1>4. CASE o \notin RequireWrappers
  <2>1. x \notin Targets(o)
    BY <1>1, <1>4 DEF Targets
  <2>2. QED
    BY <2>1
<1>5. QED
  BY <1>3, <1>4

\* A thread that neither calls nor clears an error counts on nothing.
LEMMA CountsOnNothing ==
  ASSUME NEW q, NEW slots, NEW mine, q.op \in RequireWrappers => q.op \in mine,
         q.at # "call", q.op \in RequireWrappers /\ Holding(q) => q.sym # ClearError
  PROVE  Filled(q, slots, mine)
BY DEF Filled

\* The steps of one thread.
StepOf(t) ==
    \/ \E op \in uses[t] : Enter(t, op)
    \/ GtkInit(t) \/ TestId(t)
    \/ Check(t) \/ TryNext(t) \/ LoadedHandle(t) \/ TryHandle(t)
    \/ SetId(t)
    \/ TestSlot(t) \/ StorePrivate(t) \/ CallPrivate(t) \/ StoreFallback(t) \/ ClearGiError(t)
    \/ CallFallback(t)
    \/ NewLoader(t) \/ ForceNotSandboxed(t)
    \/ Return(t)

\* A thread writes no slot but the one it is looking up.
LEMMA WritesOwnSlot ==
  ASSUME IInv, NEW t \in Threads, StepOf(t)
  PROVE  /\ uses' = uses /\ \A u \in Threads : u # t => thread'[u] = thread[u]
         /\ \A s \in Symbols : slot'[s] = slot[s] \/ (Holding(thread[t]) /\ s = thread[t].sym)
<1>1. thread = [u \in Threads |-> thread[u]] /\ slot = [s \in Symbols |-> slot[s]]
  BY DEF IInv, Shared, SlotsOK, ThreadsOK
<1>2. \E q : Becomes(t, q)
  BY DEF StepOf, Enter, GtkInit, TestId, Check, TryNext, LoadedHandle, TryHandle, SetId,
         TestSlot, StorePrivate, CallPrivate, StoreFallback, ClearGiError, CallFallback, NewLoader,
         ForceNotSandboxed, Return
<1>3. \A u \in Threads : u # t => thread'[u] = thread[u]
  BY <1>1, <1>2 DEF Becomes
<1>4. uses' = uses
  BY DEF StepOf, Enter, GtkInit, TestId, Check, TryNext, LoadedHandle, TryHandle, SetId,
         TestSlot, StorePrivate, CallPrivate, StoreFallback, ClearGiError, CallFallback, NewLoader,
         ForceNotSandboxed, Return, Same, Others
<1>5. \/ slot' = slot
      \/ Holding(thread[t]) /\ \E f : slot' = [slot EXCEPT ![thread[t].sym] = f]
  BY DEF StepOf, Enter, GtkInit, TestId, Check, TryNext, LoadedHandle, TryHandle, SetId,
         TestSlot, StorePrivate, CallPrivate, StoreFallback, ClearGiError, CallFallback, NewLoader,
         ForceNotSandboxed, Return, Act, Holding, Looking
<1>6. QED
  BY <1>1, <1>3, <1>4, <1>5

\* What another thread counts on stays.
LEMMA OthersStayFilled ==
  ASSUME FilledInv, NEW t \in Threads, NEW u \in Threads, u # t, StepOf(t)
  PROVE  Filled(thread[u], slot, uses[u])'
<1> DEFINE r == thread[u]
<1>1. /\ thread'[u] = r /\ uses' = uses
      /\ \A s \in Symbols : slot'[s] = slot[s] \/ (Holding(thread[t]) /\ s = thread[t].sym)
  BY WritesOwnSlot DEF FilledInv
<1>2. Named(r) /\ Named(thread[t]) /\ Filled(r, slot, uses[u]) /\ Filled(thread[t], slot, uses[t])
  BY ThreadSound DEF FilledInv
<1>3. ASSUME r.op \in RequireWrappers, NEW x \in {r.op, Fallback(r.op)}
      PROVE  slot'[x] = slot[x]
  <2>1. x \in Symbols
    BY <1>3 DEF Symbols, GirSymbols, RequireWrappers, Fallback
  <2>2. ASSUME Holding(thread[t]), x = thread[t].sym PROVE FALSE
    <3>1. x \in Targets(thread[t].op) /\ thread[t].op \in Wrappers \cup {"none", "ctor"}
      BY <1>2, <2>2 DEF Named
    <3>2. thread[t].op = r.op
      BY <1>3, <3>1, OwnSlots
    <3>3. r.op \in uses[t] /\ r.op \in uses[u]
      BY <1>2, <1>3, <3>2 DEF Filled
    <3>4. QED
      BY <1>3, <3>3 DEF FilledInv, Apart
  <2>3. QED
    BY <1>1, <2>1, <2>2
<1>4. r.at = "call" => r.op \in RequireWrappers /\ r.sym \in {r.op, Fallback(r.op)}
  BY <1>2 DEF Named
<1> HIDE DEF r
<1>5. Filled(r, slot', uses[u])
  BY <1>2, <1>3, <1>4 DEF Filled
<1>6. Filled(thread'[u], slot', uses'[u])
  BY <1>1, <1>5
<1>7. QED
  BY <1>6 DEF Filled, Holding, Looking

\* A step of a look-up leaves what its thread counts on.
LEMMA LookupFilled ==
  ASSUME FilledInv, NEW t \in Threads, Check(t) \/ TryNext(t) \/ LoadedHandle(t) \/ TryHandle(t)
  PROVE  Filled(thread'[t], slot', uses[t])
<1> DEFINE r == thread[t]
<1>1. /\ IsThread(r) /\ Named(r) /\ Looking(r) /\ Filled(r, slot, uses[t])
      /\ thread = [u \in Threads |-> thread[u]]
  BY ThreadSound DEF FilledInv, IInv, ThreadsOK, Check, TryNext, LoadedHandle, TryHandle, Looking
<1>2. \E a \in {"act", "next", "handle", "probe", "sym"} :
        \/ Becomes(t, [r EXCEPT !.at = a])
        \/ \E f : Becomes(t, [r EXCEPT !.reg = f, !.at = a])
        \/ \E k : Becomes(t, [r EXCEPT !.k = k, !.at = a])
        \/ \E k : r.at = "probe" /\ Becomes(t, [r EXCEPT !.k = k])
  BY DEF Check, TryNext, LoadedHandle, TryHandle
<1> HIDE DEF r
<1>3. PICK q : Becomes(t, q) /\ q.op = r.op /\ q.sym = r.sym /\ q.at # "call"
  <2> DEFINE Goes(q) == q.op = r.op /\ q.sym = r.sym /\ q.at # "call"
  <2>1. ASSUME NEW a \in {"act", "next", "handle", "probe", "sym"}
        PROVE  /\ Goes([r EXCEPT !.at = a])
               /\ \A f : Goes([r EXCEPT !.reg = f, !.at = a])
               /\ \A k : Goes([r EXCEPT !.k = k, !.at = a])
    <3>1. Goes([r EXCEPT !.at = a])
      BY <1>1, <2>1 DEF IsThread, Keys
    <3>2. \A f : Goes([r EXCEPT !.reg = f, !.at = a])
      BY <1>1, <2>1 DEF IsThread, Keys
    <3>3. \A k : Goes([r EXCEPT !.k = k, !.at = a])
      BY <1>1, <2>1 DEF IsThread, Keys
    <3>4. QED
      BY <3>1, <3>2, <3>3
  <2>2. \A k : r.at = "probe" => Goes([r EXCEPT !.k = k])
    BY <1>1 DEF IsThread, Keys
  <2>3. \E q : Becomes(t, q) /\ Goes(q)
    <3> HIDE DEF Goes
    <3>1. QED
      BY <1>2, <2>1, <2>2
  <2>4. QED
    BY <2>3
<1>4. thread'[t] = q
  BY <1>1, <1>3, Zenon DEF Becomes
<1>5. CASE r.op \in RequireWrappers /\ r.sym = ClearError
  <2>1. slot[Fallback(r.op)] # Null
    BY <1>1, <1>5 DEF Filled, Holding
  <2>2. Fallback(r.op) # ClearError /\ Fallback(r.op) \in Symbols
    BY <1>5, Kinds DEF Symbols, GirSymbols, RequireWrappers, Fallback
  <2>3. slot'[Fallback(r.op)] = slot[Fallback(r.op)]
    BY <1>5, <2>2, WritesOwnSlot DEF StepOf, FilledInv, r
  <2>4. QED
    BY <1>1, <1>3, <1>4, <2>1, <2>3 DEF Filled
<1>6. CASE ~(r.op \in RequireWrappers /\ r.sym = ClearError)
  BY <1>1, <1>3, <1>4, <1>6 DEF Filled
<1>7. QED
  BY <1>5, <1>6

\* A step of require_private leaves what its thread counts on: the slot that was
\* stored is the one of the call, and the fallback that was found stays.
LEMMA RequireFilled ==
  ASSUME FilledInv, NEW t \in Threads,
         \/ TestSlot(t) \/ StorePrivate(t) \/ CallPrivate(t)
         \/ StoreFallback(t) \/ ClearGiError(t) \/ CallFallback(t)
  PROVE  Filled(thread'[t], slot', uses[t])
<1> DEFINE r == thread[t]
           x == Fallback(r.op)
<1>1. /\ IsThread(r) /\ Named(r) /\ Filled(r, slot, uses[t])
      /\ thread = [u \in Threads |-> thread[u]] /\ slot = [s \in Symbols |-> slot[s]]
  BY ThreadSound DEF FilledInv, IInv, ThreadsOK, Shared, SlotsOK
<1>2. r.op \in RequireWrappers
  BY <1>1 DEF Named, TestSlot, Stored, StorePrivate, CallPrivate, StoreFallback, ClearGiError,
              CallFallback, Act
<1>3. /\ r.op \in uses[t] /\ r.op \in Symbols /\ x \in Symbols
      /\ r.op # ClearError /\ x # ClearError /\ x # r.op
  BY <1>1, <1>2, Kinds DEF Filled, Symbols, GirSymbols, RequireWrappers, Fallback, Wrappers, Everywhere
<1>4. ASSUME NEW q, Becomes(t, q), Filled(q, slot', uses[t])
      PROVE  Filled(thread'[t], slot', uses[t])
  <2>1. thread'[t] = q
    BY <1>1, <1>4, Zenon DEF Becomes
  <2>2. QED
    BY <1>4, <2>1
<1> HIDE DEF r
<1>5. ASSUME NEW p, IsThread(p), p.op = r.op, NEW v PROVE Filled(Finish(p, v), slot', uses[t])
  BY <1>3, <1>5, FinishFields, CountsOnNothing DEF Holding, Looking
<1>6. CASE StorePrivate(t)
  <2> DEFINE q == [r EXCEPT !.at = "call"]
  <2>1. /\ slot' = [slot EXCEPT ![r.op] = r.reg] /\ r.sym = r.op
        /\ IF r.reg = Null THEN Becomes(t, Finish(r, Null)) ELSE Becomes(t, q)
    BY <1>6 DEF StorePrivate, r
  <2>2. q.at = "call" /\ q.op = r.op /\ q.sym = r.sym
    BY <1>1, AtFields
  <2> HIDE DEF q
  <2>3. r.reg # Null => Filled(q, slot', uses[t])
    BY <1>1, <1>3, <2>1, <2>2 DEF Filled, Holding, Looking
  <2>4. QED
    BY <1>1, <1>4, <1>5, <2>1, <2>3
<1>7. CASE CallPrivate(t)
  <2> DEFINE p == [r EXCEPT !.err = "private"]
  <2>1. (\E v : Becomes(t, Finish(r, v))) \/ Becomes(t, Resolve(p, x))
    BY <1>7 DEF CallPrivate, r
  <2>2. IsThread(p) /\ p.op = r.op
    BY <1>1 DEF IsThread, Keys
  <2> HIDE DEF p, x
  <2>3. Filled(Resolve(p, x), slot', uses[t])
    BY <1>3, <2>2, ResolveFields, CountsOnNothing
  <2>4. QED
    BY <1>1, <1>4, <1>5, <2>1, <2>3
<1>8. CASE StoreFallback(t)
  <2>1. /\ slot' = [slot EXCEPT ![x] = r.reg]
        /\ IF r.reg = Null THEN Becomes(t, Finish(r, Null)) ELSE Becomes(t, Resolve(r, ClearError))
    BY <1>8 DEF StoreFallback, r
  <2>2. r.reg # Null => slot'[x] # Null
    BY <1>1, <1>3, <2>1
  <2>3. r.reg # Null => Filled(Resolve(r, ClearError), slot', uses[t])
    BY <1>1, <1>3, <2>2, ResolveFields DEF Filled
  <2>4. QED
    BY <1>1, <1>4, <1>5, <2>1, <2>3
<1>9. CASE ClearGiError(t)
  <2> DEFINE q == [r EXCEPT !.err = IF r.reg = Null THEN @ ELSE "none", !.sym = x, !.at = "call"]
  <2>1. Becomes(t, q) /\ slot' = slot /\ Holding(r) /\ r.sym = ClearError
    BY <1>9 DEF ClearGiError, Act, Holding, r
  <2>2. q.at = "call" /\ q.op = r.op /\ q.sym = x
    BY <1>1 DEF IsThread, Keys
  <2> HIDE DEF q
  <2>3. Filled(q, slot', uses[t])
    BY <1>1, <1>2, <1>3, <2>1, <2>2 DEF Filled, Holding, Looking
  <2>4. QED
    BY <1>4, <2>1, <2>3
<1>10. CASE CallFallback(t)
  <2> DEFINE p == [r EXCEPT !.err = IF @ = "none" THEN "fallback" ELSE @]
  <2>1. (\E v : Becomes(t, Finish(r, v))) \/ Becomes(t, Finish(p, Null))
    BY <1>10 DEF CallFallback, r
  <2>2. IsThread(p) /\ p.op = r.op
    BY <1>1 DEF IsThread, Keys
  <2> HIDE DEF p
  <2>3. QED
    BY <1>1, <1>4, <1>5, <2>1, <2>2
<1>11. CASE TestSlot(t)
  <2> DEFINE q == [r EXCEPT !.at = "call"]
  <2>1. /\ r.at = "check" /\ r.sym # ClearError /\ slot[r.sym] # Null /\ slot' = slot
        /\ Becomes(t, IF r.sym = r.op THEN q ELSE Resolve(r, ClearError))
    BY <1>11 DEF TestSlot, Stored, r
  <2>2. r.sym \in {r.op, x}
    BY <1>1, <1>2, <2>1, InRequire DEF Named, Holding, Looking, FilledInv, r
  <2>3. q.at = "call" /\ q.op = r.op /\ q.sym = r.sym
    BY <1>1, AtFields
  <2> HIDE DEF q
  <2>4. Filled(q, slot', uses[t])
    BY <1>3, <2>1, <2>3 DEF Filled, Holding, Looking
  <2>5. r.sym = x => Filled(Resolve(r, ClearError), slot', uses[t])
    BY <1>1, <1>3, <2>1, ResolveFields DEF Filled
  <2>6. QED
    BY <1>4, <2>1, <2>2, <2>4, <2>5
<1>12. QED
  BY <1>6, <1>7, <1>8, <1>9, <1>10, <1>11

\* The other wrappers call through no slot they have not just tested.
LEMMA OtherWrappersFilled ==
  ASSUME FilledInv, NEW t \in Threads,
         \/ \E op \in uses[t] : Enter(t, op)
         \/ GtkInit(t) \/ TestId(t) \/ SetId(t)
         \/ NewLoader(t) \/ ForceNotSandboxed(t) \/ Return(t)
  PROVE  Filled(thread'[t], slot', uses[t])
<1> DEFINE r == thread[t]
<1>1. /\ IsThread(r) /\ Named(r) /\ Filled(r, slot, uses[t])
      /\ thread = [u \in Threads |-> thread[u]]
      /\ uses \in [Threads -> SUBSET Wrappers]
  BY ThreadSound, SymbolAssumption DEF FilledInv, IInv, ThreadsOK, Shared
<1>2. ASSUME NEW q, Becomes(t, q), Filled(q, slot', uses[t])
      PROVE  Filled(thread'[t], slot', uses[t])
  <2>1. thread'[t] = q
    BY <1>1, <1>2, Zenon DEF Becomes
  <2>2. QED
    BY <1>2, <2>1
<1> HIDE DEF r
<1>3. ASSUME NEW p, IsThread(p), p.op \notin RequireWrappers, NEW v
      PROVE  Filled(Finish(p, v), slot', uses[t])
  BY <1>3, FinishFields, CountsOnNothing
<1>4. ASSUME NEW p, IsThread(p), p.op \notin RequireWrappers, NEW s
      PROVE  Filled(Resolve(p, s), slot', uses[t])
  BY <1>4, ResolveFields, CountsOnNothing
<1>5. ASSUME NEW op \in uses[t], Enter(t, op) PROVE Filled(thread'[t], slot', uses[t])
  <2> DEFINE p == [Idle EXCEPT !.op = op]
  <2>1. IsThread(p) /\ p.op = op /\ op \in Wrappers
    BY <1>1 DEF IsThread, Keys, Idle
  <2>2. \/ \E d \in Dirs : Becomes(t, Resolve([p EXCEPT !.id = d], op))
        \/ Becomes(t, Resolve(p, op))
        \/ op \notin RequireWrappers /\ \E i \in Ids : Becomes(t, [p EXCEPT !.id = i, !.at = "init"])
    BY <1>5 DEF Enter
  <2> HIDE DEF p
  <2>3. \A d : IsThread([p EXCEPT !.id = d]) /\ [p EXCEPT !.id = d].op = op
    BY <2>1 DEF IsThread, Keys
  <2>4. \A d : [p EXCEPT !.id = d, !.at = "init"].at = "init" /\ [p EXCEPT !.id = d, !.at = "init"].op = op
    BY <2>1 DEF IsThread, Keys
  <2>5. op # ClearError
    BY <2>1, Kinds DEF Everywhere
  <2>6. ASSUME NEW y, IsThread(y), y.op = op PROVE Filled(Resolve(y, op), slot', uses[t])
    BY <2>5, <2>6, ResolveFields, CountsOnNothing
  <2>7. \A i : Filled([p EXCEPT !.id = i, !.at = "init"], slot', uses[t])
    BY <2>4, CountsOnNothing DEF Holding, Looking
  <2>8. QED
    BY <1>2, <2>1, <2>2, <2>3, <2>6, <2>7
<1>6. CASE GtkInit(t)
  <2>1. r.op \notin RequireWrappers /\ Becomes(t, AfterInit(r))
    BY <1>1, <1>6, Kinds DEF GtkInit, Named, Wrappers, r
  <2> DEFINE q == [r EXCEPT !.at = "test"]
  <2>2. AfterInit(r) = q \/ AfterInit(r) = Resolve(r, r.op)
    BY DEF AfterInit
  <2>3. q.op = r.op /\ q.at = "test"
    BY <1>1, AtFields
  <2> HIDE DEF q
  <2>4. Filled(q, slot', uses[t])
    BY <2>1, <2>3, CountsOnNothing DEF Holding, Looking
  <2>5. Filled(AfterInit(r), slot', uses[t])
    BY <1>1, <1>4, <2>1, <2>2, <2>4
  <2>6. QED
    BY <1>2, <2>1, <2>5
<1>7. CASE TestId(t)
  <2>1. r.op \notin RequireWrappers
    BY <1>1, <1>7, Kinds DEF TestId, Named, Wrappers, r
  <2>2. \/ Becomes(t, Resolve(r, "g_set_prgname")) \/ Becomes(t, Finish(r, Null))
        \/ Becomes(t, Finish(r, overrideId)) \/ Becomes(t, Resolve(r, r.op))
    <3>1. CASE r.op = "ctor"
      BY <1>7, <3>1 DEF TestId, r
    <3>2. CASE r.op # "ctor"
      BY <1>7, <3>2 DEF TestId, r
    <3>3. QED
      BY <3>1, <3>2
  <2>3. QED
    BY <1>1, <1>2, <1>3, <1>4, <2>1, <2>2
<1>8. CASE SetId(t)
  <2>1. r.op \notin RequireWrappers /\ \E v : Becomes(t, Finish(r, v))
    BY <1>8, Kinds DEF SetId, Act, Wrappers, r
  <2>2. QED
    BY <1>1, <1>2, <1>3, <2>1
<1>9. CASE NewLoader(t)
  <2> DEFINE p == [r EXCEPT !.boxed = TRUE]
  <2>1. r.op \notin RequireWrappers /\ (Becomes(t, Finish(r, Null)) \/ Becomes(t, Resolve(p, Selector)))
    BY <1>9, Kinds DEF NewLoader, Act, r
  <2>2. IsThread(p) /\ p.op = r.op
    BY <1>1 DEF IsThread, Keys
  <2> HIDE DEF p
  <2>3. QED
    BY <1>1, <1>2, <1>3, <1>4, <2>1, <2>2
<1>10. CASE ForceNotSandboxed(t)
  <2> DEFINE p == [r EXCEPT !.boxed = r.reg = Null]
  <2>1. r.op \notin RequireWrappers /\ Becomes(t, Finish(p, "loader"))
    BY <1>10, Kinds DEF ForceNotSandboxed, Act, r
  <2>2. IsThread(p) /\ p.op = r.op
    BY <1>1 DEF IsThread, Keys
  <2> HIDE DEF p
  <2>3. QED
    BY <1>2, <1>3, <2>1, <2>2
<1>11. CASE Return(t)
  <2>1. Becomes(t, Idle) /\ Idle.op \notin RequireWrappers /\ Idle.at # "call"
    BY <1>11, IdleFields, Kinds DEF Return, Wrappers
  <2>2. QED
    BY <1>2, <2>1, CountsOnNothing
<1>12. QED
  BY <1>5, <1>6, <1>7, <1>8, <1>9, <1>10, <1>11

\* No step empties a slot that a call is about to go through.
LEMMA FilledStep == FilledInv /\ [Next]_vars => FilledInv'
<1> SUFFICES ASSUME FilledInv, [Next]_vars PROVE FilledInv'
  OBVIOUS
<1>1. IInv'
  BY Step DEF FilledInv
<1>2. ASSUME uses' = uses PROVE Apart'
  BY <1>2 DEF FilledInv, Apart
<1>3. ASSUME NEW t \in Threads, StepOf(t) PROVE FilledInv'
  <2>1. Filled(thread'[t], slot', uses[t])
    BY <1>3, LookupFilled, RequireFilled, OtherWrappersFilled DEF StepOf
  <2>2. uses' = uses
    BY <1>3, WritesOwnSlot DEF FilledInv
  <2>3. Filled(thread[t], slot, uses[t])'
    BY <2>1, <2>2 DEF Filled, Holding, Looking
  <2>4. \A u \in Threads : u # t => Filled(thread[u], slot, uses[u])'
    BY <1>3, OthersStayFilled
  <2>5. QED
    BY <1>1, <1>2, <2>2, <2>3, <2>4 DEF FilledInv
<1>4. CASE GtkClassFixCtor
  <2> DEFINE q == [Idle EXCEPT !.op = "ctor", !.at = "init"]
  <2>1. Becomes(Main, q) /\ UNCHANGED <<slot, uses>> /\ thread = [u \in Threads |-> thread[u]]
    BY <1>4 DEF GtkClassFixCtor, Same, Others, FilledInv, IInv, ThreadsOK
  <2>2. q.op = "ctor" /\ q.at = "init"
    BY DEF Idle
  <2> HIDE DEF q
  <2>3. Filled(q, slot, uses[Main])
    BY <2>2, Kinds, CountsOnNothing DEF Wrappers, Holding, Looking
  <2>4. \A u \in Threads : thread'[u] = IF u = Main THEN q ELSE thread[u]
    BY <2>1 DEF Becomes
  <2>5. \A u \in Threads : Filled(thread[u], slot, uses[u])'
    BY <2>1, <2>3, <2>4 DEF FilledInv, Filled, Holding, Looking
  <2>6. QED
    BY <1>1, <1>2, <2>1, <2>5 DEF FilledInv
<1>5. CASE (\E lib \in Libraries, visible \in BOOLEAN : Dlopen(lib, visible)) \/ UNCHANGED vars
  <2>1. UNCHANGED <<slot, thread, uses>>
    BY <1>5 DEF Dlopen, vars
  <2>2. QED
    BY <1>1, <1>2, <2>1 DEF FilledInv, Filled, Holding, Looking
<1>6. QED
  BY <1>3, <1>4, <1>5 DEF Next, StepOf

\* require_private_or_search_path tests its slots and calls through them later.
\* In an application in which each of the two functions is called by one thread
\* at most, the slot is still filled then, whatever the other wrappers and the
\* other threads look up meanwhile.
THEOREM SlotsFilledAtCalls == Spec /\ Apart => []CallsFilled
<1>1. Init /\ Apart => FilledInv
  <2> SUFFICES ASSUME Init, Apart PROVE FilledInv
    OBVIOUS
  <2>1. \A t \in Threads : thread[t] = Idle
    BY DEF Init
  <2>2. \A t \in Threads : Filled(thread[t], slot, uses[t])
    BY <2>1, IdleFields, Kinds DEF Filled, Wrappers, Holding, Looking
  <2>3. QED
    BY <2>2, Start DEF FilledInv
<1>2. FilledInv /\ [Next]_vars => FilledInv'
  BY FilledStep
<1>3. FilledInv => CallsFilled
  BY DEF FilledInv, Filled, CallsFilled
<1>4. QED
  BY <1>1, <1>2, <1>3, PTL DEF Spec
=============================================================================
