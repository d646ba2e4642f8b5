------------------------------ MODULE SymbolFix ------------------------------
(***************************************************************************)
(* gtk-fix-nonsense.so and glycin-fix.so: preloaded wrappers that look the *)
(* real function up when they are called, because the libraries may be     *)
(* loaded late and out of the sight of RTLD_NEXT. Threads share the slots  *)
(* and the handles without a lock; each read or write of one is a step. A  *)
(* value that was just stored or tested is not read again before the next  *)
(* library call, as in the code that gcc and clang produce.                *)
(***************************************************************************)
EXTENDS Naturals, Sequences, FiniteSetsExt, Functions

CONSTANTS Threads,
          Main,          \* the thread that runs the constructors
          Usages,        \* which wrapped functions each thread calls, by application
          Libraries,     \* libraries the application may load
          WindowClasses, \* values of GTK_WINDOW_CLASS: "none", "empty" or an id
          Ids,           \* ids the application asks for
          Dirs,          \* private typelib directories it asks for
          Appdir         \* APPDIR is set

VARIABLES loaded,        \* libraries in the process
          global,        \* those RTLD_NEXT sees
          slot,          \* the real function of each name, by its library
          cache,         \* the library handle of each group
          overrideId, initDone,
          windowClass,   \* GTK_WINDOW_CLASS of this process
          uses,          \* the functions its threads call
          started,       \* gtk_class_fix_ctor has run
          thread         \* what each thread is doing

vars == <<loaded, global, slot, cache, overrideId, initDone, windowClass, uses, started, thread>>

-----------------------------------------------------------------------------
(* The wrapped functions, and the ones their wrappers call besides.        *)
SetIdWrappers == { "g_application_new", "gtk_application_new",
                   "g_application_set_application_id", "g_set_prgname",
                   "gdk_surface_set_app_id", "gdk_wayland_window_set_app_id",
                   "gdk_window_set_app_id" }
GetIdWrappers == {"g_application_get_application_id", "g_get_prgname"}
RequireWrappers == {"gi_repository_require_private", "g_irepository_require_private"}
LoaderWrappers == {"gly_loader_new", "gly_loader_new_for_stream", "gly_loader_new_for_bytes"}

Wrappers == SetIdWrappers \cup GetIdWrappers \cup RequireWrappers \cup LoaderWrappers

ASSUME SymbolAssumption ==
    /\ Main \in Threads
    /\ Usages \subseteq [Threads -> SUBSET Wrappers]
    /\ Appdir \in BOOLEAN
    /\ "NULL" \notin Libraries

Selector == "gly_loader_set_sandbox_selector"
ClearError == "g_clear_error"
Fallback(op) == IF op = "gi_repository_require_private" THEN "gi_repository_require"
                ELSE "g_irepository_require"

GirSymbols == RequireWrappers \cup {"gi_repository_require", "g_irepository_require"}
GlySymbols == LoaderWrappers \cup {Selector}
Symbols == SetIdWrappers \cup GetIdWrappers \cup {ClearError} \cup GirSymbols \cup GlySymbols

GlibSonames == <<"libgtk-4.so.1", "libgtk-3.so.0", "libgdk-3.so.0", "libgtk-x11-2.0.so.0",
                 "libgio-2.0.so.0", "libglib-2.0.so.0", "libgobject-2.0.so.0">>
GirSonames == <<"libgirepository-2.0.so.0", "libgirepository-1.0.so.1">>
GlySonames == <<"libglycin-2.so.0", "libglycin-1.so.0", "libglycin.so.0", "libglycin.so">>

Group(s) == IF s \in GirSymbols THEN "gir" ELSE IF s \in GlySymbols THEN "gly" ELSE "glib"
Sonames(g) ==
    CASE g = "glib" -> GlibSonames [] g = "gir" -> GirSonames [] g = "gly" -> GlySonames

(* The libraries: what each one needs, and exports.                        *)
Glib == {"libglib-2.0.so.0", "libgobject-2.0.so.0"}
Gio  == Glib \cup {"libgio-2.0.so.0"}
Needs(lib) ==
    CASE lib = "libglib-2.0.so.0" -> {lib}
      [] lib \in Gio \ {"libglib-2.0.so.0"} ->
            IF lib = "libgio-2.0.so.0" THEN Gio ELSE Glib
      [] lib = "libgtk-3.so.0" -> {lib, "libgdk-3.so.0"} \cup Gio
      [] OTHER -> {lib} \cup Gio

Exports(lib) ==
    CASE lib = "libglib-2.0.so.0" -> {"g_set_prgname", "g_get_prgname", ClearError}
      [] lib = "libgio-2.0.so.0" -> {"g_application_new", "g_application_set_application_id",
                                     "g_application_get_application_id"}
      [] lib = "libgtk-4.so.1" -> {"gtk_application_new", "gdk_surface_set_app_id"}
      [] lib = "libgtk-3.so.0" -> {"gtk_application_new"}
      [] lib = "libgdk-3.so.0" -> {"gdk_wayland_window_set_app_id", "gdk_window_set_app_id"}
      [] lib = "libgirepository-2.0.so.0" -> {"gi_repository_require_private",
                                              "gi_repository_require"}
      [] lib = "libgirepository-1.0.so.1" -> {"g_irepository_require_private",
                                              "g_irepository_require"}
      [] lib \in Range(GlySonames) -> GlySymbols
      [] OTHER -> {}

Null == "NULL"
Exporter(s, libs) ==
    IF \E lib \in libs : s \in Exports(lib) THEN CHOOSE lib \in libs : s \in Exports(lib) ELSE Null

(* dlsym(RTLD_NEXT, s), dlsym(handle, s) and dlopen(lib, RTLD_NOLOAD).     *)
DlsymNext(s) == Exporter(s, global)
DlsymIn(handle, s) == Exporter(s, Needs(handle))
Probe(lib) == IF lib \in loaded THEN lib ELSE Null

-----------------------------------------------------------------------------
Idle == [op |-> "none", at |-> "idle", sym |-> "none", id |-> "none", k |-> 0,
         reg |-> Null, sure |-> FALSE, err |-> "none", ret |-> "none", boxed |-> FALSE]

(* A look-up that must succeed: the function is in a loaded library, and   *)
(* the handle is not one that was taken before, or is being taken, for     *)
(* a library without it.                                                   *)
Within(s) ==
    LET c == cache[Group(s)]
        names == Sonames(Group(s))
        up == {k \in DOMAIN names : names[k] \in loaded}
        h == IF c # Null THEN c ELSE IF up = {} THEN Null ELSE names[Min(up)]
    IN  \/ DlsymNext(s) # Null
        \/ h # Null /\ DlsymIn(h, s) # Null /\ \A t \in Threads : thread[t].at # "probe"

Becomes(t, r) == thread' = [thread EXCEPT ![t] = r]
Resolve(r, s) == [r EXCEPT !.at = "check", !.sym = s, !.reg = Null, !.k = 0, !.sure = Within(s)]
Finish(r, ret) == [r EXCEPT !.at = "done", !.ret = ret]

Others == UNCHANGED <<loaded, global, windowClass, uses>>
Same == Others /\ UNCHANGED <<cache, overrideId, initDone, started>>

(* The application calls a wrapper; before the constructor of the preloaded *)
(* library has run only the constructors of other libraries can.           *)
Enter(t, op) ==
    /\ thread[t].at = "idle" /\ (started \/ t = Main)
    /\ LET r == [Idle EXCEPT !.op = op]
       IN  IF op \in RequireWrappers THEN \E d \in Dirs : Becomes(t, Resolve([r EXCEPT !.id = d], op))
           ELSE IF op \in LoaderWrappers THEN Becomes(t, Resolve(r, op))
           ELSE \E i \in Ids : Becomes(t, [r EXCEPT !.id = i, !.at = "init"])
    /\ Same /\ UNCHANGED slot

GtkClassFixCtor ==
    /\ thread[Main].at = "idle" /\ ~started
    /\ Becomes(Main, [Idle EXCEPT !.op = "ctor", !.at = "init"])
    /\ Same /\ UNCHANGED slot

(* gtk_init, done once: by the constructor or by a call before it, so no   *)
(* other thread is there to see it half done.                              *)
AfterInit(r) ==
    IF r.op \in GetIdWrappers \cup {"ctor"} THEN [r EXCEPT !.at = "test"] ELSE Resolve(r, r.op)
Bug_GtkInit(t) ==
    LET r == thread[t]
    IN  /\ r.at = "init"
        /\ Becomes(t, AfterInit(r))
        /\ overrideId' = IF initDone THEN overrideId ELSE windowClass
        /\ initDone' = TRUE
        /\ Others /\ UNCHANGED <<slot, cache, started>>
GtkInit(t) ==
    LET r == thread[t]
    IN  /\ r.at = "init"
        /\ Becomes(t, AfterInit(r))
        /\ overrideId' = IF initDone THEN overrideId
                         ELSE IF windowClass = "empty" THEN "none" ELSE windowClass
        /\ initDone' = TRUE
        /\ Others /\ UNCHANGED <<slot, cache, started>>

(* What only needs the id: the functions that return it, and the           *)
(* constructor, which has nothing to do without one.                       *)
TestId(t) ==
    LET r == thread[t]
    IN  /\ r.at = "test"
        /\ Becomes(t, IF r.op = "ctor"
                      THEN IF overrideId # "none" THEN Resolve(r, "g_set_prgname") ELSE Finish(r, Null)
                      ELSE IF overrideId # "none" THEN Finish(r, overrideId) ELSE Resolve(r, r.op))
        /\ Same /\ UNCHANGED slot

EffectiveId(requested) == IF overrideId # "none" THEN overrideId ELSE requested

-----------------------------------------------------------------------------
(* real_sym_with.                                                          *)

\* require_private_or_search_path tests its slots itself.
Stored(r) == r.op \in RequireWrappers /\ r.sym # ClearError /\ slot[r.sym] # Null

Check(t) ==
    LET r == thread[t]
    IN  /\ r.at = "check" /\ ~Stored(r)
        /\ Becomes(t, IF slot[r.sym] # Null THEN [r EXCEPT !.reg = slot[r.sym], !.at = "act"]
                      ELSE [r EXCEPT !.at = "next"])
        /\ Same /\ UNCHANGED slot

Bug_TryNext(t) ==
    LET r == thread[t]
        f == DlsymNext(r.sym)
    IN  /\ r.at = "next"
        /\ slot' = [slot EXCEPT ![r.sym] = f]
        /\ Becomes(t, [r EXCEPT !.reg = f, !.at = "act"])
        /\ Same
TryNext(t) ==
    LET r == thread[t]
        f == DlsymNext(r.sym)
    IN  /\ r.at = "next"
        /\ slot' = [slot EXCEPT ![r.sym] = f]
        /\ Becomes(t, [r EXCEPT !.reg = f, !.at = IF f # Null THEN "act" ELSE "handle"])
        /\ Same

(* loaded_handle and gly_handle: the cached handle, or the sonames in      *)
(* turn, each answer stored. Without any, the slot is read once more.      *)
LoadedHandle(t) ==
    LET r == thread[t]
        g == Group(r.sym)
        lib == Sonames(g)[r.k]
    IN  /\ \/ /\ r.at = "handle"
              /\ Becomes(t, IF cache[g] # Null THEN [r EXCEPT !.reg = cache[g], !.at = "sym"]
                            ELSE [r EXCEPT !.k = 1, !.at = "probe"])
              /\ UNCHANGED cache
           \/ /\ r.at = "probe"
              /\ cache' = [cache EXCEPT ![g] = Probe(lib)]
              /\ Becomes(t, IF Probe(lib) # Null THEN [r EXCEPT !.reg = lib, !.at = "sym"]
                            ELSE IF r.k < Len(Sonames(g)) THEN [r EXCEPT !.k = @ + 1]
                            ELSE [r EXCEPT !.reg = slot[r.sym], !.at = "act"])
        /\ Others /\ UNCHANGED <<slot, overrideId, initDone, started>>

TryHandle(t) ==
    LET r == thread[t]
        f == DlsymIn(r.reg, r.sym)
    IN  /\ r.at = "sym"
        /\ slot' = [slot EXCEPT ![r.sym] = f]
        /\ Becomes(t, [r EXCEPT !.reg = f, !.at = "act"])
        /\ Same

-----------------------------------------------------------------------------
(* What the wrappers do with the function they found.                      *)

Act(t, ops) == thread[t].at = "act" /\ thread[t].op \in ops

SetId(t) ==
    LET r == thread[t]
    IN  /\ Act(t, SetIdWrappers \cup GetIdWrappers \cup {"ctor"})
        /\ Becomes(t, Finish(r, IF r.reg = Null THEN Null
                                ELSE IF r.op \in GetIdWrappers THEN r.id
                                ELSE EffectiveId(r.id)))
        /\ Same /\ UNCHANGED slot

RemapTypelibDir(dir) == IF Appdir /\ dir = "/usr" THEN "APPDIR" ELSE dir

(* require_private_or_search_path: a slot that is filled is used as it is. *)
(* An empty one is written again after the look-up. Both are read again    *)
(* for the call.                                                           *)
TestSlot(t) ==
    LET r == thread[t]
    IN  /\ r.at = "check" /\ Stored(r)
        /\ Becomes(t, IF r.sym = r.op THEN [r EXCEPT !.at = "call"] ELSE Resolve(r, ClearError))
        /\ Same /\ UNCHANGED slot

StorePrivate(t) ==
    LET r == thread[t]
    IN  /\ Act(t, RequireWrappers) /\ r.sym = r.op
        /\ slot' = [slot EXCEPT ![r.sym] = r.reg]
        /\ Becomes(t, IF r.reg = Null THEN Finish(r, Null) ELSE [r EXCEPT !.at = "call"])
        /\ Same

CallPrivate(t) ==
    LET r == thread[t]
    IN  /\ r.at = "call" /\ r.sym = r.op
        /\ IF slot[r.op] = Null THEN Becomes(t, Finish(r, "fault"))
           ELSE \/ Becomes(t, Finish(r, RemapTypelibDir(r.id)))
                \/ Becomes(t, Resolve([r EXCEPT !.err = "private"], Fallback(r.op)))
        /\ Same /\ UNCHANGED slot

Bug_StoreFallback(t) ==
    LET r == thread[t]
    IN  /\ Act(t, RequireWrappers) /\ r.sym = Fallback(r.op)
        /\ slot' = [slot EXCEPT ![r.sym] = r.reg]
        /\ Becomes(t, IF r.reg = Null THEN Finish([r EXCEPT !.err = "none"], Null)
                      ELSE [r EXCEPT !.at = "call"])
        /\ Same
StoreFallback(t) ==
    LET r == thread[t]
    IN  /\ Act(t, RequireWrappers) /\ r.sym = Fallback(r.op)
        /\ slot' = [slot EXCEPT ![r.sym] = r.reg]
        /\ Becomes(t, IF r.reg = Null THEN Finish(r, Null) ELSE Resolve(r, ClearError))
        /\ Same

ClearGiError(t) ==
    LET r == thread[t]
    IN  /\ Act(t, RequireWrappers) /\ r.sym = ClearError
        /\ Becomes(t, [r EXCEPT !.err = IF r.reg = Null THEN @ ELSE "none",
                                !.sym = Fallback(r.op), !.at = "call"])
        /\ Same /\ UNCHANGED slot

(* g_set_error does not replace an error that is already there.            *)
CallFallback(t) ==
    LET r == thread[t]
    IN  /\ r.at = "call" /\ r.sym = Fallback(r.op)
        /\ IF slot[r.sym] = Null THEN Becomes(t, Finish(r, "fault"))
           ELSE \/ Becomes(t, Finish(r, "GI_TYPELIB_PATH"))
                \/ Becomes(t, Finish([r EXCEPT !.err = IF @ = "none" THEN "fallback" ELSE @], Null))
        /\ Same /\ UNCHANGED slot

(* GLY_LOADER_WRAPPER, then force_not_sandboxed.                           *)
NewLoader(t) ==
    LET r == thread[t]
    IN  /\ Act(t, LoaderWrappers) /\ r.sym = r.op
        /\ \/ Becomes(t, Finish(r, Null))
           \/ r.reg # Null /\ Becomes(t, Resolve([r EXCEPT !.boxed = TRUE], Selector))
        /\ Same /\ UNCHANGED slot

Bug_ForceNotSandboxed(t) ==
    /\ Act(t, LoaderWrappers) /\ thread[t].sym = Selector
    /\ Becomes(t, Finish([thread[t] EXCEPT !.boxed = slot[Selector] = Null], "loader"))
    /\ Same /\ UNCHANGED slot
ForceNotSandboxed(t) ==
    LET r == thread[t]
    IN  /\ Act(t, LoaderWrappers) /\ r.sym = Selector
        /\ Becomes(t, Finish([r EXCEPT !.boxed = r.reg = Null], "loader"))
        /\ Same /\ UNCHANGED slot

Return(t) == /\ thread[t].at = "done" /\ Becomes(t, Idle)
             /\ started' = (started \/ thread[t].op = "ctor")
             /\ Others /\ UNCHANGED <<slot, cache, overrideId, initDone>>

(* The application loads a library with everything it needs.               *)
Dlopen(lib, visible) ==
    /\ ~(lib \in IF visible THEN global ELSE loaded)
    /\ loaded' = loaded \cup Needs(lib)
    /\ global' = IF visible THEN global \cup Needs(lib) ELSE global
    /\ UNCHANGED <<slot, cache, overrideId, initDone, windowClass, uses, started, thread>>

Init ==
    /\ \E libs \in SUBSET Libraries : global = UNION {Needs(lib) : lib \in libs}
    /\ loaded = global
    /\ slot = [s \in Symbols |-> Null] /\ cache = [g \in {"glib", "gir", "gly"} |-> Null]
    /\ overrideId = "none" /\ initDone = FALSE
    /\ windowClass \in WindowClasses /\ uses \in Usages /\ started = FALSE
    /\ thread = [t \in Threads |-> Idle]

Next ==
    \/ \E t \in Threads :
          \/ \E op \in uses[t] : Enter(t, op)
          \/ GtkInit(t) \/ TestId(t)
          \/ Check(t) \/ TryNext(t) \/ LoadedHandle(t) \/ TryHandle(t)
          \/ SetId(t)
          \/ TestSlot(t) \/ StorePrivate(t) \/ CallPrivate(t)
          \/ StoreFallback(t) \/ ClearGiError(t) \/ CallFallback(t)
          \/ NewLoader(t) \/ ForceNotSandboxed(t)
          \/ Return(t)
    \/ GtkClassFixCtor
    \/ \E lib \in Libraries, visible \in BOOLEAN : Dlopen(lib, visible)

Spec == Init /\ [][Next]_vars

-----------------------------------------------------------------------------
(* Properties.                                                             *)
Ended(t, ops) == thread[t].at = "done" /\ thread[t].op \in ops

(* The slots hold functions of libraries that are in the process, never a  *)
(* wrapper of their own, and the handles are libraries of their group.     *)
TypeOK ==
    /\ global \subseteq loaded
    /\ \A s \in Symbols : slot[s] = Null \/ (slot[s] \in loaded /\ s \in Exports(slot[s]))
    /\ \A g \in DOMAIN cache : cache[g] = Null \/ cache[g] \in loaded \cap Range(Sonames(g))
    /\ overrideId \in {"none", windowClass} /\ (started => initDone)

(* A window class that is set is the one every call uses, whichever thread *)
(* makes it; without one the application's own ids are left alone.         *)
ForcedId ==
    \A t \in Threads : Ended(t, SetIdWrappers \cup GetIdWrappers) /\ thread[t].ret # Null =>
        thread[t].ret = IF windowClass \in {"none", "empty"} THEN thread[t].id ELSE windowClass

(* A call that starts when its library is loaded, and no handle was taken  *)
(* without it, reaches the real function, whatever other threads store in  *)
(* the slot meanwhile (real_sym_with).                                     *)
Reached ==
    \A t \in Threads : thread[t].at = "act" /\ thread[t].sure => thread[t].reg # Null

(* The GError contract of require_private: a typelib comes without an      *)
(* error, NULL comes with one unless there was no function to call.        *)
ErrorContract ==
    \A t \in Threads : Ended(t, RequireWrappers) =>
        IF thread[t].ret = Null THEN thread[t].sym = thread[t].op \/ thread[t].err # "none"
        ELSE thread[t].err = "none"

(* No loader is handed out with its sandbox on (force_not_sandboxed).      *)
NotSandboxed == \A t \in Threads : Ended(t, LoaderWrappers) => ~thread[t].boxed
=============================================================================
