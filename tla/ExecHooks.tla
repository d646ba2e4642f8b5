------------------------------ MODULE ExecHooks ------------------------------
(***************************************************************************)
(* anylinux.so, the library sharun preloads into every bundled program: a  *)
(* chain of programs, each started by the one before through the wrapped   *)
(* exec and posix_spawn functions, and the environment each one is handed. *)
(*                                                                         *)
(* An environment is the function from the variables that are set to their *)
(* values. A value is kept by where it is from: "host", "bundle" (it holds *)
(* APPDIR), "both" (APPDIR in front of the host's), "fake" (a portable     *)
(* directory), "own" (the bundle's cache directory), "name" (anylinux.so   *)
(* without its directory), "empty", or itself.                             *)
(***************************************************************************)
EXTENDS Naturals, Sequences, SequencesExt

CONSTANTS StartEnvs,   \* what AppRun and the user's session may set
          Programs,    \* programs that are started: [place, spelled, base]
          Changes,     \* what a program sets: pairs of variable and value
          Unsets,      \* variables a program unsets
          Shipped,     \* what the bundle has of {"plugins", "locale"}
          Locales      \* for each host: which locale settings work there

VARIABLES phase,       \* "load", "run", "ended"
          env,         \* environ of the process; the empty function is NULL
          saved,       \* what the constructors captured
          result       \* the last wrapped call

vars == <<phase, env, saved, result>>

-----------------------------------------------------------------------------
(* environ, as libc keeps it.                                              *)
NoVars == [v \in {} |-> "empty"]
Get(e, v) == IF v \in DOMAIN e THEN e[v] ELSE "empty"
Put(e, v, x) == [w \in DOMAIN e \cup {v} |-> IF w = v THEN x ELSE e[w]]
Drop(e, v) == Restrict(e, DOMAIN e \ {v})

HasAppdir(x) == x \in {"bundle", "both"}

(* What AppRun and the portable directories put in the environment: beside *)
(* a directory that is not the host's, a copy of the one that is. Programs *)
(* leave the copies alone.                                                 *)
DirVars == {"HOME", "REAL_HOME", "XDG_CACHE_HOME", "REAL_XDG_CACHE_HOME",
            "HOST_XDG_CACHE_HOME", "USE_HOST_XDG_CACHE_HOME"}
Either(x, y) == IF x # "empty" THEN x ELSE y
HomeBehind(e) == Either(Get(e, "REAL_HOME"), Get(e, "HOME"))
CacheBehind(e) ==
    Either(IF Get(e, "USE_HOST_XDG_CACHE_HOME") = "1" THEN "empty"
           ELSE Get(e, "HOST_XDG_CACHE_HOME"),
           Either(Get(e, "REAL_XDG_CACHE_HOME"), Get(e, "XDG_CACHE_HOME")))
HostBehind(e) ==
    /\ HomeBehind(e) = "host" \/ (HomeBehind(e) = "empty" /\ "HOME" \notin DOMAIN e)
    /\ CacheBehind(e) = "host" \/ (CacheBehind(e) = "empty" /\ "XDG_CACHE_HOME" \notin DOMAIN e)

ASSUME DirsAssumption ==
    /\ \A e \in StartEnvs : HostBehind(e)
    /\ \A c \in Changes : c[1] \notin DirVars
    /\ Unsets \cap DirVars \subseteq {"HOME", "XDG_CACHE_HOME"}

-----------------------------------------------------------------------------
(* The constructors.                                                       *)

SpoofArgv0(e) == IF Get(e, "OVERRIDE_ARGV0") = "empty" THEN e ELSE Drop(e, "OVERRIDE_ARGV0")

NothingSaved == [appdir |-> FALSE, path |-> "empty", textdomaindir |-> "empty"]

CaptureAppdirAndPath(s, e) ==
    [s EXCEPT !.appdir = Get(e, "APPDIR") # "empty", !.path = Get(e, "PATH")]
InitBindtextdomainOverride(s, e) == [s EXCEPT !.textdomaindir = Get(e, "TEXTDOMAINDIR")]

(* The settings that are tried in turn, each on top of the ones before.    *)
Attempts(e) ==
    << <<"LOCPATH", "host">> >>
    \o (IF Get(e, "APPDIR") = "empty" THEN << >> ELSE << <<"LOCPATH", "bundle">> >>)
    \o << <<"LC_ALL", "en_US.UTF-8">>, <<"LC_ALL", "C.UTF-8">>, <<"LC_ALL", "C">> >>

InitLocale(e, works) ==
    LET tries == Attempts(e)
        good  == {i \in DOMAIN tries : tries[i] \in works \/ i = Len(tries)}
        upto  == IF <<"LANG", "host">> \in works THEN 0 ELSE Min(good)
        made(v) == {i \in 1 .. upto : tries[i][1] = v}
    IN  [v \in DOMAIN e \cup {tries[i][1] : i \in 1 .. upto} |->
            IF made(v) = {} THEN e[v] ELSE tries[Max(made(v))][2]]

Load ==
    /\ phase = "load"
    /\ \E works \in Locales : env' = InitLocale(SpoofArgv0(env), works)
    /\ saved' = InitBindtextdomainOverride(CaptureAppdirAndPath(saved, env), env)
    /\ phase' = "run"
    /\ UNCHANGED result

-----------------------------------------------------------------------------
(* The environment of a child.                                             *)

VarsToUnset ==
    { "ALSA_CONFIG_PATH", "BABL_PATH", "__EGL_VENDOR_LIBRARY_DIRS",
      "__EGL_VENDOR_LIBRARY_FILENAMES", "FOLKS_BACKEND_PATH", "FREI0R_PATH",
      "GBM_BACKENDS_PATH", "GCONV_PATH", "GDK_PIXBUF_MODULEDIR",
      "GDK_PIXBUF_MODULE_FILE", "GEGL_PATH", "GIO_MODULE_DIR", "GI_TYPELIB_PATH",
      "GSETTINGS_SCHEMA_DIR", "GS_LIB", "GST_PLUGIN_PATH", "GST_PLUGIN_SCANNER",
      "GST_PLUGIN_SYSTEM_PATH", "GST_PLUGIN_SYSTEM_PATH_1_0", "GTK_DATA_PREFIX",
      "GTK_EXE_PREFIX", "GTK_IM_MODULE_FILE", "GTK_PATH", "IMLIB2_FILTER_PATH",
      "IMLIB2_LOADER_PATH", "JACK_DRIVER_DIR", "LADSPA_PATH", "LD_LIBRARY_PATH",
      "LD_PRELOAD", "LIBDECOR_PLUGIN_DIR", "LIBGL_DRIVERS_PATH", "LIBHEIF_PLUGIN_PATH",
      "LIBVA_DRIVERS_PATH", "LOCPATH", "MAGIC", "MAGICK_CODER_FILTER_PATH",
      "MAGICK_CODER_MODULE_PATH", "MAGICK_CONFIGURE_PATH", "MAGICK_HOME",
      "MLT_PRESETS_PATH", "MLT_PROFILES_PATH", "MLT_REPOSITORY", "OPENSSL_CONF",
      "PATH_MAPPING", "PATH_MAPPING_EXCLUDE", "PERLLIB", "PEAS_PLUGIN_LOADERS_DIR",
      "PIPEWIRE_CONFIG_DIR", "PIPEWIRE_MODULE_DIR", "PYTHONHOME", "QT_PLUGIN_PATH",
      "SPA_PLUGIN_DIR", "TCL_LIBRARY", "TEXTDOMAINDIR", "TK_LIBRARY",
      "VK_DRIVER_FILES", "WEBKIT_EXEC_PATH", "WEBKIT_INJECTED_BUNDLE_PATH",
      "QT_XKB_CONFIG_ROOT", "XKB_CONFIG_ROOT", "XTABLES_LIBDIR" }

(* A variable that is not to be handed on: it leads into the bundle.       *)
Leads(v, x) == v \in VarsToUnset /\ (HasAppdir(x) \/ (v = "LD_PRELOAD" /\ x = "name"))

Bug_CreateCleanedEnv(e, given) ==
    Restrict(given, {v \in DOMAIN given : ~(v \in VarsToUnset /\ HasAppdir(given[v]))})
CreateCleanedEnv(e, given) ==
    IF "APPDIR" \notin DOMAIN e THEN given
    ELSE Restrict(given, {v \in DOMAIN given : ~Leads(v, given[v])})

(* A name without a directory is not one of APPDIR's.                      *)
IsExternalProcess(e, prog) ==
    "APPDIR" \in DOMAIN e /\ (prog.spelled = "name" \/ prog.place = "host")

Copied(e, from, v) == IF Get(e, from) = "empty" THEN e ELSE Put(e, v, e[from])

(* environ before the first of its setenv calls and after each of them.    *)
Bug_RestorePortableDirs(e) ==
    << e, IF Get(e, "USE_HOST_XDG_CACHE_HOME") = "1" THEN e
          ELSE Copied(e, "HOST_XDG_CACHE_HOME", "XDG_CACHE_HOME") >>
RestorePortableDirs(e) ==
    LET data   == Copied(e, "REAL_XDG_DATA_HOME", "XDG_DATA_HOME")
        config == Copied(data, "REAL_XDG_CONFIG_HOME", "XDG_CONFIG_HOME")
        cache  == Copied(config, "REAL_XDG_CACHE_HOME", "XDG_CACHE_HOME")
        host   == IF Get(e, "USE_HOST_XDG_CACHE_HOME") = "1" THEN cache
                  ELSE Copied(cache, "HOST_XDG_CACHE_HOME", "XDG_CACHE_HOME")
    IN  <<e, data, config, cache, host, Copied(host, "REAL_HOME", "HOME")>>

(* What a program passes as envp: "environ" itself or a list of its own.   *)
OwnLists == {env, Drop(env, "PATH"), NoVars}

(* environ is a pointer that was read before the restore. A value is       *)
(* replaced in place, but to add a variable libc may move the list: what   *)
(* is set from then on, that variable included, the pointer does not see.  *)
SeenThrough(steps) ==
    {Last(steps)} \cup
    {steps[i] : i \in {j \in 1 .. Len(steps) - 1 : DOMAIN steps[j + 1] # DOMAIN steps[j]}}

(* A PATH that is empty counts as missing; the one that is added comes     *)
(* after it in the list, where nobody finds it.                            *)
HasPath(e) == Get(e, "PATH") # "empty"
FullPath == IF saved.path = "bundle" THEN "bundle" ELSE "both"
Bug_WithPath(e) == e
WithPath(e) == IF "PATH" \in DOMAIN e THEN e ELSE Put(e, "PATH", FullPath)

(* Where libc and the kernel find the program.                             *)
Found(e, prog) ==
    \/ prog.spelled = "path"
    \/ prog.place = "bundle" /\ HasAppdir(Get(e, "PATH"))
    \/ prog.place = "host" /\ ("PATH" \notin DOMAIN e \/ e["PATH"] \in {"host", "both"})

-----------------------------------------------------------------------------
(* The wrapped calls.                                                      *)

(* own: the list was not environ; lacked: it had no PATH.                  *)
On(x) == [place |-> x, spelled |-> "path", base |-> x]
Answered(call, prog, e, ok) ==
    [call |-> call, prog |-> prog, env |-> e, ok |-> ok, own |-> FALSE, lacked |-> FALSE]
NoResult == Answered("none", On("none"), NoVars, TRUE)
Fault == Answered("fault", On("none"), NoVars, FALSE)

Wrapped(prog) == prog.base \in {"xdg-open", "gio-launch-desktop"}

(* exec_common. It reads the list it was given even when that is NULL.     *)
ExecCommon(call, prog, own) ==
    LET quiet    == Drop(env, "LD_DEBUG")
        cleans   == IsExternalProcess(quiet, prog) \/ Wrapped(prog)
        steps    == IF cleans THEN RestorePortableDirs(quiet) ELSE <<quiet>>
        restored == Last(steps)
        Hand(given) ==
            LET e    == IF cleans THEN CreateCleanedEnv(restored, given) ELSE given
                adds == saved.appdir /\ ~HasPath(e)
                mine == IF adds THEN Put(restored, "PATH", FullPath) ELSE restored
            IN  /\ env' = mine
                /\ result' = [Answered(call, prog, IF adds THEN WithPath(e) ELSE e,
                                       Found(mine, prog))
                              EXCEPT !.own = own, !.lacked = "PATH" \notin DOMAIN given]
                /\ UNCHANGED phase
    IN  IF own THEN \E given \in OwnLists : Hand(given)
        ELSE IF env = NoVars /\ saved.appdir
        THEN result' = Fault /\ phase' = "ended" /\ UNCHANGED env
        ELSE \E given \in SeenThrough(steps) : Hand(given)

SpawnCommon(call, prog, own) ==
    \E given \in IF own THEN OwnLists ELSE {env} :
        /\ result' = [Answered(call, prog,
                               IF IsExternalProcess(env, prog) THEN CreateCleanedEnv(env, given)
                               ELSE given,
                               Found(env, prog)) EXCEPT !.own = own]
        /\ UNCHANGED <<phase, env>>

ByPath == {p \in Programs : p.spelled = "path"}

Execve(prog)  == \E own \in BOOLEAN : ExecCommon("execve", prog, own)
Execv(prog)   == ExecCommon("execve", prog, FALSE)
Execvpe(prog) == \E own \in BOOLEAN : ExecCommon("execvpe", prog, own)
Execvp(prog)  == ExecCommon("execvpe", prog, FALSE)
PosixSpawn(prog)  == \E own \in BOOLEAN : SpawnCommon("posix_spawn", prog, own)
PosixSpawnp(prog) == \E own \in BOOLEAN : SpawnCommon("posix_spawnp", prog, own)

(* The directory that translations are taken from.                         *)
Redirected(dir, override) ==
    IF dir \in {"/usr/share/locale", "/tmp"} /\ override # "empty" THEN override ELSE dir
Bug_Bindtextdomain(dir) ==
    /\ result' = Answered("bindtextdomain", On(Redirected(dir, Get(env, "TEXTDOMAINDIR"))),
                          NoVars, TRUE)
    /\ UNCHANGED <<phase, env>>
Bindtextdomain(dir) ==
    /\ result' = Answered("bindtextdomain", On(Redirected(dir, saved.textdomaindir)),
                          NoVars, TRUE)
    /\ UNCHANGED <<phase, env>>

(* ok: the library is loaded.                                              *)
ShouldBlockLibrary(lib) == Get(env, "ANYLINUX_DO_NOT_LOAD_LIBS") = lib
Dlopen(lib) ==
    /\ result' = Answered("dlopen", On(lib), NoVars, ~ShouldBlockLibrary(lib))
    /\ UNCHANGED <<phase, env>>

Calls ==
    \/ \E prog \in ByPath : Execve(prog) \/ Execv(prog) \/ PosixSpawn(prog)
    \/ \E prog \in Programs : Execvpe(prog) \/ Execvp(prog) \/ PosixSpawnp(prog)
    \/ \E dir \in {"/usr/share/locale", "/tmp", "/opt"} : Bindtextdomain(dir)
    \/ \E lib \in {"libjack", "libm"} : Dlopen(lib)

-----------------------------------------------------------------------------
(* What the programs do to their environment between the calls. The list   *)
(* is NULL after clearenv only.                                            *)
Setenv(v, x) == env' = Put(env, v, x)
Unsetenv(v) == env' = Drop(env, v) /\ v \in DOMAIN env /\ DOMAIN env # {v}
Clearenv == env' = NoVars

Program ==
    /\ phase = "run" /\ result = NoResult
    /\ \/ \E c \in Changes : Setenv(c[1], c[2])
       \/ \E v \in Unsets : Unsetenv(v)
       \/ Clearenv
    /\ UNCHANGED <<phase, saved, result>>

Call == phase = "run" /\ result = NoResult /\ Calls /\ UNCHANGED saved

(* The caller goes on: an exec that failed, or the parent after a spawn.   *)
GoOn == /\ phase = "run" /\ result # NoResult
        /\ result' = NoResult
        /\ UNCHANGED <<phase, env, saved>>

(* sharun starts the bundled program with the directories in place that    *)
(* the bundle has; a patched one gets the library through LD_PRELOAD.      *)
BinFirst(path) == CASE path = "empty" -> "bundle" [] path = "host" -> "both" [] OTHER -> path
WithPlugins(e) == IF "plugins" \in Shipped THEN Put(e, "QT_PLUGIN_PATH", "bundle") ELSE e
WithTranslations(e) == IF "locale" \in Shipped THEN Put(e, "TEXTDOMAINDIR", "bundle") ELSE e
Unbroken(e) == Drop(Drop(e, "LD_PRELOAD"), "QT_PLUGIN_PATH")
Sharun(e, patched) ==
    LET bin  == Put(Unbroken(e), "PATH", BinFirst(Get(e, "PATH")))
        dirs == WithTranslations(WithPlugins(bin))
    IN  IF patched THEN Put(dirs, "LD_PRELOAD", "name") ELSE dirs

(* The program that was started takes over; a host program is not followed.*)
Takeover ==
    /\ phase = "run" /\ result.call \in {"execve", "execvpe", "posix_spawn", "posix_spawnp"}
    /\ result.ok
    /\ result' = NoResult /\ saved' = NothingSaved
    /\ IF result.prog.place = "bundle"
       THEN phase' = "load" /\ \E patched \in BOOLEAN : env' = Sharun(result.env, patched)
       ELSE phase' = "ended" /\ env' = result.env

Init == /\ phase = "load"
        /\ env \in {Sharun(e, patched) : e \in StartEnvs, patched \in BOOLEAN}
        /\ saved = NothingSaved /\ result = NoResult

(* The user starts the application again.                                  *)
Restart == /\ phase = "ended"
           /\ phase' = "load"
           /\ env' \in {Sharun(e, patched) : e \in StartEnvs, patched \in BOOLEAN}
           /\ saved' = NothingSaved /\ result' = NoResult

Next == Load \/ Program \/ Call \/ GoOn \/ Takeover \/ Restart

Spec == Init /\ [][Next]_vars

-----------------------------------------------------------------------------
(* Properties.                                                             *)

Launches == {"execve", "execvpe", "posix_spawn", "posix_spawnp"}
IsExec == result.call \in {"execve", "execvpe"}
HostProgram == result.call \in Launches /\ result.prog.place = "host"
InBundle == "APPDIR" \in DOMAIN env

(* The records are what the library makes of them, and a program's own     *)
(* name is no longer in its environment once it runs.                      *)
TypeOK ==
    /\ phase \in {"load", "run", "ended"}
    /\ DOMAIN env \subseteq VarsToUnset \cup
         { "APPDIR", "PATH", "XDG_DATA_HOME", "REAL_XDG_DATA_HOME", "XDG_CONFIG_HOME",
           "REAL_XDG_CONFIG_HOME", "LD_DEBUG", "LC_ALL", "TERM", "ANYLINUX_DO_NOT_LOAD_LIBS" }
         \cup DirVars
         \cup (IF phase = "load" THEN {"OVERRIDE_ARGV0"} ELSE {})
    /\ saved \in [appdir : BOOLEAN, path : {"empty", "host", "bundle", "both"},
                  textdomaindir : {"empty", "bundle"}]
    /\ result.ok \in BOOLEAN /\ result.own \in BOOLEAN /\ result.lacked \in BOOLEAN

(* However long the chain of programs was, no host program is handed a     *)
(* listed variable that leads into the bundle, by a process that still has *)
(* APPDIR (create_cleaned_env).                                            *)
ExternalClean ==
    HostProgram /\ InBundle => \A v \in DOMAIN result.env : ~Leads(v, result.env[v])

(* Once a host program is started by exec no portable directory and no     *)
(* cache of the bundle is left in environ, whatever order the copies are   *)
(* restored in. The program that inherits environ gets none either, but    *)
(* for one case: a directory that is restored earlier was not set at all,  *)
(* and the list moved away from the caller's pointer when it was added     *)
(* (restore_portable_dirs).                                                *)
RestoredBefore(v) == {"XDG_DATA_HOME", "XDG_CONFIG_HOME"}
                     \cup (IF v = "HOME" THEN {"XDG_CACHE_HOME"} ELSE {})
PortableDirsRestored ==
    HostProgram /\ IsExec /\ InBundle =>
        /\ \A v \in DOMAIN env \cap {"HOME", "XDG_CACHE_HOME"} : env[v] = "host"
        /\ ~result.own =>
             \A v \in DOMAIN result.env \cap {"HOME", "XDG_CACHE_HOME"} :
                \/ result.env[v] = "host"
                \/ RestoredBefore(v) \cap (DOMAIN env \ DOMAIN result.env) # {}

(* A program that lost PATH hands on a full one through exec and finds the *)
(* bundle's helpers by name, in every process that was started with APPDIR *)
(* (capture_appdir_and_path, exec_common).                                 *)
PathRepaired ==
    IsExec /\ saved.appdir /\ result.lacked =>
        /\ HasAppdir(Get(result.env, "PATH")) /\ HasAppdir(Get(env, "PATH"))
        /\ result.prog.place = "bundle" => result.ok

(* Translations come from the bundle, when it has any, for as long as the  *)
(* program runs, even after it has cleared its environment                 *)
(* (init_bindtextdomain_override).                                         *)
TextDomainKept ==
    result.call = "bindtextdomain" /\ "locale" \in Shipped =>
        result.prog.place \in {"bundle", "/opt"}

(* An exec never brings the calling program down.                          *)
NeverFaults == result.call # "fault"
=============================================================================
