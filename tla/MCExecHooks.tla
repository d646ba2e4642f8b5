---------------------------- MODULE MCExecHooks ----------------------------
(* Instances of ExecHooks for TLC.                                         *)
EXTENDS ExecHooks, TLC

Prog(place, spelled, base) == [place |-> place, spelled |-> spelled, base |-> base]

MCPrograms == { Prog("bundle", "path", "helper"), Prog("bundle", "name", "helper"),
                Prog("bundle", "path", "xdg-open"), Prog("host", "path", "editor"),
                Prog("host", "name", "editor") }

(* AppRun's variables, a portable home or none, and a debugging session.   *)
Plain    == "APPDIR" :> "bundle" @@ "PATH" :> "both" @@ "HOME" :> "host"
            @@ "XDG_CACHE_HOME" :> "own" @@ "HOST_XDG_CACHE_HOME" :> "host"
Portable == "HOME" :> "fake" @@ "REAL_HOME" :> "host" @@ "XDG_CACHE_HOME" :> "fake"
            @@ "REAL_XDG_CACHE_HOME" :> "host" @@ "XDG_CONFIG_HOME" :> "fake"
            @@ "REAL_XDG_CONFIG_HOME" :> "host" @@ Plain
Debug    == "LD_DEBUG" :> "1" @@ "OVERRIDE_ARGV0" :> "name"
            @@ "ANYLINUX_DO_NOT_LOAD_LIBS" :> "libjack" @@ Plain
MCStartEnvs == {Plain, Portable, Debug}

MCChanges == { <<"PATH", "host">>, <<"PATH", "empty">>, <<"TERM", "host">> }
MCUnsets == {"PATH", "HOME", "XDG_CACHE_HOME", "XDG_CONFIG_HOME"}
MCShipped == {"plugins", "locale"}

(* A host whose locale works, one where the bundle's files are needed, and *)
(* one where only the last fallback is left.                               *)
MCLocales == { {<<"LANG", "host">>}, {<<"LOCPATH", "bundle">>}, {} }
=============================================================================
