----------------------------- MODULE MCSymbolFix -----------------------------
(* Instances of SymbolFix for TLC.                                         *)
EXTENDS SymbolFix, TLC

CONSTANTS t1, t2

MCThreads == {t1, t2}
Calls(one, two) == (t1 :> one) @@ (t2 :> two)
MCUsages == { Calls({"g_set_prgname", "g_get_prgname"}, {"g_set_prgname", "gtk_application_new"}),
              Calls({"gi_repository_require_private"}, {"g_set_prgname"}),
              Calls({"gly_loader_new"}, {"gly_loader_new", "gly_loader_new_for_stream"}) }
MCLibraries == {"libgtk-4.so.1", "libgirepository-2.0.so.0",
                "libglycin-2.so.0"}
MCClasses == {"empty", "class"}
MCIds == {"app"}
MCDirs == {"/usr"}
=============================================================================
