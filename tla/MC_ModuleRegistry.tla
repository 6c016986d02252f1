------------------------- MODULE MC_ModuleRegistry --------------------------
(***************************************************************************)
(* Model values for ModuleRegistry.                                        *)
(***************************************************************************)
EXTENDS ModuleRegistry

CONSTANTS SC1

MCWidths == {32, 64}
MCLits   == {0}
MCStorageClasses == {SC1}
MCStrs   == {"main"}
MCTargets == {"x86_64"}
MCMDs    == {"scope"}

=============================================================================
