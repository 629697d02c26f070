--------------------------- MODULE MCConfiguredSync --------------------------
(* Two changes of backend with two failed calls, or with two sync runs beside *)
(* them.                                                                      *)
EXTENDS ConfiguredSync

NotBoth == faults = 0 \/ syncs = 0
==============================================================================
