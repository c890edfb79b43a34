------------------------- MODULE MCToolheadReflections -------------------------
(* ToolheadReflections with a few captures, scenes and faults. *)
EXTENDS ToolheadReflections
================================================================================
