---------------------------- MODULE MCToolheadQueue ----------------------------
(* ToolheadQueue with a few moves, presses and disturbances. *)
EXTENDS ToolheadQueue
================================================================================
