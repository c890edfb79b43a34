---------------------------- MODULE MCCommandLane ----------------------------
(* CommandLane on small instances.                                         *)
EXTENDS CommandLane
=============================================================================
