--------------------------- MODULE MCLocalDetection ---------------------------
(* LocalDetection with a few presses, resets and things that go wrong. *)
EXTENDS LocalDetection
================================================================================
