------------------------------ MODULE FileTransfer ------------------------------
(***************************************************************************)
(* What a streamed download promises: its file grows until the whole       *)
(* remote file is in it and it is kept, or it is given up; after either it *)
(* is not written to again, and one of the two happens.                    *)
(***************************************************************************)
EXTENDS Naturals

CONSTANT Size       \* bytes of the remote file, as the listing gives them; a positive number

VARIABLES bytes,    \* in the file
          result

vars == <<bytes, result>>

Init == bytes = 0 /\ result = "running"

Grow == /\ result = "running"
        /\ bytes' \in (bytes + 1)..Size
        /\ UNCHANGED result

Keep == /\ result = "running"
        /\ bytes = Size
        /\ result' = "kept"
        /\ UNCHANGED bytes

GiveUp == /\ result = "running"
          /\ result' \in {"failed", "dropped"}
          /\ UNCHANGED bytes

Next == Grow \/ Keep \/ GiveUp

Spec == Init /\ [][Next]_vars /\ WF_vars(Next)
================================================================================
