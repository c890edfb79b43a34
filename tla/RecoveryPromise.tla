---------------------------- MODULE RecoveryPromise ----------------------------
(***************************************************************************)
(* What a recovery attempt promises its owner: it prepares; at most once,  *)
(* and never after the owner asked it to stop, it hands the print over to  *)
(* the printer; after that nothing takes the hand-over back, and it is     *)
(* reported complete or uncertain, never cancelled or refused; and every   *)
(* attempt ends.                                                           *)
(***************************************************************************)
VARIABLES stage,   \* what the owner is told of the attempt
          asked    \* the owner asked this attempt to stop, in time

Ended == {"idle", "complete", "cancelled", "refused", "uncertain"}

TypeOK == stage \in Ended \cup {"preparing", "handed over"} /\ asked \in BOOLEAN

Init == stage = "idle" /\ asked = FALSE

\* The first request of an attempt may already fail.
Begin    == stage \in Ended /\ stage' \in {"preparing", "uncertain"} /\ asked' = FALSE
Stop     == stage = "preparing" /\ asked' = TRUE /\ UNCHANGED stage
HandOver == stage = "preparing" /\ ~asked /\ stage' = "handed over" /\ UNCHANGED asked
GiveUp   == /\ stage = "preparing"
            /\ stage' \in {"refused", "uncertain"} \cup (IF asked THEN {"cancelled"} ELSE {})
            /\ UNCHANGED asked
Answer   == stage = "handed over" /\ stage' \in {"complete", "uncertain"} /\ UNCHANGED asked

Next == Begin \/ Stop \/ HandOver \/ GiveUp \/ Answer

Safety == Init /\ [][Next]_<<stage, asked>>
Spec   == Safety /\ WF_<<stage, asked>>(HandOver \/ GiveUp) /\ WF_<<stage, asked>>(Answer)
================================================================================
