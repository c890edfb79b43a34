--------------------------- MODULE RecoveryExecution ---------------------------
(***************************************************************************)
(* One recovery attempt (RecoveryExecution): the stages between a paused   *)
(* or unloaded print and the printer reading the file again from a chosen  *)
(* boundary.  Every stage is a fresh status query, a script or a re-plan   *)
(* of the source; an attempt waits for exactly one answer at a time, so    *)
(* its pending token is its stage.                                         *)
(*                                                                         *)
(* A printer is abstracted to what the stages verify and change.  pos is   *)
(* the virtual SD card's read position: 0 before the boundary, 1 at it, 2  *)
(* past it.  held is pause_resume.is_paused.                               *)
(***************************************************************************)
EXTENDS Naturals

Positions == 0..2
Places    == {"away", "prime", "staged", "part"}
Printers  == [state : {"idle", "printing", "paused"}, held : BOOLEAN,
              mine  : BOOLEAN,     \* print_stats.filename and file_size are the plan's
              hot   : BOOLEAN, at : Places, pos : Positions,
              zref  : BOOLEAN,     \* the Z reference is in place
              modal : BOOLEAN]     \* E, speed, flow and modes are the boundary's

Checks  == {"checking", "checking_pause", "checking_after_pause", "checking_loaded_file",
            "checking_temperature", "checking_restored_state", "checking_z_reference",
            "checking_prime", "checking_return", "checking_seek", "checking_modal_state",
            "checking_pause_cleanup", "checking_resume"}
Scripts == {"pausing", "waiting_for_motion", "loading_file", "heating_and_waiting",
            "restore_state", "setting_z_reference", "priming_nozzle", "returning",
            "seeking", "restoring_modal_state", "finishing_pause", "resuming"}
Stages   == Checks \cup Scripts \cup {"rechecking_source"}
Outcomes == {"refused", "cancelled", "uncertain", "complete"}

\* What the owner's settings and the printer's PAUSE macro ask for.
Profiles == [prime : BOOLEAN, finish : BOOLEAN]

Attempts == [active : BOOLEAN, cancelled : BOOLEAN, handover : BOOLEAN,
             idle   : BOOLEAN, primed : BOOLEAN,
             phase  : Stages \cup Outcomes \cup {"idle"},
             gen    : Nat]      \* the controller's generation in its closures

NoAttempt == [active |-> FALSE, cancelled |-> FALSE, handover |-> FALSE, idle |-> FALSE,
              primed |-> FALSE, phase |-> "idle", gen |-> 0]

\* start(), up to its first _advance
Begun(g) == [active |-> TRUE, cancelled |-> FALSE, handover |-> FALSE, idle |-> FALSE,
             primed |-> FALSE, phase |-> "checking", gen |-> g]

\* _finish()
Finished(x, outcome) == [x EXCEPT !.active = FALSE, !.phase = outcome]

\* _advance() and _script(), up to the request itself
Entered(x, stage) ==
    IF x.cancelled THEN Finished(x, "cancelled")
    ELSE [x EXCEPT !.phase = stage,
                   !.handover = IF stage \in Scripts THEN stage = "resuming" ELSE @]

\* Mutant of CancelAsked: a stop is taken after the handover too.
CancelsAlways(x) == IF x.active THEN [x EXCEPT !.cancelled = TRUE] ELSE x

\* cancel()
CancelAsked(x) == IF x.active /\ ~x.handover THEN [x EXCEPT !.cancelled = TRUE] ELSE x

-----------------------------------------------------------------------------
(* A fresh status.                                                         *)

\* prepare_return(): the printer holds this file, stopped the way the attempt
\* found it.
Owned(x, s) == s.mine /\ IF x.idle THEN s.state = "idle" /\ ~s.held
                                   ELSE s.state = "paused" /\ s.held

\* Mutant of Gate: what the scripts left is not read back, only who owns the
\* printer.
ReadsOwnerOnly(x, s) ==
    CASE x.phase = "checking" ->
            (s.state = "idle" => ~s.held) /\ (s.state # "idle" => s.mine)
      [] x.phase = "checking_resume" -> s.state = "printing" /\ s.mine /\ ~s.held
      [] OTHER -> Owned(x, s)

\* What each status must show for the attempt to go on.
Gate(x, s) ==
    CASE x.phase = "checking" ->
            /\ s.state = "printing" => s.mine /\ ~s.held
            /\ s.state = "paused" => Owned(x, s)
            /\ s.state = "idle" => ~s.held
      [] x.phase = "checking_resume" ->
            s.state = "printing" /\ s.mine /\ ~s.held /\ s.pos >= 1
      [] OTHER ->
            /\ Owned(x, s)
            /\ s.hot \/ x.phase \in {"checking_pause", "checking_after_pause",
                                     "checking_loaded_file"}
            /\ x.phase = "checking_z_reference" => s.zref
            /\ x.phase = "checking_prime" => s.at = "prime"
            /\ x.phase \in {"checking_return", "checking_seek", "checking_modal_state",
                            "checking_pause_cleanup"} => s.at = "staged"
            /\ x.phase = "checking_seek" => s.pos = 1
            /\ x.phase = "checking_modal_state" => s.modal

\* _begin_return()
Return(x, s, profile) ==
    IF x.idle /\ ~s.zref THEN "setting_z_reference"
    ELSE IF profile.prime /\ ~x.primed THEN "priming_nozzle" ELSE "returning"

\* The stage that follows a status that passed.
Onward(x, s, profile) ==
    CASE x.phase = "checking" ->
            IF s.state = "printing" THEN "pausing"
            ELSE IF s.state = "paused" THEN "heating_and_waiting" ELSE "loading_file"
      [] x.phase = "checking_pause" -> "rechecking_source"
      [] x.phase \in {"checking_after_pause", "checking_loaded_file"} -> "heating_and_waiting"
      [] x.phase = "checking_temperature" ->
            IF x.idle THEN Return(x, s, profile) ELSE "restore_state"
      [] x.phase \in {"checking_restored_state", "checking_z_reference", "checking_prime"} ->
            Return(x, s, profile)
      [] x.phase = "checking_return" -> "seeking"
      [] x.phase = "checking_seek" -> "restoring_modal_state"
      [] x.phase = "checking_modal_state" ->
            IF profile.finish /\ ~x.idle THEN "finishing_pause" ELSE "resuming"
      [] OTHER -> "resuming"

\* The status handlers.  fit: whether the details left out here (handlers,
\* limits, temperatures, the reviewed route) are acceptable.
Judged(x, s, fit, profile) ==
    LET y == [x EXCEPT !.primed = @ \/ x.phase = "checking_prime",
                       !.idle   = @ \/ (x.phase = "checking" /\ s.state = "idle")]
    IN  IF x.cancelled THEN Finished(x, "cancelled")
        ELSE IF ~(fit /\ Gate(x, s))
             THEN Finished(x, IF x.phase \in {"checking_pause", "checking_resume"}
                              THEN "uncertain" ELSE "refused")
        ELSE IF x.phase = "checking_resume" THEN Finished(x, "complete")
        ELSE Entered(y, Onward(y, s, profile))

-----------------------------------------------------------------------------
(* Scripts.                                                                *)

\* The stage a script's handler enters when it went through.
AfterScript ==
    [stage \in Scripts |->
        CASE stage = "pausing" -> "waiting_for_motion"
          [] stage = "waiting_for_motion" -> "checking_pause"
          [] stage = "loading_file" -> "checking_loaded_file"
          [] stage = "heating_and_waiting" -> "checking_temperature"
          [] stage = "restore_state" -> "checking_restored_state"
          [] stage = "setting_z_reference" -> "checking_z_reference"
          [] stage = "priming_nozzle" -> "checking_prime"
          [] stage = "returning" -> "checking_return"
          [] stage = "seeking" -> "checking_seek"
          [] stage = "restoring_modal_state" -> "checking_modal_state"
          [] stage = "finishing_pause" -> "checking_pause_cleanup"
          [] OTHER -> "checking_resume"]

\* The printer accepts M23, M26 and M24 only while the SD worker is stopped,
\* and M24 only with a file.
Runs(p, script) ==
    /\ script.stage \in {"loading_file", "seeking", "resuming"} => p.state # "printing"
    /\ script.stage = "resuming" => p.mine

\* What a script does to the printer.
Effect(p, script) ==
    CASE script.stage = "pausing" ->
            [p EXCEPT !.state = IF @ = "printing" THEN "paused" ELSE @, !.held = TRUE,
                      !.at = "away"]
      [] script.stage = "loading_file" ->
            [p EXCEPT !.state = "idle", !.mine = TRUE, !.pos = 0]
      [] script.stage = "heating_and_waiting" -> [p EXCEPT !.hot = TRUE]
      [] script.stage = "setting_z_reference" -> [p EXCEPT !.zref = TRUE]
      [] script.stage = "priming_nozzle" -> [p EXCEPT !.at = "prime", !.modal = FALSE]
      [] script.stage = "returning" -> [p EXCEPT !.at = "staged", !.modal = FALSE]
      [] script.stage = "seeking" -> [p EXCEPT !.pos = 1]
      [] script.stage = "restoring_modal_state" -> [p EXCEPT !.modal = TRUE]
      [] script.stage = "resuming" ->
            [p EXCEPT !.state = "printing", !.held = @ /\ script.idle, !.at = "part"]
      [] OTHER -> p
================================================================================
