---------------------------- MODULE CommandTracker ----------------------------
(***************************************************************************)
(* The command tracker of one Moonraker session                            *)
(* (mpf/moonraker/MoonrakerSession.py, class CommandTracker): what became  *)
(* of each stateful command, HTTP acceptance kept apart from the printer   *)
(* state that confirms it.  The tracker is a table of one entry per        *)
(* command name, and the methods of the class are functions on entries and *)
(* on tables.                                                              *)
(*                                                                         *)
(* Abstractions.  A deadline is the flag "overdue", raised by time alone.  *)
(* The snapshot revision of issue time is the flag "merged": a status      *)
(* frame has been merged since.  Ghost fields of an entry: "fresh" (a      *)
(* frame reporting an expected state has been merged since issue),         *)
(* "atIssue" (the cached state was an expected one at issue) and "settled" *)
(* (closed by the printer's own words, not by a state) and "unheard" (its  *)
(* closing was never announced by a commandChanged event).                 *)
(***************************************************************************)
EXTENDS Naturals

CONSTANTS LaneCommands,   \* the stateful commands the Monitor lane sends
          PrinterStates   \* the values of print_stats.state that occur

\* The name under which PauseController tracks its PAUSE.
Scheduled == "ScheduledPause"

ASSUME LaneAssumption == LaneCommands \subseteq {"Pause", "Resume", "Cancel"}
ASSUME StateAssumption ==
    /\ {"printing", "paused", "cancelled"} \subseteq PrinterStates
    /\ PrinterStates \subseteq {"standby", "printing", "paused", "complete", "cancelled", "error"}

Names    == LaneCommands \cup {Scheduled}
NoState  == "none"                     \* no print_stats.state known or reported
Readings == PrinterStates \cup {NoState}
Active   == {"printing", "paused"}

\* The states that confirm a command.
Expected == [n \in Names |->
               CASE n = "Resume" -> {"printing"}
                 [] n = "Cancel" -> {"cancelled", "complete", "standby"}
                 [] OTHER        -> {"paused"}]

LiveOutcomes == {"pending", "accepted"}
Verdicts     == {"confirmed", "failed", "timed_out"}

Commands == [id       : Nat,
             accepted : BOOLEAN,
             outcome  : {"none"} \cup LiveOutcomes \cup Verdicts,
             overdue  : BOOLEAN,
             merged   : BOOLEAN,
             fresh    : BOOLEAN,
             atIssue  : BOOLEAN,
             settled  : BOOLEAN,
             unheard  : BOOLEAN]

NoCommand == [id |-> 0, accepted |-> FALSE, outcome |-> "none", overdue |-> FALSE,
              merged |-> FALSE, fresh |-> FALSE, atIssue |-> FALSE, settled |-> FALSE,
              unheard |-> FALSE]

\* Not terminal: still waiting for an answer or for a state.
Live(c)  == c.outcome \in LiveOutcomes
Pending(table) == {n \in Names : Live(table[n])}

-----------------------------------------------------------------------------
(* The methods of CommandTracker.                                          *)

\* issue(): a new entry, which replaces the one of that name.
Issued(n, i, cached) ==
    [NoCommand EXCEPT !.id = i, !.outcome = "pending", !.atIssue = cached \in Expected[n]]

\* accepted(): a terminal entry stays as it is.
Accepted(c) == IF Live(c) THEN [c EXCEPT !.accepted = TRUE, !.outcome = "accepted"] ELSE c

\* failed(): whatever the outcome was, a terminal one included.
Failed(c) == [c EXCEPT !.outcome = "failed"]

\* closed by an observation nobody is told of
Unheard(table, names) ==
    [n \in Names |-> IF n \in names THEN [table[n] EXCEPT !.unheard = TRUE] ELSE table[n]]

\* settled(): a benign end, never over another one.
Settled(c) == IF Live(c) THEN [c EXCEPT !.outcome = "confirmed", !.settled = TRUE] ELSE c

\* Mutant of ObservedEntry: HTTP acceptance is not asked for.
ConfirmsUnaccepted(c, n, reading) ==
    IF Live(c) /\ reading \in Expected[n] THEN [c EXCEPT !.outcome = "confirmed"] ELSE c

\* Mutant of ObservedEntry: the deadline ends with the acceptance.
AcceptedNeverExpires(c, n, reading) ==
    IF ~Live(c) THEN c
    ELSE IF c.accepted THEN IF reading \in Expected[n] THEN [c EXCEPT !.outcome = "confirmed"] ELSE c
    ELSE IF c.overdue THEN [c EXCEPT !.outcome = "timed_out"]
    ELSE c

\* observe(), one entry: an expected state confirms an accepted command, a
\* passed deadline times out any other.  expire() observes NoState.
ObservedEntry(c, n, reading) ==
    IF ~Live(c) THEN c
    ELSE IF c.accepted /\ reading \in Expected[n] THEN [c EXCEPT !.outcome = "confirmed"]
    ELSE IF c.overdue THEN [c EXCEPT !.outcome = "timed_out"]
    ELSE c

Observed(table, reading) == [n \in Names |-> ObservedEntry(table[n], n, reading)]

\* What observe() returns: the commands it made terminal.
Closed(before, after) == Pending(before) \ Pending(after)

\* Mutant of Superseded: terminal entries are relabelled too.
SupersedesVerdicts(table) ==
    [n \in Names |-> IF table[n].outcome = "none" THEN table[n] ELSE Failed(table[n])]

\* expire_non_terminal(): restart arming.
Superseded(table) == [n \in Names |-> IF Live(table[n]) THEN Failed(table[n]) ELSE table[n]]

\* merge_status(), before it observes: the revision moves on for every live
\* command, and only the frame's own state counts as fresh.
Merged(table, reading) ==
    [n \in Names |->
        IF Live(table[n])
        THEN [table[n] EXCEPT !.merged = TRUE, !.fresh = @ \/ reading \in Expected[n]]
        ELSE table[n]]
=============================================================================
