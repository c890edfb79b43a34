----------------------------- MODULE ToolheadQueue -----------------------------
(***************************************************************************)
(* The queue of manual toolhead moves (ToolheadController) on top of the   *)
(* command lane: the pause a move asks for, the fresh state it is checked  *)
(* against, its place behind other commands, and everything that drops it. *)
(*                                                                         *)
(* Everything runs on the one UI thread: a step is one event handler with  *)
(* every signal it delivers synchronously.  W is the state a handler       *)
(* passes on: the printer's scripts p, the lane l, the queue j and the     *)
(* query c; s is the status the client has seen.  While the queue          *)
(* dispatches, its guards turn the pumps nested in send() into no-ops.     *)
(***************************************************************************)
EXTENDS Naturals, Sequences

CONSTANTS MaxPending,   \* MAX_PENDING_OPS
          MaxQueued,    \* MAX_QUEUED_COMMANDS
          MaxPush,      \* bounds of the model: operations pushed, other commands
          MaxPress,     \* pressed, and what happens beside the queue: other
          MaxMeddle     \* clients' acts, locks, emergency stops, lost sessions

ASSUME BoundsAssumption ==
    /\ MaxPending \in Nat \ {0} /\ MaxQueued \in Nat
    /\ MaxPush \in Nat /\ MaxPress \in Nat /\ MaxMeddle \in Nat

VARIABLES
    printer, \* Klipper: the print, and the scripts it has not run yet
    seen,    \* MonitorData's observation
    lane,    \* MonitorCommands and its channel "control"
    jog,     \* ToolheadController
    check,   \* its query of the fresh state, and the channel it is on
    spent    \* of the bounds

queueVars == <<printer, seen, lane, jog, check, spent>>

Active == {"printing", "paused"}
PrinterStates == {"idle"} \cup Active     \* idle: standby, complete, cancelled, error
Kinds  == {"jog", "idle", "offset"}        \* idle: calibrations, motors off, idle-only homes
Labels == {"move", "offset", "shot", "Pause"}
Ops    == [kind : Kinds, n : 1..MaxPush]

Printers == [state : PrinterStates, inbox : Seq(Labels)]
Views    == [state : PrinterStates \cup {"unknown"},
             open : BOOLEAN,               \* connected, active, controls not locked
             assumed : BOOLEAN]            \* the print is assumed stopped
Lanes    == [label : Labels \cup {"none"}, \* the command _busy stands for
             accepted : BOOLEAN,
             shots : 0..MaxQueued,
             wire : {"none", "out", "old"},             \* its POST; an old one has no owner
             script : {"none", "waiting", "ran", "lost"}]
Queues   == [ops : Seq(Ops), waiting : BOOLEAN, inFlight : BOOLEAN, draining : BOOLEAN,
             deadline : BOOLEAN]           \* the ten seconds a pause may take

\* What the printer answered: the print's state; whether scripts waited then, one
\* of them with its POST still out; and (ghost) whether one has arrived since.
Replies == [state : PrinterStates, behind : BOOLEAN, owed : BOOLEAN, since : BOOLEAN]
NoReply == [state |-> "idle", behind |-> FALSE, owed |-> FALSE, since |-> FALSE]
Checks  == [out : BOOLEAN,                 \* the request is outstanding
            live : BOOLEAN,                \* _querying, for its token
            op : 0..MaxPush,               \* the operation it is about
            same : BOOLEAN,                \* the lane's revision is that of its start
            served : BOOLEAN, reply : Replies]

IdleLane   == [label |-> "none", accepted |-> FALSE, shots |-> 0, wire |-> "none",
               script |-> "none"]
EmptyQueue == [ops |-> <<>>, waiting |-> FALSE, inFlight |-> FALSE, draining |-> FALSE,
               deadline |-> FALSE]
NoCheck    == [out |-> FALSE, live |-> FALSE, op |-> 0, same |-> FALSE, served |-> FALSE,
               reply |-> NoReply]

QueueInit ==
    /\ printer = [state |-> "printing", inbox |-> <<>>]
    /\ seen = [state |-> "unknown", open |-> FALSE, assumed |-> FALSE]
    /\ lane = IdleLane /\ jog = EmptyQueue /\ check = NoCheck
    /\ spent = [push |-> 0, press |-> 0, meddle |-> 0]

Now    == [p |-> printer, l |-> lane, j |-> jog, c |-> check]
Set(W) == printer' = W.p /\ lane' = W.l /\ jog' = W.j /\ check' = W.c

Spend(b, max) == spent[b] < max /\ spent' = [spent EXCEPT ![b] = @ + 1]

-----------------------------------------------------------------------------
(* What a handler is made of.                                              *)

Busy(W) == W.l.label # "none"

\* can_jog, can_restart and can_z_offset.
Gate(kind, s) ==
    IF ~s.open \/ s.state = "unknown" THEN "disabled"
    ELSE CASE kind = "idle" /\ s.state \in Active  -> "disabled"
           [] kind = "jog" /\ s.state = "printing" -> "pause-first"
           [] OTHER                                -> "allowed"

\* Mutant of Hears: every terminal event is taken for a confirmation.
AnyVerdict(W, confirmed) ==
    IF ~W.j.waiting /\ ~W.j.inFlight THEN W ELSE [W EXCEPT !.j.deadline = FALSE]

\* _command_changed() of the queue, for the terminal event of a Pause.
Hears(W, confirmed) ==
    IF ~W.j.waiting /\ ~W.j.inFlight THEN W
    ELSE IF confirmed THEN [W EXCEPT !.j.deadline = FALSE]
    ELSE [W EXCEPT !.j = EmptyQueue]

\* send() on an idle lane: the POST goes out, or its channel is still taken and
\* the lane is free again before send() returns; a refused Pause has been heard.
Sends(W) == W.l.wire = "none"
Send(W, label) ==
    IF Sends(W)
    THEN [W EXCEPT !.l.label = label, !.l.accepted = FALSE, !.l.wire = "out",
                   !.l.script = "waiting",
                   !.p.inbox = Append(@, label),
                   !.c.same = FALSE, !.c.reply.since = @ \/ W.c.served]
    ELSE LET R == [W EXCEPT !.c.same = FALSE] IN IF label = "Pause" THEN Hears(R, FALSE) ELSE R

\* What Send() leaves in the queue when its head went out.
Popped(W) == [W EXCEPT !.j.ops = Tail(@), !.j.draining = TRUE]

\* A query that gives up cancels every move.
Cancelled(W) == [W EXCEPT !.j.ops = <<>>, !.c.live = FALSE]

\* _check_dispatch(): a channel that still carries an expired query refuses.
Query(W) ==
    IF W.c.out THEN [Cancelled(W) EXCEPT !.j.draining = FALSE]
    ELSE [W EXCEPT !.c = [NoCheck EXCEPT !.out = TRUE, !.live = TRUE, !.same = TRUE,
                                         !.op = Head(W.j.ops).n]]

\* The pause a move needs: asked for once, when the lane is free.
PauseFirst(W) ==
    IF W.j.draining /\ ~W.j.waiting THEN [W EXCEPT !.j.ops = <<>>, !.j.draining = FALSE]
    ELSE LET A == IF W.j.waiting THEN W ELSE [W EXCEPT !.j.waiting = TRUE, !.j.deadline = TRUE]
         IN  CASE A.j.inFlight \/ Busy(A) -> A
               [] OTHER -> IF Sends(A) THEN [Send(A, "Pause") EXCEPT !.j.inFlight = TRUE]
                           ELSE Send(A, "Pause")

Dispatch(W) ==
    LET A == [W EXCEPT !.j.waiting = FALSE, !.j.inFlight = FALSE, !.j.deadline = FALSE]
    IN  CASE Busy(A)                                          -> A
          [] ~Busy(A) /\ Head(A.j.ops).kind # "offset"        -> Query(A)
          [] ~Busy(A) /\ Head(A.j.ops).kind = "offset"        ->
                 IF Sends(A) THEN [Popped(Send(A, "offset")) EXCEPT !.j.draining = Len(A.j.ops) > 1]
                 ELSE Send(A, "offset")

\* _pump()
Pump(W, s) ==
    LET gate == Gate(Head(W.j.ops).kind, s)
    IN  CASE W.c.live                    -> W
          [] ~W.c.live /\ W.j.ops = <<>> -> [W EXCEPT !.j = EmptyQueue]
          [] OTHER -> CASE gate = "disabled"    -> [W EXCEPT !.j = EmptyQueue]
                        [] gate = "pause-first" -> PauseFirst(W)
                        [] gate = "allowed"     -> Dispatch(W)

\* _pump_queue(): the lane's own commands; a refused one pumps on.
NextShot(W) ==
    IF W.l.shots = 0 \/ Busy(W) THEN W
    ELSE IF Sends(W) THEN Send([W EXCEPT !.l.shots = @ - 1], "shot")
    ELSE Send([W EXCEPT !.l.shots = 0], "shot")

\* An idle lane no longer cares for the POST that may still be out.
Freed(W) == [W EXCEPT !.l.label = "none", !.l.accepted = FALSE,
                      !.l.wire = IF @ = "out" THEN "old" ELSE @]

\* The lane at the end of a command it does not track: its own queue goes first.
Released(W, s) == Pump(NextShot(Freed(W)), s)

\* The terminal event of the lane's Pause: the lane announces that it is idle,
\* then sends its next command, and only then the queue hears of the event.
Settled(W, s, confirmed) == Hears(NextShot(Pump(Freed(W), s)), confirmed)

\* finished() of a Pause that this settles.
Concluded(W, s, confirmed) ==
    LET A == Settled(W, s, confirmed) IN IF Busy(A) THEN A ELSE Pump(A, s)

\* _reset(): what is still on the wire has lost its owner.
Reset(W) ==
    [W EXCEPT !.j = EmptyQueue, !.c.live = FALSE,
              !.l = [IdleLane EXCEPT !.wire = IF W.l.wire = "none" THEN "none" ELSE "old",
                                     !.script = W.l.script]]

-----------------------------------------------------------------------------
(* The user.                                                               *)

\* _push(): the newest of too many is refused.
Push(kind) ==
    /\ seen.open /\ Spend("push", MaxPush)
    /\ kind = "offset" => Gate(kind, seen) = "allowed" /\ lane.label = "none"
    /\ LET op == [kind |-> kind, n |-> spent.push + 1]
       IN  Set(Pump(IF Len(jog.ops) < MaxPending THEN [Now EXCEPT !.j.ops = Append(@, op)]
                    ELSE Now, seen))
    /\ UNCHANGED seen

\* A command of another pane: it queues behind the lane's.
PressShot ==
    /\ seen.open /\ Spend("press", MaxPress)
    /\ IF Busy(Now)
       THEN lane.shots < MaxQueued /\ lane' = [lane EXCEPT !.shots = @ + 1]
            /\ UNCHANGED <<printer, jog, check>>
       ELSE Set(Pump(Send(Now, "shot"), seen))
    /\ UNCHANGED seen

PressPause ==
    /\ seen.open /\ seen.state = "printing" /\ ~Busy(Now) /\ Spend("press", MaxPress)
    /\ Set(Pump(Send(Now, "Pause"), seen))
    /\ UNCHANGED seen

\* The press that locks the controls, and the one that unlocks them.
Lock == /\ seen.open /\ Spend("meddle", MaxMeddle)
        /\ seen' = [seen EXCEPT !.open = FALSE]
        /\ UNCHANGED <<printer, lane, jog, check>>

Open == /\ ~seen.open /\ seen' = [seen EXCEPT !.open = TRUE]
        /\ UNCHANGED <<printer, lane, jog, check, spent>>

\* _fire_emergency(): the print is assumed stopped, whether or not the printer
\* has heard of it.
EmergencyStop ==
    /\ seen.open /\ Spend("meddle", MaxMeddle)
    /\ LET s == [seen EXCEPT !.state = IF @ = "unknown" THEN @ ELSE "idle", !.assumed = TRUE]
           W == Reset(Pump(Now, s))
       IN  /\ seen' = s
           /\ \/ Set(W)
              \/ Set([W EXCEPT !.p = [state |-> "idle", inbox |-> <<>>],
                               !.l.script = IF @ = "waiting" THEN "lost" ELSE @])

-----------------------------------------------------------------------------
(* The network and the clock.                                              *)

\* The session ends with every request of the monitor.
SessionLost ==
    /\ Spend("meddle", MaxMeddle)
    /\ seen' = [state |-> "unknown", open |-> FALSE, assumed |-> FALSE]
    /\ Set([Now EXCEPT !.l = IdleLane, !.j = EmptyQueue, !.c = NoCheck])

\* A status frame: a new print retires the Pause of the one before; the frame is
\* published; the Pause it confirms is settled.
AdmitFrame ==
    /\ LET s == [seen EXCEPT !.state = IF seen.assumed /\ printer.state \in Active THEN "idle"
                                       ELSE printer.state,
                             !.assumed = @ /\ printer.state \in Active]
           confirms == lane.label = "Pause" /\ lane.accepted /\ printer.state = "paused"
           retires  == /\ lane.label = "Pause" /\ ~confirms /\ ~seen.assumed
                       /\ seen.state \notin Active /\ printer.state \in Active
           A == IF retires THEN Settled(Now, seen, FALSE) ELSE Now
           B == Pump(A, s)
       IN  seen' = s /\ Set(IF confirms THEN Settled(B, s, TRUE) ELSE B)
    /\ UNCHANGED spent

\* data.changed and posted calls of _pump().
Tick == Set(Pump(Now, seen)) /\ UNCHANGED <<seen, spent>>

\* finished() of the POST: an answer, or an error; with no owner it only frees
\* the channel.
Reply(ok) ==
    /\ lane.wire # "none" /\ (ok => lane.script = "ran")
    /\ LET W == [Now EXCEPT !.l.wire = "none", !.l.script = "none"]
       IN  CASE lane.wire = "old"    -> Set(W)
             [] lane.wire = "out" /\ lane.label # "Pause" -> Set(Released(W, seen))
             [] OTHER -> IF ok /\ seen.state # "paused"
                         THEN Set(Pump([W EXCEPT !.l.accepted = TRUE], seen))
                         ELSE Set(Concluded(W, seen, ok))
    /\ UNCHANGED <<seen, spent>>

\* The tracker's ten seconds for a Pause; its POST may take longer.
PauseExpires ==
    /\ lane.label = "Pause"
    /\ Set(Settled(Now, seen, FALSE))
    /\ UNCHANGED <<seen, spent>>

\* _pause_failed()
PauseFailed ==
    /\ jog.deadline
    /\ jog' = [jog EXCEPT !.ops = <<>>, !.waiting = FALSE, !.draining = FALSE,
                          !.deadline = FALSE]
    /\ UNCHANGED <<printer, seen, lane, check, spent>>

\* The answer is about the head, and the seen state or the fresh one forbids it.
Asks(W) == W.j.ops # <<>> /\ Head(W.j.ops).n = W.c.op
Forbidden(W, s) ==
    \E state \in {s.state, W.c.reply.state} :
        Gate(Head(W.j.ops).kind, [s EXCEPT !.state = state]) # "allowed"

\* Mutant of Checked: another command may have gone out since.
AnyRevision(W, s) ==
    LET A == [W EXCEPT !.c = NoCheck]
    IN  IF ~Asks(W) THEN A
        ELSE IF Forbidden(W, s) THEN Cancelled(A)
        ELSE IF Busy(W) \/ ~Sends(W) THEN A
        ELSE [Popped(Send(A, "move")) EXCEPT !.c = NoCheck]

\* checked(): what becomes of the head, given the fresh state.
Checked(W, s) ==
    LET A == [W EXCEPT !.c = NoCheck]
    IN  IF ~Asks(W) THEN A
        ELSE IF Forbidden(W, s) THEN Cancelled(A)
        ELSE IF Busy(W) \/ ~W.c.same \/ ~Sends(W) THEN A
        ELSE [Popped(Send(A, "move")) EXCEPT !.c = NoCheck]

\* The answer to the query; nobody waits for one that has expired.
Answer ==
    /\ check.out /\ check.served
    /\ Set(IF check.live THEN Checked(Now, seen) ELSE [Now EXCEPT !.c = NoCheck])
    /\ UNCHANGED <<seen, spent>>

\* An error, an answer that is too old, or an endpoint out of the safe travel.
Refused ==
    /\ check.out
    /\ Set(IF check.live THEN Cancelled([Now EXCEPT !.c = NoCheck]) ELSE [Now EXCEPT !.c = NoCheck])
    /\ UNCHANGED <<seen, spent>>

\* _query_expired()
QueryExpires == check.live /\ Set(Cancelled(Now)) /\ UNCHANGED <<seen, spent>>

-----------------------------------------------------------------------------
(* The printer and its other clients.                                      *)

\* The printer reports its state and the planned endpoint.
Serve ==
    /\ check.out /\ ~check.served
    /\ check' = [check EXCEPT !.served = TRUE,
                              !.reply = [state |-> printer.state, since |-> FALSE,
                                         behind |-> printer.inbox # <<>>,
                                         owed |-> lane.wire = "out" /\ lane.script = "waiting"]]
    /\ UNCHANGED <<printer, seen, lane, jog, spent>>

\* Klipper runs one script at a time; the POST on the wire is the last of them.
Run ==
    /\ printer.inbox # <<>>
    /\ printer' = [state |-> IF Head(printer.inbox) = "Pause" /\ printer.state = "printing"
                             THEN "paused" ELSE printer.state,
                   inbox |-> Tail(printer.inbox)]
    /\ lane' = [lane EXCEPT !.script = IF @ = "waiting" /\ Len(printer.inbox) = 1 THEN "ran" ELSE @]
    /\ UNCHANGED <<seen, jog, check, spent>>

Lost ==
    /\ lane.script = "waiting" /\ Spend("meddle", MaxMeddle)
    /\ lane' = [lane EXCEPT !.script = "lost"]
    /\ printer' = [printer EXCEPT !.inbox = SubSeq(@, 1, Len(@) - 1)]
    /\ UNCHANGED <<seen, jog, check>>

Other ==
    /\ Spend("meddle", MaxMeddle)
    /\ \E state \in PrinterStates \ {printer.state} :
          /\ printer.state = "idle" => state = "printing"
          /\ printer' = [printer EXCEPT !.state = state]
    /\ UNCHANGED <<seen, lane, jog, check>>

QueueNext ==
    \/ (\E kind \in Kinds : Push(kind))
    \/ PressShot \/ PressPause \/ Lock \/ Open \/ EmergencyStop
    \/ SessionLost \/ AdmitFrame \/ Tick \/ (\E ok \in BOOLEAN : Reply(ok))
    \/ PauseExpires \/ PauseFailed \/ Answer \/ Refused \/ QueryExpires
    \/ Serve \/ Run \/ Lost \/ Other

QueueSpec == QueueInit /\ [][QueueNext]_queueVars

\* Frames keep coming, posted calls run, timers fire and requests end.
FairQueueSpec ==
    /\ QueueSpec
    /\ WF_queueVars(AdmitFrame) /\ WF_queueVars(Tick) /\ WF_queueVars(PauseFailed)
    /\ WF_queueVars(PauseExpires) /\ WF_queueVars(QueryExpires)
    /\ WF_queueVars(Reply(FALSE)) /\ WF_queueVars(Refused)

-----------------------------------------------------------------------------
(* What must hold.                                                         *)

\* Every field keeps its type; a Pause that is in flight or waited for belongs
\* to a move, and a live query to the head of the queue.
QueueTypeOK ==
    /\ printer \in Printers /\ seen \in Views /\ lane \in Lanes
    /\ jog \in Queues /\ Len(jog.ops) <= MaxPending
    /\ check \in Checks
    /\ jog.waiting => jog.ops # <<>>
    /\ check.live => check.out /\ jog.ops # <<>> /\ Head(jog.ops).n = check.op
    /\ lane.wire = "out" <=> (lane.label # "none" /\ ~lane.accepted)

\* A move is sent only on a fresh answer of a printer that was not printing, at
\* a moment when no command of ours was out, and none has been sent since.
MoveIsSent == /\ Len(printer'.inbox) > Len(printer.inbox)
              /\ printer'.inbox[Len(printer'.inbox)] = "move"
IsChecked  == /\ check.live /\ check.served /\ ~check.reply.owed /\ ~check.reply.since
              /\ check.reply.state # "printing" /\ seen.state # "printing" /\ seen.open
MovesAreChecked == [][MoveIsSent => IsChecked]_queueVars

\* Whatever happens meanwhile, the queue is worked off or dropped.
QueueSettles == jog.ops # <<>> ~> jog.ops = <<>>
================================================================================
