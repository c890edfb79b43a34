------------------------------ MODULE CommandLane ------------------------------
(***************************************************************************)
(* Commands and their confirmation: the Monitor's one-shot command lane    *)
(* (MonitorCommands), the scheduled-PAUSE controller (PauseController) and *)
(* the part of MoonrakerClient that admits status frames and settles       *)
(* commands, over the shared CommandTracker.                               *)
(*                                                                         *)
(* Everything runs on the one UI thread: a step is one event handler with  *)
(* every signal it delivers synchronously.  A handler that emits           *)
(* commandChanged therefore carries the lane's and the pause controller's  *)
(* reaction, the queue pump and the dispatch of the next command.  The     *)
(* refresh a handler forces at its end is the next AdmitFrame step.        *)
(***************************************************************************)
EXTENDS CommandTracker, Integers, Sequences, FiniteSets

CONSTANTS Layers,      \* zero-based layers a PAUSE can be scheduled for
          Jobs,        \* identities of prints
          MaxQueued,   \* MAX_QUEUED_COMMANDS
          MaxSent      \* bound: posts of the lane in one behaviour

ASSUME LayersAssumption == Layers \subseteq Nat /\ IsFiniteSet(Layers)
ASSUME BoundAssumption  == MaxQueued \in Nat /\ MaxSent \in Nat

NoLayer   == -1
NoJob     == "no job"
Untracked == "untracked"     \* _tracked is the empty string
ASSUME JobsAssumption == NoJob \notin Jobs

\* One-shots: "gated" carries a permission rule that refuses an active print
\* (can_restart), "free" carries none.
OneShots == {"gated", "free"}
Posts    == [id : Nat, label : LaneCommands \cup OneShots]
NoPost   == [id |-> 0, label |-> "free"]
Queues   == Seq(OneShots)

VARIABLES
    cmds,       \* the tracker's table
    snap,       \* the session snapshot's print_stats.state
    assumed,    \* assume_print_stopped
    connected,  \* the client's connection
    active,     \* MonitorData's runtime is armed
    obs,        \* the state in MonitorData's observation record
    lane,       \* MonitorCommands and its transport channel "control"
    pauses      \* PauseController and its transport channel "scheduled"

vars == <<cmds, snap, assumed, connected, active, obs, lane, pauses>>

Lanes == [busy     : BOOLEAN,
          tracked  : LaneCommands \cup {Untracked},
          dispatch : Nat,                  \* _dispatch_id; 0 is an id no post carries
          queue    : Queues,
          wire     : Posts,                \* the outstanding POST of the channel
          sent     : Nat]

PauseStates == {"none", "fired", "passed", "failed", "timed_out"}
Controllers == [job     : Jobs \cup {NoJob},
                layers  : SUBSET Layers,
                current : Nat \cup {NoLayer},
                target  : Layers \cup {NoLayer},
                states  : [Layers -> PauseStates],
                out     : BOOLEAN,         \* the PAUSE's POST is outstanding
                posts   : [Layers -> Nat], \* ghost: PAUSEs fired for this entry
                covered : SUBSET Layers]   \* ghost: crossed together with a fired target

IdleLane   == [busy |-> FALSE, tracked |-> Untracked, dispatch |-> 0, queue |-> <<>>,
               wire |-> NoPost, sent |-> 0]
Unbound(j) == [job |-> j, layers |-> {}, current |-> NoLayer, target |-> NoLayer,
               states |-> [l \in Layers |-> "none"], out |-> FALSE,
               posts |-> [l \in Layers |-> 0], covered |-> {}]

Init ==
    /\ cmds = [n \in Names |-> NoCommand]
    /\ snap = NoState
    /\ assumed = FALSE
    /\ connected = FALSE
    /\ active = TRUE
    /\ obs = NoState
    /\ lane = IdleLane
    /\ pauses = Unbound(NoJob)

-----------------------------------------------------------------------------
(* MonitorCommands: the lane.                                              *)

\* The verdict of a one-shot's rule on an observation of a connected printer.
Allowed(shot, state, online) ==
    shot = "free" \/ (online /\ state \notin Active \cup {NoState})

\* send(), when the transport takes the POST.
Sent(L, label) ==
    [L EXCEPT !.busy = TRUE, !.tracked = IF label \in LaneCommands THEN label ELSE Untracked,
              !.sent = @ + 1, !.dispatch = L.sent + 1,
              !.wire = [id |-> L.sent + 1, label |-> label]]

\* Mutant of Pumped: the head is sent on the strength of its click.
SendsUnchecked(L, state, online) ==
    IF L.queue = <<>> THEN L
    ELSE IF L.wire # NoPost THEN [L EXCEPT !.queue = <<>>, !.dispatch = 0]
    ELSE Sent([L EXCEPT !.queue = Tail(@)], Head(L.queue))

\* _pump_queue() on an idle lane: denied entries are dropped up to the first
\* allowed one, which is sent.  While the channel still carries an earlier
\* POST the transport refuses each send at once, and each refusal pumps on:
\* the queue drains with nothing sent.
Pumped(L, state, online) ==
    LET allowed == {i \in DOMAIN L.queue : Allowed(L.queue[i], state, online)}
        first   == CHOOSE i \in allowed : \A k \in allowed : i <= k
    IN  IF allowed = {} THEN [L EXCEPT !.queue = <<>>]
        ELSE IF L.wire # NoPost THEN [L EXCEPT !.queue = <<>>, !.dispatch = 0]
        ELSE Sent([L EXCEPT !.queue = SubSeq(L.queue, first + 1, Len(L.queue))],
                  L.queue[first])

\* busy is lowered and the queue pumped
Released(L, state, online) ==
    Pumped([L EXCEPT !.busy = FALSE, !.tracked = Untracked], state, online)

\* _command_changed(): the lane listens for the terminal event of the command
\* it dispatched, by name and by id.  E is the set of names emitted.
LaneHears(L, table, E, state, online) ==
    IF /\ L.tracked \in E
       /\ table[L.tracked].id = L.dispatch
       /\ ~Live(table[L.tracked])
    THEN Released(L, state, online)
    ELSE L

\* Mutant of Cleared: the busy gate stays shut.
ClearsQueueOnly(L) == [L EXCEPT !.tracked = Untracked, !.dispatch = 0, !.queue = <<>>]

\* reset()
Cleared(L) == [L EXCEPT !.busy = FALSE, !.tracked = Untracked, !.dispatch = 0, !.queue = <<>>]

-----------------------------------------------------------------------------
(* PauseController.                                                        *)

\* bind(): a change of job retires everything, the outstanding POST too.
Bound(P, j) == IF j = P.job THEN P ELSE Unbound(j)

Removed(P, l) == [P EXCEPT !.layers = @ \ {l}, !.states[l] = "none", !.posts[l] = 0,
                           !.covered = @ \ {l}]

\* Mutant of PauseHears: the tracker's word is kept as the layer's state.
KeepsOutcome(P, table, E) ==
    IF Scheduled \in E /\ P.target # NoLayer /\ ~Live(table[Scheduled])
    THEN [P EXCEPT !.states[P.target] = table[Scheduled].outcome, !.target = NoLayer]
    ELSE P

\* _command_changed(): a verdict goes to the layer in flight.
PauseHears(P, table, E) ==
    IF Scheduled \in E /\ P.target # NoLayer /\ ~Live(table[Scheduled])
    THEN [P EXCEPT !.states[P.target] = IF table[Scheduled].outcome = "confirmed"
                                        THEN "passed" ELSE table[Scheduled].outcome,
                   !.target = NoLayer]
    ELSE P

\* Mutant of Due: layers that fired before are due again.
DueAgain(P, current) == {l \in P.layers : l < current}

\* The layers whose end has been crossed and that have no lifecycle state yet.
Due(P, current) == {l \in P.layers : l < current /\ P.states[l] = "none"}

\* observe(): whether it fires, and the layer it fires for.
Fires(P, current, raw) ==
    /\ current # NoLayer
    /\ P.job # NoJob
    /\ Due(P, current) # {}
    /\ P.target = NoLayer
    /\ raw \in Active \cup {NoState}
Target(P, current) == CHOOSE l \in Due(P, current) : \A k \in Due(P, current) : l <= k

\* The controller after it fired; refused at once if its POST is still out.
Fired(P, current) ==
    LET l == Target(P, current)
    IN  [P EXCEPT !.states[l] = IF P.out THEN "failed" ELSE "fired",
                  !.target    = IF P.out THEN NoLayer ELSE l,
                  !.out       = TRUE,
                  !.posts[l]  = @ + 1,
                  !.covered   = @ \cup (Due(P, current) \ {l})]

-----------------------------------------------------------------------------
(* User actions.                                                           *)

\* The row of the policy table behind each tracked button.
MayPress(n) ==
    /\ connected
    /\ CASE n = "Pause"  -> obs = "printing" /\ ~assumed
         [] n = "Resume" -> obs \in Active /\ ~assumed
         [] OTHER        -> obs \in Active

\* pausePrint(), resumePrint(), cancelPrint(): send() of a tracked command.  A
\* POST the transport refuses (an earlier one still holds the channel) fails
\* the command at once.
Press(n) ==
    /\ active /\ ~lane.busy /\ MayPress(n)
    /\ lane.sent < MaxSent
    /\ IF lane.wire = NoPost
       THEN /\ lane' = Sent(lane, n)
            /\ cmds' = [cmds EXCEPT ![n] = Issued(n, lane.sent + 1, snap)]
       ELSE /\ lane' = [lane EXCEPT !.dispatch = 0]
            /\ cmds' = [cmds EXCEPT ![n] = Failed(Issued(n, 0, snap))]
    /\ UNCHANGED <<snap, assumed, connected, active, obs, pauses>>

\* request() of a one-shot: sent now, or queued behind the one in flight.
Request(shot) ==
    /\ active
    /\ Allowed(shot, obs, connected)
    /\ lane.sent + Len(lane.queue) < MaxSent
    /\ IF lane.busy
       THEN /\ Len(lane.queue) < MaxQueued
            /\ lane' = [lane EXCEPT !.queue = Append(@, shot)]
       ELSE lane' = IF lane.wire = NoPost THEN Sent(lane, shot)
                    ELSE [lane EXCEPT !.dispatch = 0]
    /\ UNCHANGED <<cmds, snap, assumed, connected, active, obs, pauses>>

\* toggle() and remove()
TogglePause(l) ==
    /\ IF l \in pauses.layers
       THEN pauses' = Removed(pauses, l)
       ELSE /\ pauses.job # NoJob
            /\ pauses.current # NoLayer
            /\ l >= pauses.current
            /\ pauses' = [pauses EXCEPT !.layers = @ \cup {l}]
    /\ UNCHANGED <<cmds, snap, assumed, connected, active, obs, lane>>

\* clear()
ClearPauses ==
    /\ pauses.layers # {}
    /\ pauses' = [pauses EXCEPT !.layers = {}, !.states = [l \in Layers |-> "none"],
                                !.posts = [l \in Layers |-> 0], !.covered = {}]
    /\ UNCHANGED <<cmds, snap, assumed, connected, active, obs, lane>>

\* _fire_emergency() and assume_print_stopped(): the cached print reads as
\* cancelled at once, and the lane is reset.
EmergencyStop ==
    /\ active
    /\ assumed' = TRUE
    /\ LET announced == ~assumed /\ snap \in Active
       IN  /\ obs'    = IF announced THEN "cancelled" ELSE obs
           /\ pauses' = IF announced THEN Bound(pauses, NoJob) ELSE pauses
    /\ lane' = Cleared(lane)
    /\ UNCHANGED <<cmds, snap, connected, active>>

-----------------------------------------------------------------------------
(* Replies.                                                                *)

\* accept_command(): a command that a frame has overtaken is observed again, on
\* the cached state and with every other command.
Reobserved(n) ==
    LET taken == [cmds EXCEPT ![n] = Accepted(@)]
    IN  IF Live(taken[n]) /\ taken[n].merged THEN Observed(taken, snap) ELSE taken

\* Of the commands this closes, one event is emitted.
AcceptCommand(n, L, P) ==
    LET table  == Reobserved(n)
        closed == Closed(cmds, table)
    IN  \E e \in IF closed = {} THEN {n} ELSE closed :
            /\ cmds'   = Unheard(table, closed \ {e})
            /\ lane'   = LaneHears(L, table, {e}, obs, connected)
            /\ pauses' = PauseHears(P, table, {e})

\* finished() of send(): a reply of another dispatch is dropped.
ControlReply(ok) ==
    /\ lane.wire # NoPost
    /\ LET w == lane.wire
           L == [lane EXCEPT !.wire = NoPost]
       IN  \/ /\ w.id # lane.dispatch
              /\ lane' = L
              /\ UNCHANGED <<cmds, pauses>>
           \/ /\ w.id = lane.dispatch
              /\ w.label \in OneShots \/ ~ok
              /\ lane' = Released(L, obs, connected)
              /\ cmds' = IF w.label \in LaneCommands
                         THEN [cmds EXCEPT ![w.label] = IF @.id = w.id THEN Failed(@) ELSE @]
                         ELSE cmds
              /\ UNCHANGED pauses
           \/ /\ w.id = lane.dispatch
              /\ w.label \in LaneCommands /\ ok
              /\ IF cmds[w.label].id = w.id
                 THEN AcceptCommand(w.label, L, pauses)
                 ELSE lane' = L /\ UNCHANGED <<cmds, pauses>>
    /\ UNCHANGED <<snap, assumed, connected, active, obs>>

\* finished() of the scheduled PAUSE.  Its tracker calls carry no command id.
PauseReply(ok) ==
    /\ pauses.out
    /\ LET P == [pauses EXCEPT !.out = FALSE]
       IN  IF ok THEN AcceptCommand(Scheduled, lane, P)
           ELSE /\ cmds'   = [cmds EXCEPT ![Scheduled] = Failed(@)]
                /\ pauses' = PauseHears(P, cmds', {Scheduled})
                /\ UNCHANGED lane
    /\ UNCHANGED <<snap, assumed, connected, active, obs>>

\* The console reads "resume aborted": settle_command("Resume"), by name only.
SettleResume ==
    /\ "Resume" \in LaneCommands
    /\ Live(cmds["Resume"])
    /\ cmds' = [cmds EXCEPT !["Resume"] = Settled(@)]
    /\ lane' = LaneHears(lane, cmds', {"Resume"}, obs, connected)
    /\ UNCHANGED <<snap, assumed, connected, active, obs, pauses>>

-----------------------------------------------------------------------------
(* Time and the feed.                                                      *)

\* A command's deadline passes.
DeadlinePasses(n) ==
    /\ Live(cmds[n]) /\ ~cmds[n].overdue
    /\ cmds' = [cmds EXCEPT ![n].overdue = TRUE]
    /\ UNCHANGED <<snap, assumed, connected, active, obs, lane, pauses>>

\* The tick of the command timer: expire_commands().
ExpireCommands ==
    LET table  == Observed(cmds, NoState)
        closed == Closed(cmds, table)
    IN  /\ closed # {}
        /\ cmds'   = table
        /\ lane'   = LaneHears(lane, table, closed, obs, connected)
        /\ pauses' = PauseHears(pauses, table, closed)
        /\ UNCHANGED <<snap, assumed, connected, active, obs>>

\* _admit_status(): merge and observe; rewrite under the emergency assumption;
\* restart arming, whose events precede the publication; the publication
\* (MonitorData, then PrintCoordinator: bind the job, observe the layer); last,
\* the events of the commands the merge closed.
AdmitFrame(reading, lower, job, layer) ==
    LET raw      == IF reading = NoState THEN snap ELSE reading
        merged   == Observed(Merged(cmds, reading), reading)
        closed   == Closed(cmds, merged)
        stopped  == assumed /\ raw \in Active /\ ~lower
        shown    == IF stopped THEN "cancelled" ELSE raw
        arming   == snap \notin Active /\ shown \in Active
        stale    == IF arming THEN Pending(merged) ELSE {}
        table    == IF arming THEN Superseded(merged) ELSE merged
        lane1    == LaneHears(lane, table, stale, obs, TRUE)
        bound    == Bound(PauseHears(pauses, table, stale),
                          IF shown \in Active THEN job ELSE NoJob)
        seen     == IF shown \in Active THEN [bound EXCEPT !.current = layer] ELSE bound
        fires    == shown \in Active /\ Fires(seen, layer, raw)
    IN  /\ snap'      = raw
        /\ assumed'   = stopped
        /\ connected' = TRUE
        /\ active'    = TRUE
        /\ obs'       = shown
        /\ cmds'      = IF ~fires THEN table
                        ELSE [table EXCEPT ![Scheduled] =
                                IF seen.out THEN Failed(Issued(Scheduled, 0, raw))
                                ELSE Issued(Scheduled, 0, raw)]
        /\ lane'      = LaneHears(lane1, table, closed, shown, TRUE)
        /\ pauses'    = PauseHears(IF fires THEN Fired(seen, layer) ELSE seen, table, closed)

\* _handle_failure(): commands are left to their deadlines.
ConnectionLost ==
    /\ connected
    /\ connected' = FALSE
    /\ UNCHANGED <<cmds, snap, assumed, active, obs, lane, pauses>>

\* stop(): sessionInvalidated, then the session's reset.  A reconnect re-arms
\* the monitor at once, a rebind leaves that to the next connection.
InvalidateSession ==
    /\ cmds' = [n \in Names |-> NoCommand]
    /\ snap' = NoState
    /\ assumed' = FALSE
    /\ connected' = FALSE
    /\ active' \in BOOLEAN
    /\ obs' = NoState
    /\ lane' = [Cleared(lane) EXCEPT !.wire = NoPost]
    /\ pauses' = Bound(pauses, NoJob)

\* on_klippy_ready(): the previous print is definitely over.
KlippyReady ==
    /\ assumed
    /\ assumed' = FALSE
    /\ UNCHANGED <<cmds, snap, connected, active, obs, lane, pauses>>

-----------------------------------------------------------------------------
Observations == {NoLayer} \cup {l + d : l \in Layers, d \in {0, 1}}

Next ==
    \/ \E n \in LaneCommands : Press(n)
    \/ \E shot \in OneShots : Request(shot)
    \/ \E l \in Layers : TogglePause(l)
    \/ ClearPauses
    \/ EmergencyStop
    \/ \E ok \in BOOLEAN : ControlReply(ok)
    \/ \E ok \in BOOLEAN : PauseReply(ok)
    \/ SettleResume
    \/ \E n \in Names : DeadlinePasses(n)
    \/ ExpireCommands
    \/ \E reading \in Readings, lower \in {FALSE, assumed}, job \in Jobs \cup {NoJob}, layer \in Observations :
          AdmitFrame(reading, lower, job, layer)
    \/ ConnectionLost
    \/ InvalidateSession
    \/ KlippyReady

\* Every request ends (a reply or the transfer timeout), time passes, and the
\* command timer keeps ticking while a command is pending.
Fairness ==
    /\ WF_vars(\E ok \in BOOLEAN : ControlReply(ok))
    /\ \A n \in Names : WF_vars(DeadlinePasses(n))
    /\ WF_vars(ExpireCommands)

Spec     == Init /\ [][Next]_vars
FairSpec == Spec /\ Fairness

-----------------------------------------------------------------------------
(* Properties.                                                             *)

\* The variables stay in their types.
TypeOK ==
    /\ cmds \in [Names -> Commands]
    /\ snap \in Readings
    /\ obs \in Readings
    /\ assumed \in BOOLEAN /\ connected \in BOOLEAN /\ active \in BOOLEAN
    /\ lane \in Lanes
    /\ pauses \in Controllers

\* A command the printer's state confirmed had been accepted, and the expected
\* state was reported after it was issued; for Resume and the scheduled PAUSE,
\* which may be issued while their expected state is cached, that cached state
\* is the only other evidence.  No order of frames, replies, re-observations
\* and emergency stops confirms a Pause or a Cancel on a state from before it.
ConfirmedHonestly ==
    \A n \in Names :
        LET c == cmds[n]
        IN  c.outcome = "confirmed" /\ ~c.settled
              => /\ c.accepted
                 /\ c.fresh \/ (n \in {"Resume", Scheduled} /\ c.atIssue)

\* Nothing waits behind an idle lane: every way the lane is released, whoever
\* releases it, pumps the queue.
IdleLaneIsEmpty == ~lane.busy => lane.queue = <<>> /\ lane.tracked = Untracked

\* A busy lane waits for something that will still release it: its own POST
\* when untracked, a live entry with its own id when tracked; any outstanding
\* POST is its own.  The one way out of this is a verdict nobody announced.
BusyLaneWaits ==
    lane.busy =>
        /\ lane.wire # NoPost => lane.wire.id = lane.dispatch
        /\ IF lane.tracked = Untracked THEN lane.wire # NoPost
           ELSE /\ cmds[lane.tracked].id = lane.dispatch
                /\ Live(cmds[lane.tracked]) \/ cmds[lane.tracked].unheard

\* A scheduled layer fires one PAUSE in its life, through failures, missed
\* deadlines, superseded prints and PAUSEs whose POST is still out.
OnePausePerEntry == \A l \in Layers : pauses.posts[l] <= 1

\* A lane command confirmed by the printer's state keeps that verdict until it
\* is issued again or the session ends: no late reply, deadline or new print
\* relabels it.
VerdictStands ==
    [][\A n \in LaneCommands :
          /\ cmds[n].outcome = "confirmed" /\ ~cmds[n].settled
          /\ cmds'[n].id = cmds[n].id
          => cmds'[n].outcome = "confirmed"]_vars

\* A gated one-shot reaches the wire only in a step whose observation, before or
\* after, lets it: also when it waited in the queue while a print started.
GatedShotsRevalidated ==
    [][lane'.wire # lane.wire /\ lane'.wire.label = "gated"
          => Allowed("gated", obs, TRUE) \/ Allowed("gated", obs', TRUE)]_vars

\* Each dispatch of the lane ends: busy is released, or handed to the next,
\* unless the verdict it waits for was reached without an event.
Holds(i)  == lane.busy /\ lane.dispatch = i
Wedged(i) == Holds(i) /\ lane.tracked # Untracked /\ cmds[lane.tracked].unheard
LaneReleases == \A i \in 1..MaxSent : Holds(i) ~> ~Holds(i) \/ Wedged(i)
=============================================================================
