-------------------------- MODULE RecoveryController --------------------------
(***************************************************************************)
(* Interrupted-print recovery: RecoveryController with the attempt it runs *)
(* (RecoveryExecution), its one-thread executor, the four transport lanes  *)
(* it owns, the run identity of RemoteJobService that can end an attempt,  *)
(* and the printer, which other clients use too.                           *)
(*                                                                         *)
(* A step is one UI-thread handler, one executor job delivered, or one     *)
(* thing the printer does.  A request may be lost, answered late, or       *)
(* answered with an error although the printer runs it afterwards.         *)
(***************************************************************************)
EXTENDS RecoveryExecution, Sequences

CONSTANTS Offered,        \* the profiles a recovery may be prepared with
          MaxGeneration,  \* bound: generations in one behaviour
          MaxMeddles      \* bound: acts of other clients in one behaviour

ASSUME ProfilesAssumption == Offered \subseteq Profiles
ASSUME BoundsAssumption   == MaxGeneration \in Nat /\ MaxMeddles \in Nat

VARIABLES
    printer,   \* the printer
    klippy,    \* scripts Klipper has accepted and not run, in order
    exec,      \* the attempt
    ctl,       \* RecoveryController
    wires,     \* the transport's "recovery" lanes
    worker,    \* the executor's jobs, in order
    seen,      \* RemoteJobService: its key and last observation
    meddles,   \* acts of other clients so far
    verified,  \* ghost: the generation whose last status still describes the printer
    resumed    \* ghost: generations whose M24 the printer has run

vars == <<printer, klippy, exec, ctl, wires, worker, seen, meddles, verified, resumed>>

Settled == {"idle", "refused", "complete", "cancelled", "uncertain"}
Planning == {"planning", "checking_printer", "ready", "verifying_source",
             "checking_remote_file"}
Controllers == [phase    : Settled \cup Planning \cup Stages \cup {"cancelling"},
                gen      : Nat,
                source   : BOOLEAN,     \* _source is not None
                unloaded : BOOLEAN,     \* of the planned context
                profile  : Profiles,
                replan   : Nat]         \* the generation of _paused_replan_callback, or 0

\* A lane is free when its generation is 0.
Queries == [gen : Nat, stage : Checks, snap : SUBSET Printers]
Posts   == [gen : Nat, stage : Scripts, ran : {"waiting", "ran", "failed"}]
Lanes   == [profile : Nat, identity : Nat, status : Queries, script : Posts]
NoQuery == [gen |-> 0, stage |-> "checking", snap |-> {}]
NoPost  == [gen |-> 0, stage |-> "pausing", ran |-> "waiting"]
FreeLanes == [profile |-> 0, identity |-> 0, status |-> NoQuery, script |-> NoPost]

Entries == [gen : Nat, stage : Scripts, idle : BOOLEAN]
Tasks   == [job : {"plan", "verify", "replan"}, gen : Nat]
Running == {"printing", "paused"}
Jobs    == [key : {"none", "mine", "other"}, state : {"idle", "printing", "paused"},
            pos : Positions]
Unseen  == [key |-> "none", state |-> "idle", pos |-> 0]

Init ==
    /\ printer \in Printers
    /\ printer.held = (printer.state = "paused") /\ printer.mine = (printer.state # "idle")
    /\ printer.hot = FALSE /\ printer.at = "away" /\ printer.pos # 1
    /\ printer.zref = FALSE /\ printer.modal = FALSE
    /\ printer.state = "idle" => printer.pos = 0
    /\ klippy = <<>>
    /\ exec = NoAttempt
    /\ \E profile \in Offered :
          ctl = [phase |-> "idle", gen |-> 0, source |-> FALSE, unloaded |-> FALSE,
                 profile |-> profile, replan |-> 0]
    /\ wires = FreeLanes
    /\ worker = <<>>
    /\ seen = Unseen
    /\ meddles = 0
    /\ verified = 0
    /\ resumed = {}

-----------------------------------------------------------------------------
(* Helpers.                                                                *)

\* _query, _send: a lane that still carries a request refuses the next one.
Busy(x, W) == \/ x.phase \in Checks /\ W.status.gen # 0
              \/ x.phase \in Scripts /\ W.script.gen # 0

\* The attempt x, fresh from a handler, makes its next request over lanes W,
\* with the executor's jobs at J and the controller at C.
Carry(x, W, J, C) ==
    LET y == IF x.active /\ Busy(x, W) THEN Finished(x, "uncertain") ELSE x
        rechecks == y.active /\ y.phase = "rechecking_source"
    IN  /\ exec' = y
        /\ wires' = IF y.active /\ y.phase \in Checks
                    THEN [W EXCEPT !.status = [gen |-> y.gen, stage |-> y.phase, snap |-> {}]]
                    ELSE IF y.active /\ y.phase \in Scripts
                    THEN [W EXCEPT !.script = [gen |-> y.gen, stage |-> y.phase,
                                               ran |-> "waiting"]]
                    ELSE W
        /\ klippy' = IF y.active /\ y.phase \in Scripts
                     THEN Append(klippy, [gen |-> y.gen, stage |-> y.phase, idle |-> y.idle])
                     ELSE klippy
        /\ worker' = IF rechecks THEN Append(J, [job |-> "replan", gen |-> y.gen]) ELSE J
        /\ ctl' = [C EXCEPT !.phase = y.phase, !.replan = IF rechecks THEN y.gen ELSE @]

\* Mutant of Invalidated: the generation moves on without the attempt.
MovesOn(x, C) == [attempt |-> x, owner |-> [C EXCEPT !.gen = @ + 1, !.source = FALSE]]

\* invalidate()
Invalidated(x, C) ==
    [attempt |-> IF x.active THEN Finished(x, "uncertain") ELSE x,
     owner   |-> [C EXCEPT !.gen = @ + 1, !.source = FALSE,
                           !.phase = IF @ \in Settled THEN @
                                     ELSE IF x.active THEN "uncertain" ELSE "refused"]]

Invalidate ==
    /\ ctl.gen < MaxGeneration
    /\ exec' = Invalidated(exec, ctl).attempt
    /\ ctl'  = Invalidated(exec, ctl).owner

Phase(phase) == ctl' = [ctl EXCEPT !.phase = phase]
Printing     == <<printer, klippy, meddles, verified, resumed>>

-----------------------------------------------------------------------------
(* The controller's handlers.                                              *)

\* Mutant of MayPlan: a plan is made over a running attempt.
PlansOverAnAttempt == TRUE

\* plan() is refused while an attempt runs.
MayPlan == ~exec.active

\* plan().  A running print is recovered where it is; without one, a file
\* chosen from the printer is loaded.  Either may have no exact point.
Plan ==
    /\ MayPlan
    /\ \/ /\ Phase("refused")
          /\ UNCHANGED worker
       \/ /\ seen.state \in Running => seen.key = "mine"
          /\ ctl.gen < MaxGeneration
          /\ ctl' = [ctl EXCEPT !.phase = "planning", !.gen = @ + 1, !.source = FALSE,
                                !.unloaded = seen.state \notin Running]
          /\ worker' = Append(worker, [job |-> "plan", gen |-> ctl.gen + 1])
    /\ UNCHANGED <<Printing, exec, wires, seen>>

\* start(): the context and the temperatures may be refused.
Start ==
    /\ ctl.phase = "ready" /\ ctl.source
    /\ \/ /\ \E kept \in BOOLEAN :
                ctl' = [ctl EXCEPT !.phase = "refused", !.source = kept]
          /\ UNCHANGED worker
       \/ /\ ctl.gen < MaxGeneration
          /\ ctl' = [ctl EXCEPT !.phase = "verifying_source", !.gen = @ + 1]
          /\ worker' = Append(worker, [job |-> "verify", gen |-> ctl.gen + 1])
    /\ UNCHANGED <<Printing, exec, wires, seen>>

\* cancel()
Cancel ==
    /\ \/ /\ ctl.phase \in {"planning", "checking_printer"}
          /\ ctl.gen < MaxGeneration
          /\ ctl' = [ctl EXCEPT !.phase = "cancelled", !.gen = @ + 1]
          /\ UNCHANGED exec
       \/ /\ ctl.phase \notin {"planning", "checking_printer"}
          /\ exec.active
          /\ exec' = CancelAsked(exec)
          /\ Phase("cancelling")
    /\ UNCHANGED <<Printing, wires, worker, seen>>

\* The executor has one thread and its signals are delivered in order: the
\* positions of the jobs whose result may arrive next.
Delivered == IF worker = <<>> THEN {} ELSE {1}

\* The executor's jobs once the i-th is delivered.
Without(i) == SubSeq(worker, 1, i - 1) \o SubSeq(worker, i + 1, Len(worker))

\* _plan_done()
PlanDone(i) ==
    /\ worker[i].job = "plan"
    /\ worker' = Without(i)
    /\ IF worker[i].gen # ctl.gen
       THEN UNCHANGED <<ctl, wires>>
       ELSE \/ /\ ctl' = [ctl EXCEPT !.source = FALSE, !.phase = "refused"]
               /\ UNCHANGED wires
            \/ /\ wires.profile # 0
               /\ ctl' = [ctl EXCEPT !.source = TRUE, !.phase = "refused"]
               /\ UNCHANGED wires
            \/ /\ wires.profile = 0
               /\ ctl' = [ctl EXCEPT !.source = TRUE, !.phase = "checking_printer"]
               /\ wires' = [wires EXCEPT !.profile = ctl.gen]
    /\ UNCHANGED <<Printing, exec, seen>>

\* The reply to the profile query.
ProfileReply ==
    /\ wires.profile # 0
    /\ wires' = [wires EXCEPT !.profile = 0]
    /\ IF wires.profile # ctl.gen THEN UNCHANGED ctl
       ELSE Phase("refused") \/ Phase("ready")
    /\ UNCHANGED <<Printing, exec, worker, seen>>

\* _verification_done()
VerificationDone(i) ==
    /\ worker[i].job = "verify"
    /\ worker' = Without(i)
    /\ IF worker[i].gen # ctl.gen
       THEN UNCHANGED <<ctl, wires>>
       ELSE \/ Phase("refused") /\ UNCHANGED wires
            \/ /\ wires.identity = 0
               /\ Phase("checking_remote_file")
               /\ wires' = [wires EXCEPT !.identity = ctl.gen]
    /\ UNCHANGED <<Printing, exec, seen>>

\* The reply to the metadata query; a match starts the attempt.
IdentityReply ==
    /\ wires.identity # 0
    /\ LET W == [wires EXCEPT !.identity = 0]
       IN  \/ /\ wires.identity # ctl.gen
              /\ wires' = W
              /\ UNCHANGED <<ctl, exec, klippy, worker>>
           \/ /\ wires.identity = ctl.gen
              /\ wires' = W
              /\ Phase("refused")
              /\ UNCHANGED <<exec, klippy, worker>>
           \/ /\ wires.identity = ctl.gen
              /\ Carry(Begun(ctl.gen), W, worker, ctl)
    /\ UNCHANGED <<printer, meddles, verified, resumed, seen>>

-----------------------------------------------------------------------------
(* The attempt's answers.                                                  *)

\* A reply is taken when its closure's generation is current and its token
\* is the attempt's.
Mine(g, stage) == g = ctl.gen /\ exec.active /\ exec.gen = g /\ exec.phase = stage

\* The status query was answered with what the printer then was.
Sample ==
    /\ wires.status.gen # 0 /\ wires.status.snap = {}
    /\ wires' = [wires EXCEPT !.status.snap = {printer}]
    /\ verified' = wires.status.gen
    /\ UNCHANGED <<printer, klippy, meddles, resumed, exec, ctl, worker, seen>>

\* The answer arrives, or the query fails.
StatusReply ==
    /\ wires.status.gen # 0
    /\ LET W == [wires EXCEPT !.status = NoQuery]
       IN  IF ~Mine(wires.status.gen, wires.status.stage)
           THEN wires' = W /\ UNCHANGED <<ctl, exec, klippy, worker>>
           ELSE \/ Carry(Finished(exec, "uncertain"), W, worker, ctl)
                \/ \E s \in wires.status.snap, fit \in BOOLEAN :
                      Carry(Judged(exec, s, fit, ctl.profile), W, worker, ctl)
    /\ UNCHANGED <<printer, meddles, verified, resumed, seen>>

\* Mutant of ScriptReply: an error is not looked at.
IgnoresErrors ==
    /\ wires.script.gen # 0
    /\ LET W == [wires EXCEPT !.script = NoPost]
       IN  IF ~Mine(wires.script.gen, wires.script.stage)
           THEN wires' = W /\ UNCHANGED <<ctl, exec, klippy, worker>>
           ELSE Carry(Entered(exec, AfterScript[exec.phase]), W, worker, ctl)
    /\ UNCHANGED <<printer, meddles, verified, resumed, seen>>

\* A script's reply: success only for a script that ran; an error also for
\* one that is still to run, or whose success was lost.
ScriptReply ==
    /\ wires.script.gen # 0
    /\ LET W == [wires EXCEPT !.script = NoPost]
       IN  IF ~Mine(wires.script.gen, wires.script.stage)
           THEN wires' = W /\ UNCHANGED <<ctl, exec, klippy, worker>>
           ELSE \/ Carry(Finished(exec, "uncertain"), W, worker, ctl)
                \/ /\ wires.script.ran = "ran"
                   /\ Carry(Entered(exec, AfterScript[exec.phase]), W, worker, ctl)
    /\ UNCHANGED <<printer, meddles, verified, resumed, seen>>

\* _replan_done() and _refreshed_source()
ReplanDone(i) ==
    /\ worker[i].job = "replan"
    /\ LET C == [ctl EXCEPT !.replan = 0]
           J == Without(i)
       IN  IF ctl.replan = 0 \/ worker[i].gen # ctl.gen \/ ~Mine(ctl.replan, "rechecking_source")
           THEN ctl' = C /\ worker' = J /\ UNCHANGED <<exec, wires, klippy>>
           ELSE \/ Carry(Finished(exec, "refused"), wires, J, C)
                \/ Carry(Entered(exec, "checking_after_pause"), wires, J, C)
    /\ UNCHANGED <<printer, meddles, verified, resumed, seen>>

ExecutorDone == \E i \in Delivered : PlanDone(i) \/ VerificationDone(i) \/ ReplanDone(i)

-----------------------------------------------------------------------------
(* What ends an attempt from outside.                                      *)

\* The notification of the run an unloaded recovery has just started.
OwnRun(C, p) == /\ C.unloaded /\ C.source /\ C.phase \in {"resuming", "checking_resume"}
                /\ p.state = "printing" /\ p.mine /\ p.pos >= 1

\* RemoteJobService.observe(): a new run.
NewRun(p) == /\ p.state \in Running
             /\ \/ seen.key # (IF p.mine THEN "mine" ELSE "other")
                \/ seen.state \notin Running
                \/ p.state = "printing" /\ seen.state = "printing" /\ p.pos < seen.pos

\* PrintCoordinator.observe(): a status frame, and job_changed() on a new run.
Frame ==
    /\ seen' = [key |-> IF NewRun(printer) THEN IF printer.mine THEN "mine" ELSE "other"
                        ELSE seen.key,
                state |-> printer.state, pos |-> printer.pos]
    /\ seen' # seen
    /\ IF NewRun(printer) /\ ~OwnRun(ctl, printer) THEN Invalidate ELSE UNCHANGED <<exec, ctl>>
    /\ UNCHANGED <<Printing, wires, worker>>

\* sessionInvalidated: the client is stopped or rebound to the same printer.
\* A stop or another API key drops every lane unheard; another feed mode alone
\* leaves the lanes.
SessionLost ==
    /\ Invalidate
    /\ seen' = Unseen
    /\ wires' \in {wires, FreeLanes}
    /\ UNCHANGED <<Printing, worker>>

\* select_recovery_file(), offered while nothing prints.
SelectFile ==
    /\ seen.state \notin Running /\ ~exec.active
    /\ Invalidate
    /\ UNCHANGED <<Printing, wires, worker, seen>>

-----------------------------------------------------------------------------
(* The printer.                                                            *)

\* A script answers the wire that posted it, if that still waits.
Answers(script, outcome) ==
    wires' = IF /\ wires.script.gen = script.gen /\ wires.script.stage = script.stage
                /\ wires.script.ran = "waiting"
             THEN [wires EXCEPT !.script.ran = outcome] ELSE wires

\* Klipper runs one script after the other.
RunScript ==
    /\ klippy # <<>>
    /\ klippy' = Tail(klippy)
    /\ Runs(printer, Head(klippy))
    /\ printer' = Effect(printer, Head(klippy))
    /\ Answers(Head(klippy), "ran")
    /\ resumed' = IF Head(klippy).stage = "resuming" THEN resumed \cup {Head(klippy).gen}
                  ELSE resumed
    /\ UNCHANGED <<exec, ctl, worker, seen, meddles, verified>>

\* A script fails, is refused, or never arrived.
FailScript ==
    /\ klippy # <<>>
    /\ klippy' = Tail(klippy)
    /\ Answers(Head(klippy), "failed")
    /\ UNCHANGED <<printer, exec, ctl, worker, seen, meddles, verified, resumed>>

\* The SD worker reads on, and the print ends.
PrintOn ==
    /\ printer.state = "printing"
    /\ \/ printer.pos < 2 /\ printer' = [printer EXCEPT !.pos = 2]
       \/ printer.pos = 2 /\ printer' = [printer EXCEPT !.state = "idle", !.held = FALSE]
    /\ UNCHANGED <<klippy, exec, ctl, wires, worker, seen, meddles, verified, resumed>>

\* Another client pauses, resumes, cancels, starts another file, moves the
\* nozzle or turns the heaters off.
Meddle ==
    /\ meddles < MaxMeddles
    /\ meddles' = meddles + 1
    /\ verified' = 0
    /\ \/ /\ printer.state = "printing"
          /\ printer' = [printer EXCEPT !.state = "paused", !.held = TRUE, !.at = "away"]
       \/ /\ printer.state = "paused"
          /\ printer' = [printer EXCEPT !.state = "printing", !.held = FALSE, !.at = "part"]
       \/ /\ printer.state # "idle"
          /\ printer' = [printer EXCEPT !.state = "idle", !.held = FALSE, !.hot = FALSE]
       \/ /\ printer.state = "idle"
          /\ printer' = [printer EXCEPT !.state = "printing", !.mine = FALSE, !.at = "part",
                                        !.pos = 0]
       \/ /\ printer.state # "printing"
          /\ printer' = [printer EXCEPT !.at = "away", !.zref = FALSE, !.modal = FALSE]
       \/ printer' = [printer EXCEPT !.hot = FALSE]
    /\ UNCHANGED <<klippy, exec, ctl, wires, worker, seen, resumed>>

-----------------------------------------------------------------------------
Owner   == Plan \/ Start \/ Cancel
Answer  == ProfileReply \/ IdentityReply \/ Sample \/ StatusReply \/ ScriptReply \/ ExecutorDone
Outside == Frame \/ SessionLost \/ SelectFile
Machine == RunScript \/ FailScript \/ PrintOn \/ Meddle

Next == Owner \/ Answer \/ Outside \/ Machine

Spec == Init /\ [][Next]_vars

\* Every request has a timeout, and a scan of a file ends.
FairSpec == /\ Spec
            /\ WF_vars(ProfileReply) /\ WF_vars(IdentityReply) /\ WF_vars(StatusReply)
            /\ WF_vars(ScriptReply) /\ WF_vars(ExecutorDone)

-----------------------------------------------------------------------------
(* Properties.                                                             *)

TypeOK ==
    /\ printer \in Printers
    /\ klippy \in Seq(Entries)
    /\ exec \in Attempts
    /\ ctl \in Controllers
    /\ wires \in Lanes
    /\ worker \in Seq(Tasks)
    /\ seen \in Jobs
    /\ meddles \in Nat /\ verified \in Nat /\ resumed \subseteq Nat

\* An attempt that is running always has the one answer it waits for on its
\* way, under the current generation, so that it will be taken: a lane or the
\* executor carries it.  In particular a late re-plan of an attempt that was
\* invalidated never takes away the callback of the next one.
WaitsForAnAnswer ==
    exec.active =>
        /\ exec.gen = ctl.gen
        /\ exec.phase \in Checks => wires.status.gen = exec.gen /\ wires.status.stage = exec.phase
        /\ exec.phase \in Scripts => wires.script.gen = exec.gen /\ wires.script.stage = exec.phase
        /\ exec.phase = "rechecking_source" =>
              /\ ctl.replan = exec.gen
              /\ \E i \in DOMAIN worker :
                    /\ worker[i] = [job |-> "replan", gen |-> exec.gen]
                    /\ \A k \in 1..(i - 1) : worker[k].job # "replan"

\* What the owner is shown is the attempt: its stage while it runs, or that it
\* is being stopped; and nothing claims to be stopping once it has ended.
PanelShowsTheAttempt ==
    /\ exec.active => ctl.phase \in {exec.phase, "cancelling"}
    /\ ctl.phase \in Stages \cup {"cancelling"} => exec.active

\* "complete" is said only of an attempt whose own M24 the printer has run,
\* and that alone: never of a print another client resumed.
CompleteMeansResumed == exec.phase = "complete" => exec.gen \in resumed

\* A script is run on a printer that still is what the attempt's last status
\* showed, unless another client has acted since: the attempt never moves the
\* nozzle or starts the file unless the print is stopped and its own, with the
\* nozzle hot, and starts it only from the boundary, with the nozzle staged
\* above it and the modes restored.
ActsOnWhatItVerified ==
    [][LET script == Head(klippy)
       IN  klippy # <<>> /\ klippy' = Tail(klippy) /\ printer' # printer
           /\ script.gen = verified
           => /\ script.stage \in {"priming_nozzle", "returning", "seeking", "resuming"}
                    => printer.state # "printing" /\ printer.mine /\ printer.hot
              /\ script.stage = "resuming"
                    => printer.pos = 1 /\ printer.at = "staged" /\ printer.modal]_vars

\* An attempt keeps the promise of RecoveryPromise, and ends.
Promise == INSTANCE RecoveryPromise WITH
    stage <- IF ~exec.active THEN exec.phase
             ELSE IF exec.handover THEN "handed over" ELSE "preparing",
    asked <- exec.cancelled

KeepsPromise == Promise!Spec
================================================================================
