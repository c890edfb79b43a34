-------------------------- MODULE ToolheadReflections --------------------------
(***************************************************************************)
(* Reflection capture: EnvironmentWorker on its thread, AsyncEnvironment   *)
(* on the render thread, the mailbox between them, and the command stream  *)
(* of either GL context, executed in order by the GPU.                     *)
(*                                                                         *)
(* A step is a stretch of one thread between two of its locks, driver      *)
(* waits or callbacks.  A draw is the set of pairs it samples, a capture   *)
(* command the pair it writes.  query_factory is None, as AsyncEnvironment *)
(* creates its worker, so no job has a query geometry.  The model covers   *)
(* the one life of an AsyncEnvironment; its synchronous fallback, deadlines*)
(* and the layout of what is drawn are left out.                           *)
(***************************************************************************)
EXTENDS EnvironmentMailbox, Sequences, FiniteSets

CONSTANTS Turns,       \* GPU turns of a capture
          FadeFrames,  \* committed frames of a fade, 3 in the code
          MaxAhead,    \* bounds of the model: draws the GPU is behind,
          MaxSerial,   \* jobs submitted, changes of scene, and things that
          MaxGeneration, MaxFault    \* go wrong

ASSUME ReflectionBounds ==
    /\ Turns \in Nat \ {0} /\ FadeFrames \in Nat /\ MaxAhead \in Nat \ {0}
    /\ MaxSerial \in Nat /\ MaxGeneration \in Nat /\ MaxFault \in Nat

VARIABLES
    drawing,   \* the main context's draws, each a set of pairs
    capturing, \* the worker context's commands, each a pair
    link,      \* what the worker's condition guards
    worker,    \* run()'s locals
    main,      \* the frame or teardown that is under way
    facade,    \* AsyncEnvironment
    leases,    \* _leases: the jobs whose source wrappers are kept
    inputs,    \* the jobs whose input fence is not deleted yet
    deletions, \* _deletions
    faults

gpu     == <<drawing, capturing>>
sources == <<leases, inputs, deletions>>
vars    == <<pairs, front, generation, closed, drawing, capturing, link, worker, main,
             facade, leases, inputs, deletions, faults>>

Serials == 1..MaxSerial
WorkerSteps == {"start", "scan", "claim", "next", "asleep", "input", "turn", "drain",
                "publish", "abort", "failing", "final", "last", "producer", "consumer",
                "host", "retire", "acknowledge", "gone"}
MainSteps   == {"idle", "poll", "polled", "draw", "drawing", "closing", "finish", "wait"}

Links   == [pending : 0..MaxSerial,       \* _pending.serial, 0 for None
            generation : Nat,             \* and its generation
            completed : SUBSET [serial : Serials, kept : BOOLEAN],
            woken : BOOLEAN,              \* _wake_revision has moved since it was read
            accepting : BOOLEAN, stopping : BOOLEAN,
            failure : BOOLEAN, abandoned : BOOLEAN, host : BOOLEAN]    \* host_drained
Workers == [pc : WorkerSteps,
            token : 0..2,                 \* the pair under construction
            job : 0..MaxSerial,           \* active, or the retired payload
            kept : BOOLEAN,               \* its input fence is not deleted
            turns : 0..Turns,
            broken : BOOLEAN,             \* the capture raised an exception
            retiring : 0..2,
            resume : WorkerSteps,         \* where a failed wait goes on
            bound : BOOLEAN,              \* its context was made current
            ending : BOOLEAN]             \* in run()'s finally
Mains   == [pc : MainSteps,
            use : 0..2,                   \* the polled pair
            complete : BOOLEAN,           \* its fence was signalled
            previous : 0..MaxSerial,      \* the map acquired to fade from
            raised : BOOLEAN,
            then : {"idle", "cleanup", "quit", "lost"}]
Facades == [closed : BOOLEAN, busy : BOOLEAN,
            serial : 0..MaxSerial,        \* _serial
            shown : 0..MaxSerial,         \* _storage.result.serial
            current : BOOLEAN,            \* whose key has the hard part of the scene
            fading : 0..MaxSerial,        \* _transition's map, which is _held
            fade : 0..FadeFrames,         \* its frames
            due : BOOLEAN,                \* a frame is asked for
            arrived : BOOLEAN,            \* _arrived is queued
            cleanup : BOOLEAN,            \* _failure_scheduled
            quarantine : BOOLEAN, retired : BOOLEAN, disposed : BOOLEAN,
            failed : BOOLEAN]             \* ToolheadSceneNode._render_failure

TypeOK ==
    /\ pairs \in [Slots -> Pairs] /\ front \in {0} \cup Slots
    /\ generation \in Nat /\ closed \in BOOLEAN
    /\ drawing \in Seq(SUBSET Slots) /\ capturing \in Seq(Slots)
    /\ link \in Links /\ worker \in Workers /\ main \in Mains /\ facade \in Facades
    /\ leases \subseteq Serials /\ inputs \subseteq Serials /\ deletions \subseteq Serials
    /\ faults \in 0..MaxFault

Init ==
    /\ MailboxInit
    /\ drawing = <<>> /\ capturing = <<>>
    /\ link = [pending |-> 0, generation |-> 0, completed |-> {}, woken |-> FALSE,
               accepting |-> TRUE, stopping |-> FALSE, failure |-> FALSE,
               abandoned |-> FALSE, host |-> FALSE]
    /\ worker = [pc |-> "start", token |-> 0, job |-> 0, kept |-> FALSE, turns |-> 0,
                 broken |-> FALSE, retiring |-> 0, resume |-> "scan",
                 bound |-> FALSE, ending |-> FALSE]
    /\ main = [pc |-> "idle", use |-> 0, complete |-> FALSE, previous |-> 0,
               raised |-> FALSE, then |-> "idle"]
    /\ facade = [closed |-> FALSE, busy |-> FALSE, serial |-> 0, shown |-> 0,
                 current |-> FALSE, fading |-> 0, fade |-> 0, due |-> TRUE,
                 arrived |-> FALSE, cleanup |-> FALSE, quarantine |-> FALSE,
                 retired |-> FALSE, disposed |-> FALSE, failed |-> FALSE]
    /\ leases = {} /\ inputs = {} /\ deletions = {} /\ faults = 0

Fault == faults < MaxFault /\ faults' = faults + 1

(***************************************************************************)
(* The GPU executes the commands of each context in order.                 *)
(***************************************************************************)
Nearer(fence) == IF fence > 0 THEN fence - 1 ELSE fence

GpuDraws ==
    /\ drawing # <<>>
    /\ drawing' = Tail(drawing)
    /\ pairs' = [i \in Slots |-> [pairs[i] EXCEPT !.consumer = Nearer(@)]]
    /\ UNCHANGED <<front, generation, closed, capturing, link, worker, main, facade,
                   sources, faults>>

GpuCaptures ==
    /\ capturing # <<>>
    /\ capturing' = Tail(capturing)
    /\ pairs' = [i \in Slots |-> [pairs[i] EXCEPT !.producer = Nearer(@)]]
    /\ UNCHANGED <<front, generation, closed, drawing, link, worker, main, facade,
                   sources, faults>>

(***************************************************************************)
(* The worker.                                                             *)
(***************************************************************************)
\* Mutant of Woken: the wake's revision stays what it was.
WakesNobody(l) == l

Woken(l) == [l EXCEPT !.woken = TRUE]

\* Mutant of Stopped: the sleeping worker is not told.
StopsUnheard(l) == [l EXCEPT !.accepting = FALSE, !.stopping = TRUE]

Stopped(l)   == [l EXCEPT !.accepting = FALSE, !.stopping = TRUE, !.woken = TRUE]

Abandoned(l) == [Stopped(l) EXCEPT !.abandoned = TRUE]
Failed(l)    == [l EXCEPT !.failure = TRUE, !.accepting = FALSE]

\* Mutant of Acknowledged: the job goes back without its fence.
ForgetsTheFence(l, serial, kept) ==
    [l EXCEPT !.completed = @ \cup {[serial |-> serial, kept |-> FALSE]}]

Acknowledged(l, serial, kept) ==
    [l EXCEPT !.completed = @ \cup {[serial |-> serial, kept |-> kept]}]

\* Mutant of Ready: nothing is signalled.
SaysNothing == UNCHANGED facade

Ready == facade' = [facade EXCEPT !.arrived = TRUE]

AtWork(pc) == worker.pc = pc /\ ~link.abandoned      \* _checkpoint
Goes(pc)   == worker' = [worker EXCEPT !.pc = pc]

\* seal_gpu: a fence behind everything submitted, or a finish if none can be made.
Seals(fence) ==
    \/ fence = Len(capturing) + 1 /\ capturing' = Append(capturing, worker.token)
    \/ fence = NoFence /\ capturing = <<>> /\ UNCHANGED capturing

Starts ==
    /\ worker.pc = "start"
    /\ \/ /\ worker' = [worker EXCEPT !.pc = "scan", !.bound = TRUE]
          /\ UNCHANGED <<mailbox, link, facade, faults>>
       \/ /\ Fault                       \* the worker's context is unavailable
          /\ link' = Failed(link) /\ Ready /\ Close
          /\ worker' = [worker EXCEPT !.pc = "final", !.ending = TRUE]
    /\ UNCHANGED <<gpu, main, sources>>

Scans ==
    /\ AtWork("scan")
    /\ link' = [link EXCEPT !.woken = FALSE]
    /\ Goes("claim")
    /\ UNCHANGED <<mailbox, gpu, main, facade, sources, faults>>

Claims ==
    /\ worker.pc = "claim" \/ AtWork("last")
    /\ \E i \in Retirable :
          /\ IsFirst(i, Retirable)
          /\ pairs' = Draining(i)
          /\ worker' = [worker EXCEPT !.pc = "producer", !.retiring = i]
    /\ UNCHANGED <<front, generation, closed, gpu, link, main, facade, sources, faults>>

\* Nothing to retire: the loop ends when it is stopped and drained.
LooksForWork ==
    /\ worker.pc = "claim" /\ Retirable = {}
    /\ Goes(IF link.stopping /\ Drained THEN "final" ELSE "next")
    /\ UNCHANGED <<mailbox, gpu, link, main, facade, sources, faults>>

Sleeps ==
    /\ worker.pc = "next" /\ link.pending = 0
    /\ Goes(IF link.woken \/ link.stopping THEN "scan" ELSE "asleep")
    /\ UNCHANGED <<mailbox, gpu, link, main, facade, sources, faults>>

Wakes ==
    /\ worker.pc = "asleep" /\ link.woken
    /\ Goes("scan")
    /\ UNCHANGED <<mailbox, gpu, link, main, facade, sources, faults>>

ReturnsStale ==
    /\ worker.pc = "next" /\ link.pending # 0 /\ link.generation # generation
    /\ link' = [Acknowledged(link, link.pending, TRUE) EXCEPT !.pending = 0]
    /\ Ready
    /\ Goes("scan")
    /\ UNCHANGED <<mailbox, gpu, main, sources, faults>>

\* A job finds a free pair, or the worker looks again ten milliseconds later.
Reserves ==
    /\ worker.pc = "next" /\ link.pending # 0 /\ link.generation = generation
    /\ \/ \E i \in Free :
             /\ IsFirst(i, Free)
             /\ pairs' = Reserved(i, link.pending)
             /\ worker' = [worker EXCEPT !.pc = "input", !.token = i, !.job = link.pending,
                                         !.kept = TRUE]
             /\ link' = [link EXCEPT !.pending = 0]
       \/ /\ Free = {}
          /\ Goes("scan")
          /\ UNCHANGED <<pairs, link>>
    /\ UNCHANGED <<front, generation, closed, gpu, main, facade, sources, faults>>

\* The GPU waits for the input; the worker deletes its fence and takes the snapshot.
TakesInput ==
    /\ worker.pc = "input"
    /\ worker' = [worker EXCEPT !.kept = FALSE,
                                !.pc = IF BuildingCurrent(worker.token) THEN "turn" ELSE "drain"]
    /\ inputs' = inputs \ {worker.job}
    /\ UNCHANGED <<mailbox, gpu, link, main, facade, leases, deletions, faults>>

\* At most two turns are outstanding.
TakesTurn ==
    /\ AtWork("turn") /\ Len(capturing) < 2
    /\ IF BuildingCurrent(worker.token)
       THEN /\ capturing' = Append(capturing, worker.token)
            /\ worker' = [worker EXCEPT !.turns = @ + 1,
                                        !.pc = IF worker.turns + 1 < Turns
                                               THEN "turn" ELSE "drain"]
       ELSE Goes("drain") /\ UNCHANGED capturing
    /\ UNCHANGED <<mailbox, drawing, link, main, facade, sources, faults>>

\* The capture raises, before its input is consumed or with commands no fence covers.
CaptureFails ==
    /\ worker.pc \in {"input", "turn"} /\ Fault
    /\ capturing' = IF worker.pc = "turn" THEN Append(capturing, worker.token) ELSE capturing
    /\ worker' = [worker EXCEPT !.pc = "drain", !.broken = TRUE]
    /\ UNCHANGED <<mailbox, drawing, link, main, facade, sources>>

\* The turns' fences are drained; what a failed turn submitted has none yet.
Drains ==
    /\ AtWork("drain")
    /\ Len(capturing) <= IF worker.broken THEN 1 ELSE 0
    /\ Goes(IF ~worker.broken /\ worker.turns = Turns /\ BuildingCurrent(worker.token)
            THEN "publish" ELSE "abort")
    /\ UNCHANGED <<mailbox, gpu, link, main, facade, sources, faults>>

Publishes ==
    /\ AtWork("publish")
    /\ \E fence \in {NoFence, Len(capturing) + 1} :
          Seals(fence) /\ pairs' = Completed(worker.token, fence)
    /\ worker' = [worker EXCEPT !.pc = "scan", !.token = 0, !.job = 0, !.turns = 0]
    /\ Ready
    /\ UNCHANGED <<front, generation, closed, drawing, link, main, sources, faults>>

Aborts ==
    /\ AtWork("abort")
    /\ \E fence \in {NoFence, Len(capturing) + 1} :
          Seals(fence) /\ pairs' = Aborted(worker.token, fence, worker.kept)
    /\ worker' = [worker EXCEPT !.pc = IF worker.broken THEN "failing" ELSE "scan",
                                !.token = 0, !.job = 0, !.kept = FALSE,
                                !.turns = 0, !.broken = FALSE]
    /\ UNCHANGED <<front, generation, closed, drawing, link, main, facade, sources, faults>>

\* run()'s except clause
Fails ==
    /\ worker.pc = "failing"
    /\ link' = Failed(link) /\ Ready /\ Close
    /\ worker' = [worker EXCEPT !.pc = "final", !.ending = TRUE]
    /\ UNCHANGED <<gpu, main, sources, faults>>

\* run()'s finally: the pending job goes back, with its fence deleted if there is a context.
Ends ==
    /\ AtWork("final") /\ capturing = <<>>
    /\ IF link.pending = 0
       THEN /\ link' = [link EXCEPT !.accepting = FALSE]
            /\ UNCHANGED <<inputs, facade>>
       ELSE /\ link' = [Acknowledged(link, link.pending, ~worker.bound)
                        EXCEPT !.accepting = FALSE, !.pending = 0]
            /\ inputs' = IF worker.bound THEN inputs \ {link.pending} ELSE inputs
            /\ Ready
    /\ worker' = [worker EXCEPT !.pc = "last", !.ending = TRUE]
    /\ UNCHANGED <<mailbox, gpu, main, leases, deletions, faults>>

Leaves ==
    /\ worker.pc = "last" /\ Drained
    /\ Goes("gone")
    /\ UNCHANGED <<mailbox, gpu, link, main, facade, sources, faults>>

(* retire_pair *)
DrainsProducer ==
    /\ AtWork("producer") /\ pairs[worker.retiring].producer <= 0
    /\ Goes("consumer")
    /\ UNCHANGED <<mailbox, gpu, link, main, facade, sources, faults>>

DrainsConsumer ==
    /\ AtWork("consumer") /\ pairs[worker.retiring].consumer <= 0
    /\ Goes("retire")
    /\ UNCHANGED <<mailbox, gpu, link, main, facade, sources, faults>>

\* A failed wait proves nothing: the main context has to finish first.
Waits == {"drain", "producer", "consumer"}
WaitFails ==
    /\ worker.pc \in Waits /\ AtWork(worker.pc) /\ Fault
    /\ worker' = [worker EXCEPT !.pc = "host",
                                !.resume = CASE worker.pc = "drain" -> "drain"
                                             [] worker.pc = "producer" -> "consumer"
                                             [] OTHER -> "retire"]
    /\ link' = [link EXCEPT !.failure = TRUE]
    /\ Ready
    /\ UNCHANGED <<mailbox, gpu, main, sources>>

HostReplies ==
    /\ AtWork("host") /\ link.host /\ capturing = <<>>
    /\ worker' = [worker EXCEPT !.pc = worker.resume, !.resume = "scan"]
    /\ UNCHANGED <<mailbox, gpu, link, main, facade, sources, faults>>

Retires ==
    /\ worker.pc = "retire"
    /\ \/ /\ pairs' = Retired(worker.retiring)
          /\ worker' = [worker EXCEPT !.pc = "acknowledge", !.retiring = 0,
                                      !.job = pairs[worker.retiring].job,
                                      !.kept = pairs[worker.retiring].kept]
          /\ UNCHANGED <<front, generation, closed, link, facade, faults>>
       \/ /\ Fault                       \* the driver raises: nothing is retried
          /\ link' = [Abandoned(link) EXCEPT !.failure = TRUE] /\ Close /\ Ready
          /\ Goes("acknowledge")
    /\ UNCHANGED <<gpu, main, sources>>

Acknowledges ==
    /\ AtWork("acknowledge")
    /\ link' = Acknowledged(link, worker.job, worker.kept)
    /\ Ready
    /\ worker' = [worker EXCEPT !.pc = IF worker.ending THEN "last" ELSE "scan",
                                !.job = 0, !.kept = FALSE]
    /\ UNCHANGED <<mailbox, gpu, main, sources, faults>>

\* _Abandoned: the thread ends and everything it holds stays allocated.
Quarantines ==
    /\ link.abandoned
    /\ worker.pc \notin {"start", "claim", "next", "asleep", "input", "failing", "retire", "gone"}
    /\ Close
    /\ link' = [Failed(link) EXCEPT !.pending = 0]
    /\ Goes("gone")
    /\ IF worker.ending THEN UNCHANGED facade ELSE Ready
    /\ UNCHANGED <<gpu, main, sources, faults>>

Work ==
    \/ Starts \/ Scans \/ Claims \/ LooksForWork \/ Sleeps \/ Wakes \/ ReturnsStale
    \/ Reserves \/ TakesInput \/ TakesTurn \/ CaptureFails \/ Drains \/ Publishes
    \/ Aborts \/ Fails \/ Ends \/ Leaves \/ DrainsProducer \/ DrainsConsumer
    \/ WaitFails \/ HostReplies \/ Retires \/ Acknowledges \/ Quarantines

(***************************************************************************)
(* The render thread.                                                      *)
(***************************************************************************)
\* _collect: acknowledged jobs drop their wrappers; fences go in the main context.
Collected == IF link.abandoned THEN link
             ELSE [link EXCEPT !.completed = {}, !.woken = @ \/ link.completed # {}]
Synced    == [facade EXCEPT !.quarantine = @ \/ link.abandoned]
Collects(current) ==
    IF link.abandoned THEN UNCHANGED sources
    ELSE LET due == deletions \cup {c.serial : c \in {d \in link.completed : d.kept}}
         IN  /\ leases' = leases \ {c.serial : c \in link.completed}
             /\ inputs' = IF current THEN inputs \ due ELSE inputs
             /\ deletions' = IF current THEN {} ELSE due

\* The fence a read ends with: behind every draw, or none after a finish.
LastUse == {Len(drawing)} \cup IF drawing = <<>> THEN {NoFence} ELSE {}
Reads(serial) == {i \in Slots : serial # 0 /\ pairs[i].job = serial /\ pairs[i].reader}
EndReads(p, slots, fence) ==
    [i \in Slots |-> IF i \in slots THEN ReadEnded(p, i, fence)[i] ELSE p[i]]

\* _end_transition in the main context
Fading(quarantine) == IF quarantine THEN {} ELSE Reads(facade.fading)
Unfaded(f) == [f EXCEPT !.fading = 0, !.fade = 0]

\* step() up to begin_poll: a fading map keeps the next one waiting.
FrameBegins(polls, otherwise) ==
    /\ main.pc = "idle"
    /\ ~facade.closed /\ ~facade.failed /\ ~facade.retired /\ ~facade.disposed
    /\ Collects(TRUE)
    /\ main' = IF polls /\ Pollable # {}
               THEN [main EXCEPT !.pc = "poll", !.use = CHOOSE i \in Slots : IsFirst(i, Pollable)]
               ELSE [main EXCEPT !.pc = otherwise]
    /\ UNCHANGED <<gpu, worker, faults>>

SameScene ==
    \E expired \in {FALSE, facade.fading # 0}, fence \in LastUse :
        LET polls == facade.fading = 0 \/ expired
            ended == EndReads(pairs, IF expired THEN Fading(link.abandoned) ELSE {}, fence)
        IN  /\ FrameBegins(polls, "draw")
            /\ pairs' = IF polls THEN PollBegun(ended, Pollable) ELSE ended
            /\ facade' = [IF expired THEN Unfaded(Synced) ELSE Synced EXCEPT !.due = FALSE]
            /\ link' = IF expired THEN Woken(Collected) ELSE Collected
            /\ UNCHANGED <<front, generation, closed>>

\* A change of the scene's hard part seals what is ready.
ChangesScene ==
    /\ generation < MaxGeneration
    /\ \E fence \in LastUse :
          /\ FrameBegins(FALSE, "draw")
          /\ ChangeGeneration(EndReads(pairs, Fading(link.abandoned), fence))
          /\ facade' = [Unfaded(Synced) EXCEPT !.due = FALSE, !.busy = FALSE, !.current = FALSE]
    /\ link' = Woken(Collected)

\* defer(): the scene is not ready, which shows before step() or where it would submit.
\* Nothing is collected; the frame is drawn with what there is, and another one is due.
Defers ==
    /\ generation < MaxGeneration
    /\ \/ main.pc = "idle" /\ ~facade.closed /\ ~facade.failed
          /\ ~facade.retired /\ ~facade.disposed
       \/ main.pc = "draw" /\ ~facade.busy /\ ~facade.due
    /\ \E fence \in LastUse :
          ChangeGeneration(EndReads(pairs, Fading(facade.quarantine), fence))
    /\ main' = [main EXCEPT !.pc = "draw"]
    /\ facade' = [Unfaded(facade) EXCEPT !.due = TRUE, !.busy = FALSE]
    /\ link' = Woken(link)
    /\ UNCHANGED <<gpu, worker, sources, faults>>

\* The fence is asked outside the lock.  If the map is complete, the one it replaces
\* is acquired to fade from; a mailbox that was closed meanwhile refuses.
AsksFence ==
    /\ main.pc = "poll"
    /\ \/ /\ pairs[main.use].producer <= 0
          /\ \E fades \in {FALSE, facade.shown # 0 /\ facade.current} :
                LET acquires == fades /\ ~facade.quarantine /\ Readable
                IN  /\ pairs' = IF acquires THEN ReadBegun(pairs, front) ELSE pairs
                    /\ main' = [main EXCEPT !.pc = "polled",
                                            !.complete = ~fades \/ acquires,
                                            !.raised = fades /\ ~acquires,
                                            !.previous = IF acquires THEN facade.shown ELSE 0]
          /\ UNCHANGED faults
       \/ /\ pairs[main.use].producer > 0
          /\ main' = [main EXCEPT !.pc = "polled", !.complete = FALSE]
          /\ UNCHANGED <<pairs, faults>>
       \/ /\ Fault
          /\ main' = [main EXCEPT !.pc = "polled", !.complete = FALSE, !.raised = TRUE]
          /\ UNCHANGED pairs
    /\ UNCHANGED <<front, generation, closed, gpu, link, worker, facade, sources>>

Polled(pc) == [main EXCEPT !.pc = pc, !.use = 0, !.complete = FALSE, !.previous = 0,
                           !.raised = FALSE]

Adopt ==
    /\ main.pc = "polled" /\ Adopts(main.use, main.complete)
    /\ pairs' = Adopted(pairs, main.use)
    /\ front' = main.use
    /\ facade' = [facade EXCEPT !.shown = pairs[main.use].job, !.current = TRUE,
                                !.busy = pairs[main.use].job # facade.serial,
                                !.fading = main.previous, !.fade = 0]
    /\ link' = Woken(link)
    /\ main' = Polled("draw")
    /\ UNCHANGED <<generation, closed, gpu, worker, sources, faults>>

\* Not yet, or no more; a driver error closes the facade (ToolheadEnvironment.fail).
KeepsWaiting ==
    /\ main.pc = "polled" /\ ~Adopts(main.use, main.complete)
    /\ \E fence \in LastUse :
          pairs' = EndReads(PollEnded(pairs, main.use),
                            IF facade.quarantine THEN {} ELSE Reads(main.previous), fence)
    /\ IF main.raised
       THEN /\ main' = [Polled("closing") EXCEPT !.then = "idle"]
            /\ facade' = [facade EXCEPT !.closed = TRUE, !.busy = FALSE]
            /\ link' = Stopped(link)
       ELSE /\ main' = Polled("draw")
            /\ facade' = [facade EXCEPT !.arrived = TRUE]
            /\ link' = Woken(link)
    /\ UNCHANGED <<front, generation, closed, gpu, worker, sources, faults>>

\* A new capture is frozen and submitted, and a job the worker has not taken replaced; a
\* worker that has stopped takes none.  A frame that deferred submits nothing.
Submits ==
    /\ main.pc = "draw" /\ ~facade.busy /\ ~facade.due /\ facade.serial < MaxSerial
    /\ link.accepting
    /\ LET job == facade.serial + 1
       IN  /\ leases' = (leases \ {link.pending}) \cup {job}
           /\ inputs' = (inputs \ {link.pending}) \cup {job}
           /\ link' = [Woken(link) EXCEPT !.pending = job, !.generation = generation]
           /\ facade' = [facade EXCEPT !.serial = job, !.busy = TRUE]
    /\ UNCHANGED <<mailbox, gpu, worker, main, deletions, faults>>

\* commit_frame at the end of a draw; while a map fades the next frame is asked for.
FadeEnds   == facade.fading # 0 /\ facade.fade = FadeFrames
Committed  == CASE facade.fading = 0 -> facade
                [] FadeEnds          -> [Unfaded(facade) EXCEPT !.due = TRUE]
                [] OTHER             -> [facade EXCEPT !.fade = @ + 1, !.due = TRUE]

\* The image is reused: no map is sampled.
DrawsCached ==
    /\ main.pc = "draw"
    /\ \E fence \in LastUse :
          pairs' = IF FadeEnds THEN EndReads(pairs, Fading(facade.quarantine), fence) ELSE pairs
    /\ link' = IF FadeEnds THEN Woken(link) ELSE link
    /\ facade' = Committed
    /\ main' = [main EXCEPT !.pc = "idle"]
    /\ UNCHANGED <<front, generation, closed, gpu, worker, sources, faults>>

\* The draw samples the shown map and the one it fades from.  A refused ticket raises
\* out of the draw, and CompositeOverlay.render latches the failure.
Draws ==
    /\ main.pc = "draw" /\ facade.shown # 0 /\ Len(drawing) < MaxAhead
    /\ IF Readable /\ ~facade.quarantine /\ pairs[front].job = facade.shown
       THEN /\ pairs' = ReadBegun(pairs, front)
            /\ drawing' = Append(drawing, {front} \cup Reads(facade.fading))
            /\ main' = [main EXCEPT !.pc = "drawing"]
            /\ UNCHANGED facade
       ELSE /\ facade' = [facade EXCEPT !.failed = TRUE]
            /\ main' = [main EXCEPT !.pc = "idle"]
            /\ UNCHANGED <<pairs, drawing>>
    /\ UNCHANGED <<front, generation, closed, capturing, link, worker, sources, faults>>

EndsDraw ==
    /\ main.pc = "drawing"
    /\ \E fence \in LastUse :
          pairs' = EndReads(pairs, Reads(facade.shown)
                                   \cup IF FadeEnds THEN Fading(facade.quarantine) ELSE {}, fence)
    /\ link' = Woken(link)
    /\ facade' = Committed
    /\ main' = [main EXCEPT !.pc = "idle"]
    /\ UNCHANGED <<front, generation, closed, gpu, worker, sources, faults>>

(* close, and what it is part of *)
\* Outside the main context the read of a fade is left to the cleanup job.
Withdrawn(f) == [Unfaded(f) EXCEPT !.closed = TRUE, !.busy = FALSE, !.arrived = FALSE,
                                   !.cleanup = @ \/ (Reads(facade.fading) # {}
                                                     /\ ~f.retired /\ ~f.quarantine)]
Closing(then) == [main EXCEPT !.pc = "closing", !.then = then]
Cleaning(f)   == [f EXCEPT !.cleanup = @ \/ (~f.retired /\ ~f.quarantine)]

Disables ==
    /\ main.pc = "idle" /\ ~facade.closed /\ ~facade.disposed
    /\ facade' = [Withdrawn(facade) EXCEPT !.arrived = facade.arrived]
    /\ link' = Stopped(link)
    /\ main' = Closing("idle")
    /\ UNCHANGED <<mailbox, gpu, worker, sources, faults>>

ClosesMailbox ==
    /\ main.pc = "closing"
    /\ Close
    /\ facade' = IF main.then = "cleanup" THEN Cleaning(facade) ELSE facade
    /\ main' = [main EXCEPT !.pc = IF main.then \in {"quit", "lost"} THEN "finish" ELSE "idle",
                            !.then = IF @ = "cleanup" THEN "idle" ELSE @]
    /\ UNCHANGED <<gpu, link, worker, sources, faults>>

\* _arrived, from the worker's ready signal or the retry timer
Arrives ==
    /\ main.pc = "idle" /\ facade.arrived /\ ~facade.disposed
    /\ LET left == [Synced EXCEPT !.arrived = FALSE]
       IN  CASE ~link.failure ->
                   /\ facade' = [left EXCEPT !.due = @ \/ ~facade.closed]
                   /\ link' = Collected
                   /\ UNCHANGED main
             [] link.failure /\ facade.closed ->
                   /\ facade' = Cleaning(left)
                   /\ link' = Collected
                   /\ UNCHANGED main
             [] OTHER ->
                   /\ facade' = Withdrawn(left)
                   /\ link' = Stopped(Collected)
                   /\ main' = Closing("cleanup")
    /\ Collects(FALSE)
    /\ UNCHANGED <<mailbox, gpu, worker, faults>>

\* _finish_main: everything drawn is done, so every read that is not held ends.
Unheld == {i \in Slots : pairs[i].reader /\ (facade.closed \/ pairs[i].job # facade.fading)}
FinishesMain ==
    /\ drawing' = <<>>
    /\ pairs' = EndReads([i \in Slots |-> [pairs[i] EXCEPT !.consumer = IF @ > 0 THEN 0 ELSE @]],
                         Unheld, NoFence)
    /\ link' = [Woken(Collected) EXCEPT !.host = \A i \in Slots : pairs[i].reader => i \in Unheld]
    /\ Collects(TRUE)
Abandons ==
    /\ link' = Abandoned(link) /\ Close
    /\ UNCHANGED <<drawing, sources>>

\* _MainFinish, before a frame of the window
CleansUp ==
    /\ main.pc = "idle" /\ facade.cleanup
    /\ \/ /\ link.abandoned \/ facade.retired
          /\ facade' = [Synced EXCEPT !.cleanup = FALSE]
          /\ UNCHANGED <<mailbox, drawing, link, sources, faults>>
       \/ /\ ~link.abandoned /\ ~facade.retired
          /\ FinishesMain
          /\ facade' = [facade EXCEPT !.cleanup = FALSE]
          /\ UNCHANGED <<front, generation, closed, faults>>
       \/ /\ ~link.abandoned /\ ~facade.retired /\ Fault
          /\ Abandons
          /\ facade' = [facade EXCEPT !.cleanup = FALSE, !.quarantine = TRUE]
    /\ UNCHANGED <<capturing, worker, main>>

\* _finished, from the thread's finished signal, which is queued behind its others
Finishes ==
    /\ main.pc = "idle" /\ worker.pc = "gone" /\ ~facade.disposed /\ ~facade.arrived
    /\ Collects(FALSE)
    /\ link' = Collected
    /\ facade' = [IF deletions' # {} THEN Cleaning(Synced) ELSE Synced EXCEPT !.disposed = TRUE]
    /\ UNCHANGED <<mailbox, gpu, worker, main, faults>>

\* _shutdown, and _context_destroyed
TearsDown ==
    /\ main.pc = "idle" /\ ~facade.disposed
    /\ \E then \in {"quit", "lost"} :
          /\ then = "lost" => ~facade.retired
          /\ IF facade.closed
             THEN /\ main' = [main EXCEPT !.pc = "finish", !.then = then]
                  /\ UNCHANGED <<link, facade>>
             ELSE /\ facade' = [Withdrawn(facade) EXCEPT !.arrived = facade.arrived]
                  /\ link' = Stopped(link)
                  /\ main' = Closing(then)
    /\ UNCHANGED <<mailbox, gpu, worker, sources, faults>>

\* The main context is made current and finished; if that fails nothing is freed.
FinishesContext ==
    /\ main.pc = "finish"
    /\ \/ /\ ~facade.quarantine /\ ~facade.retired
          /\ FinishesMain
          /\ main' = [main EXCEPT !.pc = "wait"]
          /\ UNCHANGED <<front, generation, closed, facade, faults>>
       \/ /\ IF facade.quarantine THEN UNCHANGED faults ELSE ~facade.retired /\ Fault
          /\ Abandons
          /\ facade' = [facade EXCEPT !.quarantine = TRUE, !.retired = @ \/ main.then = "lost"]
          /\ main' = [main EXCEPT !.pc = IF main.then = "quit" THEN "wait" ELSE "idle",
                                  !.then = IF @ = "quit" THEN @ ELSE "idle"]
       \/ /\ facade.retired /\ ~facade.quarantine
          /\ main' = [main EXCEPT !.pc = "wait"]
          /\ UNCHANGED <<mailbox, drawing, link, sources, facade, faults>>
    /\ UNCHANGED <<capturing, worker>>

\* The thread is joined.
Joins ==
    /\ main.pc = "wait" /\ worker.pc = "gone"
    /\ Collects(~facade.retired)
    /\ link' = Collected
    /\ facade' = [Synced EXCEPT !.retired = @ \/ main.then = "lost",
                                !.disposed = @ \/ main.then = "quit"]
    /\ main' = [main EXCEPT !.pc = "idle", !.then = "idle"]
    /\ UNCHANGED <<mailbox, gpu, worker, faults>>

Frame == AsksFence \/ Adopt \/ KeepsWaiting \/ Submits \/ DrawsCached \/ Draws \/ EndsDraw
Teardown == ClosesMailbox \/ FinishesContext \/ Joins

Next ==
    \/ GpuDraws \/ GpuCaptures \/ Work \/ SameScene \/ ChangesScene \/ Defers \/ Frame
    \/ Disables \/ Arrives \/ CleansUp \/ Finishes \/ TearsDown \/ Teardown

Spec == Init /\ [][Next]_vars

(***************************************************************************)
(* The GPU executes what it is given, the threads run, and the window draws*)
(* the frames and runs the jobs it is asked for.                           *)
(***************************************************************************)
Fairness ==
    /\ WF_vars(GpuDraws) /\ WF_vars(GpuCaptures)
    /\ WF_vars(Work) /\ WF_vars(Frame) /\ WF_vars(Teardown)
    /\ WF_vars(facade.due /\ SameScene)
    /\ SF_vars(Arrives) /\ WF_vars(CleansUp) /\ WF_vars(Finishes)

FairSpec == Spec /\ Fairness

(***************************************************************************)
(* Properties                                                              *)
(***************************************************************************)
\* No map is sampled while it is written: one that can be reserved again or is under
\* construction has no draw in flight, one that a draw samples has no capture in flight.
Sampled == UNION {drawing[k] : k \in DOMAIN drawing}
Written == {capturing[k] : k \in DOMAIN capturing}
MapsAreQuiet ==
    /\ \A i \in Sampled : pairs[i].state \notin {"free", "building", "ready"} /\ i \notin Written
    /\ \A i \in Written : pairs[i].state # "free"
    /\ worker.pc = "gone" /\ ~link.abandoned => Sampled = {} /\ Written = {}

\* A job's wrappers are kept while the worker, a pair or a queue still stands for it, and
\* an input fence that is alive has one owner who will delete it; no other one has any.
Held == ({link.pending, worker.job} \cup {pairs[i].job : i \in Slots \ In("free")}) \ {0}
Owners(s) ==
    {<<"pending">> : x \in {link.pending} \cap {s}}
    \cup {<<"worker">> : x \in {worker.job : y \in {worker.kept} \cap {TRUE}} \cap {s}}
    \cup {<<"pair", i>> : i \in {j \in Slots : pairs[j].kept /\ pairs[j].job = s}}
    \cup {<<"completed">> : x \in {c \in link.completed : c.kept /\ c.serial = s}}
    \cup {<<"deletions">> : x \in deletions \cap {s}}
SourcesHaveOneOwner ==
    /\ Held \subseteq leases
    /\ ~link.abandoned =>
           \A s \in Serials : Cardinality(Owners(s)) = IF s \in inputs THEN 1 ELSE 0

\* A closed facade ends its thread and gets everything back, or keeps all of it for ever.
StopReturnsEverything ==
    facade.closed ~> worker.pc = "gone" /\ (link.abandoned \/ (leases = {} /\ inputs = {}))

\* Maps that nobody uses any more become free, without another job to wake the worker.
Leftover == Retirable \cup In("draining")
SealedMapsDrain == Leftover # {} ~> Leftover = {} \/ link.abandoned

\* A capture the facade waits for is adopted, or it stops waiting.
CaptureSettles == facade.busy ~> ~facade.busy
=============================================================================
