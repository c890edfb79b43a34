----------------------------- MODULE Toolhead_proofs -----------------------------
(***************************************************************************)
(* Theorems about ToolheadQueue and ToolheadReflections.                   *)
(*                                                                         *)
(* The queue of moves, for every size of the queues and every number of    *)
(* operations: its type invariant, and that a move leaves only on a check  *)
(* that is still fresh.                                                    *)
(*                                                                         *)
(* The reflections, for every number of jobs, turns of a capture, frames   *)
(* of a fade, draws in flight and faults: types, no map is sampled while   *)
(* it is written, and every source has one owner.  A fence is a number of  *)
(* commands, so what the GPU still has to do with a pair is bounded by the *)
(* pair's two fences (Fenced).  The worker's place tells which pair it     *)
(* holds and what it has waited for (Placed), the render thread's place    *)
(* which one it polls or reads (Framed), and the jobs are accounted for in *)
(* one ledger (Ledger).                                                    *)
(***************************************************************************)
EXTENDS ToolheadQueue, ToolheadReflections, FiniteSetTheorems, SequenceTheorems, TLAPS

-----------------------------------------------------------------------------
(* The inductive invariant, of the state W that handlers pass on.          *)

Parts == [p : Printers, l : Lanes, j : Queues, c : Checks]
Calm(j) == ~j.waiting /\ ~j.inFlight /\ ~j.deadline

\* A live query is about the head, which is no offset, and the queue waits for nothing.
AboutHead(W) ==
    W.c.live => /\ W.c.out /\ W.j.ops # <<>> /\ Calm(W.j)
                /\ Head(W.j.ops).n = W.c.op /\ Head(W.j.ops).kind # "offset"

\* While nothing has been sent since its start, the lane is free.
Alone(W) ==
    W.c.live /\ W.c.same =>
        /\ W.l.label = "none"
        /\ W.c.served => ~W.c.reply.owed /\ ~W.c.reply.since

Sound(W) ==
    /\ W \in Parts /\ Len(W.j.ops) <= MaxPending
    /\ W.j.waiting => W.j.ops # <<>>
    /\ AboutHead(W) /\ Alone(W)
Wired(l) == l.wire = "out" <=> (l.label # "none" /\ ~l.accepted)
Fit(W)   == Sound(W) /\ Wired(W.l)

\* Nothing, or a script that is no move, was the last to be sent.
NoMove(before, after) == after = before \/ after[Len(after)] # "move"

\* What every handler function but Checked keeps.
Keeps(W, V) == Fit(V) /\ NoMove(W.p.inbox, V.p.inbox)

Spents == [push : 0..MaxPush, press : 0..MaxPress, meddle : 0..MaxMeddle]
QueueInv == Fit(Now) /\ seen \in Views /\ spent \in Spents

LEMMA Onwards ==
    ASSUME NEW U, NEW V, NEW W, Keeps(U, V), Keeps(V, W)
    PROVE  Keeps(U, W)
BY DEF Keeps, NoMove

LEMMA Stays == ASSUME NEW W, Fit(W) PROVE Keeps(W, W)
BY DEF Keeps, NoMove

-----------------------------------------------------------------------------
(* The functions of a handler.                                             *)

LEMMA EmptyFits ==
    /\ EmptyQueue \in Queues /\ IdleLane \in Lanes /\ NoCheck \in Checks
    /\ EmptyQueue.ops = <<>> /\ Calm(EmptyQueue) /\ ~NoCheck.live /\ ~NoCheck.served
    /\ <<>> \in Seq(Ops) /\ Len(<<>>) = 0
<1>1. EmptyQueue \in Queues /\ EmptyQueue.ops = <<>> /\ Calm(EmptyQueue)
  BY DEF EmptyQueue, Queues, Calm
<1>2. IdleLane \in Lanes
  BY BoundsAssumption DEF IdleLane, Lanes, Labels
<1>3. NoReply \in Replies
  BY DEF NoReply, Replies, PrinterStates, Active
<1>4. NoCheck \in Checks /\ ~NoCheck.live /\ ~NoCheck.served
  BY <1>3, BoundsAssumption DEF NoCheck, Checks
<1>5. <<>> \in Seq(Ops) /\ Len(<<>>) = 0
  OBVIOUS
<1> QED BY <1>1, <1>2, <1>4, <1>5

\* What happens to the queue while nothing is asked.
LEMMA QueueFits ==
    ASSUME NEW W, Fit(W), ~W.c.live, NEW j \in Queues, Len(j.ops) <= MaxPending,
           j.waiting => j.ops # <<>>, NEW V, V = [W EXCEPT !.j = j]
    PROVE  /\ Keeps(W, V)
           /\ V.p = W.p /\ V.l = W.l /\ V.c = W.c /\ V.j = j
<1>1. V \in Parts /\ V.p = W.p /\ V.l = W.l /\ V.c = W.c /\ V.j = j
  BY DEF Fit, Sound, Parts
<1>2. Fit(V)
  BY <1>1 DEF Fit, Sound, AboutHead, Alone
<1> QED BY <1>1, <1>2 DEF Keeps, NoMove

LEMMA DropsFit ==
    ASSUME NEW W, Fit(W), ~W.c.live
    PROVE  Keeps(W, [W EXCEPT !.j = EmptyQueue])
<1>1. EmptyQueue \in Queues /\ Len(EmptyQueue.ops) <= MaxPending /\ ~EmptyQueue.waiting
  BY EmptyFits, BoundsAssumption DEF Calm
<1> QED BY <1>1, QueueFits

LEMMA HearsFit ==
    ASSUME NEW W, Fit(W), NEW confirmed \in BOOLEAN
    PROVE  Keeps(W, Hears(W, confirmed)) /\ Hears(W, confirmed).l = W.l
<1>1. CASE ~W.j.waiting /\ ~W.j.inFlight
  BY <1>1, Stays DEF Hears
<1>2. CASE (W.j.waiting \/ W.j.inFlight) /\ ~confirmed
  <2>1. ~W.c.live
    BY <1>2 DEF Fit, Sound, AboutHead, Calm
  <2>2. Hears(W, confirmed) = [W EXCEPT !.j = EmptyQueue]
    BY <1>2 DEF Hears
  <2>3. [W EXCEPT !.j = EmptyQueue].l = W.l
    BY DEF Fit, Sound, Parts
  <2> QED BY <2>1, <2>2, <2>3, DropsFit
<1>3. CASE (W.j.waiting \/ W.j.inFlight) /\ confirmed
  <2> DEFINE V == [W EXCEPT !.j.deadline = FALSE]
  <2>1. Hears(W, confirmed) = V
    BY <1>3 DEF Hears
  <2>2. V \in Parts /\ V.p = W.p /\ V.l = W.l /\ V.c = W.c /\ V.j.ops = W.j.ops
        /\ V.j.waiting = W.j.waiting /\ ~W.c.live
    BY <1>3 DEF Fit, Sound, Parts, Queues, AboutHead, Calm
  <2> HIDE DEF V
  <2>3. Fit(V)
    BY <2>2 DEF Fit, Sound, AboutHead, Alone
  <2> QED BY <2>1, <2>2, <2>3 DEF Keeps, NoMove
<1> QED BY <1>1, <1>2, <1>3

LEMMA SendFit ==
    ASSUME NEW W, Fit(W), NEW label \in Labels, label # "move"
    PROVE  Keeps(W, Send(W, label))
<1>1. CASE Sends(W)
  <2> DEFINE V == Send(W, label)
  <2>a. W.p \in Printers /\ W.l \in Lanes /\ W.j \in Queues /\ W.c \in Checks
    BY DEF Fit, Sound, Parts
  <2>b. V = [p |-> [W.p EXCEPT !.inbox = Append(@, label)],
             l |-> [W.l EXCEPT !.label = label, !.accepted = FALSE, !.wire = "out",
                               !.script = "waiting"],
             j |-> W.j,
             c |-> [W.c EXCEPT !.same = FALSE, !.reply.since = @ \/ W.c.served]]
    BY <1>1, Zenon DEF Send, Fit, Sound, Parts
  <2> HIDE DEF V
  <2>c. V.p \in Printers /\ V.p.inbox = Append(W.p.inbox, label)
    <3>1. V.p = [W.p EXCEPT !.inbox = Append(@, label)]
      BY <2>b
    <3>2. W.p.inbox \in Seq(Labels)
      BY <2>a DEF Printers
    <3> DEFINE inbox == Append(W.p.inbox, label)
    <3>3. inbox \in Seq(Labels)
      BY <3>2, AppendProperties
    <3> HIDE DEF inbox
    <3>4. V.p = [W.p EXCEPT !.inbox = inbox]
      BY <3>1 DEF inbox
    <3> QED BY <2>a, <3>3, <3>4 DEF Printers, inbox
  <2>d. V.l \in Lanes /\ V.l.label = label /\ V.l.wire = "out" /\ ~V.l.accepted
    BY <2>a, <2>b DEF Lanes
  <2>e. /\ V.c \in Checks /\ ~V.c.same
        /\ V.c.live = W.c.live /\ V.c.out = W.c.out /\ V.c.op = W.c.op
    BY <2>a, <2>b DEF Checks, Replies
  <2>1. /\ V \in Parts /\ V.j = W.j /\ V.p.inbox = Append(W.p.inbox, label)
        /\ V.l.label = label /\ V.l.wire = "out" /\ ~V.l.accepted
        /\ ~V.c.same /\ V.c.live = W.c.live /\ V.c.out = W.c.out /\ V.c.op = W.c.op
    BY <2>a, <2>b, <2>c, <2>d, <2>e DEF Parts
  <2>2. V.p.inbox[Len(V.p.inbox)] = label
    BY <2>1 DEF Fit, Sound, Parts, Printers
  <2>3. Fit(V)
    BY <2>1 DEF Fit, Sound, AboutHead, Alone, Wired, Labels
  <2> QED BY <2>2, <2>3 DEF Keeps, NoMove, V
<1>2. CASE ~Sends(W)
  <2> DEFINE R == [W EXCEPT !.c.same = FALSE]
  <2>1. /\ R \in Parts /\ R.p = W.p /\ R.l = W.l /\ R.j = W.j
        /\ ~R.c.same /\ R.c.live = W.c.live /\ R.c.out = W.c.out /\ R.c.op = W.c.op
    BY DEF Fit, Sound, Parts, Checks
  <2>2. Send(W, label) = IF label = "Pause" THEN Hears(R, FALSE) ELSE R
    BY <1>2 DEF Send
  <2> HIDE DEF R
  <2>3. Keeps(W, R)
    BY <2>1 DEF Fit, Sound, AboutHead, Alone, Keeps, NoMove
  <2>4. Keeps(R, Hears(R, FALSE))
    BY <2>3, HearsFit DEF Keeps
  <2> QED BY <2>2, <2>3, <2>4, Onwards
<1> QED BY <1>1, <1>2

LEMMA HeadType ==
    ASSUME NEW j \in Queues, j.ops # <<>>
    PROVE  /\ Head(j.ops) \in Ops /\ Head(j.ops).n \in 0..MaxPush
           /\ Tail(j.ops) \in Seq(Ops) /\ Len(Tail(j.ops)) = Len(j.ops) - 1
<1>1. j.ops \in Seq(Ops)
  BY DEF Queues
<1>2. Head(j.ops) \in Ops /\ Tail(j.ops) \in Seq(Ops) /\ Len(Tail(j.ops)) = Len(j.ops) - 1
  BY <1>1
<1>3. \A op \in Ops : op.n \in 0..MaxPush
  BY BoundsAssumption DEF Ops
<1> QED BY <1>2, <1>3

LEMMA QueryFit ==
    ASSUME NEW W, Fit(W), ~W.c.live, W.l.label = "none", W.j.ops # <<>>,
           Head(W.j.ops).kind # "offset", Calm(W.j)
    PROVE  Keeps(W, Query(W))
<1>a. W.p \in Printers /\ W.l \in Lanes /\ W.j \in Queues /\ W.c \in Checks
  BY DEF Fit, Sound, Parts
<1>1. CASE W.c.out
  <2> DEFINE j == [W.j EXCEPT !.ops = <<>>, !.draining = FALSE]
             c == [W.c EXCEPT !.live = FALSE]
             V == [W EXCEPT !.j = j, !.c = c]
  <2>1. Query(W) = V
    BY <1>1 DEF Query, Cancelled, Fit, Sound, Parts
  <2>2. j \in Queues /\ Len(j.ops) = 0 /\ ~j.waiting
    BY <1>a, EmptyFits DEF Queues, Calm
  <2>3. c \in Checks /\ ~c.live
    BY <1>a DEF Checks
  <2> HIDE DEF j, c
  <2>4. V \in Parts /\ V.p = W.p /\ V.l = W.l /\ V.j = j /\ V.c = c
    BY <2>2, <2>3 DEF Fit, Sound, Parts
  <2> HIDE DEF V
  <2>5. Fit(V)
    BY <2>2, <2>3, <2>4, BoundsAssumption DEF Fit, Sound, AboutHead, Alone
  <2> QED BY <2>1, <2>4, <2>5 DEF Keeps, NoMove
<1>2. CASE ~W.c.out
  <2> DEFINE c == [NoCheck EXCEPT !.out = TRUE, !.live = TRUE, !.same = TRUE,
                                  !.op = Head(W.j.ops).n]
             V == [W EXCEPT !.c = c]
  <2>1. Query(W) = V
    BY <1>2 DEF Query
  <2>2. Head(W.j.ops) \in Ops /\ Head(W.j.ops).n \in 0..MaxPush
    BY <1>a, HeadType
  <2>3. c \in Checks /\ c.out /\ c.live /\ c.op = Head(W.j.ops).n /\ ~c.served
    BY <2>2, EmptyFits DEF Checks
  <2> HIDE DEF c
  <2>4. V \in Parts /\ V.p = W.p /\ V.l = W.l /\ V.j = W.j /\ V.c = c
    BY <2>3 DEF Fit, Sound, Parts
  <2> HIDE DEF V
  <2>5. Fit(V)
    BY <2>3, <2>4 DEF Fit, Sound, AboutHead, Alone
  <2> QED BY <2>1, <2>4, <2>5 DEF Keeps, NoMove
<1> QED BY <1>1, <1>2

LEMMA PauseFirstFit ==
    ASSUME NEW W, Fit(W), ~W.c.live, W.j.ops # <<>>
    PROVE  Keeps(W, PauseFirst(W))
<1>a. W.j \in Queues /\ Len(W.j.ops) <= MaxPending
  BY DEF Fit, Sound, Parts
<1>1. CASE W.j.draining /\ ~W.j.waiting
  <2> DEFINE j == [W.j EXCEPT !.ops = <<>>, !.draining = FALSE]
  <2>1. PauseFirst(W) = [W EXCEPT !.j = j]
    BY <1>1 DEF PauseFirst, Fit, Sound, Parts
  <2>2. j \in Queues /\ Len(j.ops) = 0 /\ ~j.waiting
    BY <1>a, <1>1, EmptyFits DEF Queues
  <2> HIDE DEF j
  <2> QED BY <2>1, <2>2, BoundsAssumption, QueueFits
<1>2. CASE ~(W.j.draining /\ ~W.j.waiting)
  <2> DEFINE A == IF W.j.waiting THEN W
                  ELSE [W EXCEPT !.j.waiting = TRUE, !.j.deadline = TRUE]
  <2>1. Keeps(W, A) /\ ~A.c.live /\ A.j.ops # <<>>
    <3>1. CASE W.j.waiting
      BY <3>1, Stays
    <3>2. CASE ~W.j.waiting
      <4> DEFINE j == [W.j EXCEPT !.waiting = TRUE, !.deadline = TRUE]
      <4>1. A = [W EXCEPT !.j = j]
        BY <3>2 DEF Fit, Sound, Parts
      <4>2. j \in Queues /\ j.ops = W.j.ops
        BY <1>a DEF Queues
      <4> HIDE DEF j, A
      <4> QED BY <4>1, <4>2, <1>a, QueueFits
    <3> QED BY <3>1, <3>2
  <2>2. PauseFirst(W) =
          IF A.j.inFlight \/ Busy(A) THEN A
          ELSE IF Sends(A) THEN [Send(A, "Pause") EXCEPT !.j.inFlight = TRUE]
          ELSE Send(A, "Pause")
    BY <1>2 DEF PauseFirst
  <2> HIDE DEF A
  <2> DEFINE S == Send(A, "Pause")
  <2>3. Keeps(A, S)
    BY <2>1, SendFit DEF Keeps, Labels
  <2>4. ASSUME Sends(A)
        PROVE  Keeps(S, [S EXCEPT !.j.inFlight = TRUE])
    <3>1. S.j = A.j /\ ~S.c.live
      BY <2>1, <2>4 DEF Send, Keeps, Fit, Sound, Parts, Checks
    <3> DEFINE j == [S.j EXCEPT !.inFlight = TRUE]
    <3>2. [S EXCEPT !.j.inFlight = TRUE] = [S EXCEPT !.j = j]
      BY <2>3 DEF Keeps, Fit, Sound, Parts
    <3>3. S.j \in Queues /\ Len(S.j.ops) <= MaxPending /\ S.j.ops # <<>>
      BY <2>1, <2>3, <3>1 DEF Keeps, Fit, Sound, Parts
    <3>4. j \in Queues /\ j.ops = S.j.ops
      BY <3>3 DEF Queues
    <3> HIDE DEF j, S
    <3> QED BY <2>3, <3>1, <3>2, <3>3, <3>4, QueueFits DEF Keeps
  <2> HIDE DEF S
  <2> QED BY <2>1, <2>2, <2>3, <2>4, Onwards DEF S
<1> QED BY <1>1, <1>2

LEMMA DispatchFit ==
    ASSUME NEW W, Fit(W), ~W.c.live, W.j.ops # <<>>
    PROVE  Keeps(W, Dispatch(W))
<1>a. W.j \in Queues /\ Len(W.j.ops) <= MaxPending
  BY DEF Fit, Sound, Parts
<1> DEFINE j == [W.j EXCEPT !.waiting = FALSE, !.inFlight = FALSE, !.deadline = FALSE]
           A == [W EXCEPT !.j.waiting = FALSE, !.j.inFlight = FALSE, !.j.deadline = FALSE]
<1>1. A = [W EXCEPT !.j = j]
  BY DEF Fit, Sound, Parts
<1>2. j \in Queues /\ j.ops = W.j.ops /\ Calm(j)
  BY <1>a DEF Queues, Calm
<1>3. Dispatch(W) =
        IF Busy(A) THEN A
        ELSE IF Head(A.j.ops).kind # "offset" THEN Query(A)
        ELSE IF Sends(A) THEN [Popped(Send(A, "offset")) EXCEPT !.j.draining = Len(A.j.ops) > 1]
        ELSE Send(A, "offset")
  BY DEF Dispatch
<1> HIDE DEF j, A
<1>4. Keeps(W, A) /\ ~A.c.live /\ A.j.ops # <<>> /\ Calm(A.j)
  BY <1>1, <1>2, <1>a, QueueFits DEF Calm
<1>5. ASSUME ~Busy(A), Head(A.j.ops).kind # "offset"
      PROVE  Keeps(A, Query(A))
  BY <1>4, <1>5, QueryFit DEF Keeps, Busy
<1> DEFINE S == Send(A, "offset")
<1>6. Keeps(A, S)
  BY <1>4, SendFit DEF Keeps, Labels
<1>7. ASSUME Sends(A)
      PROVE  Keeps(S, [Popped(S) EXCEPT !.j.draining = Len(A.j.ops) > 1])
  <2>1. S.j = A.j /\ ~S.c.live
    BY <1>4, <1>7 DEF Send, Keeps, Fit, Sound, Parts, Checks
  <2> DEFINE d == Len(A.j.ops) > 1
             k == [S.j EXCEPT !.ops = Tail(@), !.draining = d]
  <2>2. [Popped(S) EXCEPT !.j.draining = d] = [S EXCEPT !.j = k]
    BY <1>6 DEF Popped, Keeps, Fit, Sound, Parts, Queues
  <2>3. S.j \in Queues /\ Len(S.j.ops) <= MaxPending /\ S.j.ops # <<>> /\ ~S.j.waiting
    BY <1>4, <1>6, <2>1 DEF Keeps, Fit, Sound, Parts, Calm
  <2>4. Tail(S.j.ops) \in Seq(Ops) /\ Len(Tail(S.j.ops)) <= MaxPending
    BY <2>3, HeadType, BoundsAssumption DEF Queues
  <2>5. d \in BOOLEAN
    OBVIOUS
  <2> HIDE DEF d, S
  <2>6. k \in Queues /\ k.ops = Tail(S.j.ops) /\ ~k.waiting
    BY <2>3, <2>4, <2>5 DEF Queues
  <2> HIDE DEF k
  <2>7. Keeps(S, [S EXCEPT !.j = k])
    BY <1>6, <2>1, <2>4, <2>6, QueueFits DEF Keeps
  <2> QED BY <2>2, <2>7 DEF d
<1> HIDE DEF S
<1> QED BY <1>3, <1>4, <1>5, <1>6, <1>7, Onwards DEF S

LEMMA PumpFit ==
    ASSUME NEW W, Fit(W), NEW s \in Views
    PROVE  Keeps(W, Pump(W, s))
<1> DEFINE gate == Gate(Head(W.j.ops).kind, s)
<1>1. Pump(W, s) =
        IF W.c.live THEN W
        ELSE IF W.j.ops = <<>> \/ gate = "disabled" THEN [W EXCEPT !.j = EmptyQueue]
        ELSE IF gate = "pause-first" THEN PauseFirst(W)
        ELSE Dispatch(W)
  <2>1. gate \in {"disabled", "pause-first", "allowed"}
    BY DEF Gate
  <2> HIDE DEF gate
  <2> QED BY <2>1 DEF Pump, gate
<1> HIDE DEF gate
<1> QED BY <1>1, Stays, DropsFit, PauseFirstFit, DispatchFit

LEMMA NextShotFit ==
    ASSUME NEW W, Fit(W)
    PROVE  Keeps(W, NextShot(W))
<1>a. W.l \in Lanes
  BY DEF Fit, Sound, Parts
<1>1. CASE W.l.shots = 0 \/ Busy(W)
  BY <1>1, Stays DEF NextShot
<1>2. CASE ~(W.l.shots = 0 \/ Busy(W))
  <2> DEFINE n == IF Sends(W) THEN W.l.shots - 1 ELSE 0
             l == [W.l EXCEPT !.shots = n]
             A == [W EXCEPT !.l = l]
  <2>1. NextShot(W) = Send(A, "shot")
    <3>1. CASE Sends(W)
      BY <1>2, <3>1 DEF NextShot, Fit, Sound, Parts
    <3>2. CASE ~Sends(W)
      BY <1>2, <3>2 DEF NextShot, Fit, Sound, Parts
    <3> QED BY <3>1, <3>2
  <2>2. n \in 0..MaxQueued
    BY <1>a, <1>2, BoundsAssumption DEF Lanes
  <2> HIDE DEF n
  <2>3. l \in Lanes /\ l.label = W.l.label /\ l.wire = W.l.wire /\ l.accepted = W.l.accepted
    BY <1>a, <2>2 DEF Lanes
  <2> HIDE DEF l
  <2>4. A \in Parts /\ A.p = W.p /\ A.l = l /\ A.j = W.j /\ A.c = W.c
    BY <2>3 DEF Fit, Sound, Parts
  <2> HIDE DEF A
  <2>5. Keeps(W, A)
    BY <2>3, <2>4 DEF Keeps, NoMove, Fit, Sound, AboutHead, Alone, Wired
  <2>6. Keeps(A, Send(A, "shot"))
    BY <2>5, SendFit DEF Keeps, Labels
  <2> QED BY <2>1, <2>5, <2>6, Onwards
<1> QED BY <1>1, <1>2

\* An answer may have come: the lane need not be wired.
LEMMA FreedFit ==
    ASSUME NEW W, Sound(W)
    PROVE  Keeps(W, Freed(W)) /\ Freed(W).c = W.c
<1>a. W.l \in Lanes
  BY DEF Sound, Parts
<1> DEFINE l == [W.l EXCEPT !.label = "none", !.accepted = FALSE,
                            !.wire = IF @ = "out" THEN "old" ELSE @]
           V == [W EXCEPT !.l = l]
<1>1. Freed(W) = V
  BY DEF Freed, Sound, Parts
<1>2. l \in Lanes /\ l.label = "none" /\ l.wire # "out"
  BY <1>a DEF Lanes
<1> HIDE DEF l
<1>3. V \in Parts /\ V.p = W.p /\ V.l = l /\ V.j = W.j /\ V.c = W.c
  BY <1>2 DEF Sound, Parts
<1> HIDE DEF V
<1>4. Fit(V)
  BY <1>2, <1>3 DEF Fit, Sound, AboutHead, Alone, Wired
<1> QED BY <1>1, <1>3, <1>4 DEF Keeps, NoMove

LEMMA VerdictsFit ==
    ASSUME NEW W, Sound(W), NEW s \in Views, NEW confirmed \in BOOLEAN
    PROVE  /\ Keeps(W, Released(W, s))
           /\ Keeps(W, Settled(W, s, confirmed))
           /\ Keeps(W, Concluded(W, s, confirmed))
<1> DEFINE F == Freed(W)
<1>1. Keeps(W, F) /\ Fit(F)
  BY FreedFit DEF Keeps
<1> HIDE DEF F
<1> DEFINE N == NextShot(F)
<1>2. Keeps(F, N) /\ Fit(N)
  BY <1>1, NextShotFit DEF Keeps
<1> HIDE DEF N
<1>3. Keeps(W, Released(W, s))
  <2>1. Keeps(N, Pump(N, s))
    BY <1>2, PumpFit
  <2> QED BY <1>1, <1>2, <2>1, Onwards DEF Released, N, F
<1> DEFINE P == Pump(F, s)
<1>4. Keeps(F, P) /\ Fit(P)
  BY <1>1, PumpFit DEF Keeps
<1> HIDE DEF P
<1> DEFINE Q == NextShot(P)
<1>5. Keeps(P, Q) /\ Fit(Q)
  BY <1>4, NextShotFit DEF Keeps
<1> HIDE DEF Q
<1> DEFINE H == Hears(Q, confirmed)
<1>6. Keeps(Q, H) /\ Fit(H)
  BY <1>5, HearsFit DEF Keeps
<1> HIDE DEF H
<1>7. Keeps(W, H) /\ H = Settled(W, s, confirmed)
  BY <1>1, <1>4, <1>5, <1>6, Onwards DEF H, Q, P, F, Settled
<1>8. Keeps(H, Pump(H, s))
  BY <1>6, PumpFit
<1>9. Concluded(W, s, confirmed) = IF Busy(H) THEN H ELSE Pump(H, s)
  BY <1>7 DEF Concluded
<1> QED BY <1>3, <1>7, <1>8, <1>9, Onwards

LEMMA CancelledFit ==
    ASSUME NEW W, Fit(W), ~W.j.waiting
    PROVE  Keeps(W, Cancelled(W))
<1>a. W.j \in Queues /\ W.c \in Checks
  BY DEF Fit, Sound, Parts
<1> DEFINE j == [W.j EXCEPT !.ops = <<>>]
           c == [W.c EXCEPT !.live = FALSE]
           V == [W EXCEPT !.j = j, !.c = c]
<1>1. Cancelled(W) = V
  BY DEF Cancelled, Fit, Sound, Parts
<1>2. j \in Queues /\ Len(j.ops) = 0 /\ ~j.waiting
  BY <1>a, EmptyFits DEF Queues
<1>3. c \in Checks /\ ~c.live
  BY <1>a DEF Checks
<1> HIDE DEF j, c
<1>4. V \in Parts /\ V.p = W.p /\ V.l = W.l /\ V.j = j /\ V.c = c
  BY <1>2, <1>3 DEF Fit, Sound, Parts
<1> HIDE DEF V
<1>5. Fit(V)
  BY <1>2, <1>3, <1>4, BoundsAssumption DEF Fit, Sound, AboutHead, Alone
<1> QED BY <1>1, <1>4, <1>5 DEF Keeps, NoMove

LEMMA ForgetsFit ==
    ASSUME NEW W, Fit(W)
    PROVE  /\ Keeps(W, [W EXCEPT !.c = NoCheck])
           /\ ~[W EXCEPT !.c = NoCheck].c.live /\ [W EXCEPT !.c = NoCheck].j = W.j
<1> DEFINE V == [W EXCEPT !.c = NoCheck]
<1>1. V \in Parts /\ V.p = W.p /\ V.l = W.l /\ V.j = W.j /\ V.c = NoCheck
  BY EmptyFits DEF Fit, Sound, Parts
<1> HIDE DEF V
<1>2. Fit(V)
  BY <1>1, EmptyFits DEF Fit, Sound, AboutHead, Alone
<1> QED BY <1>1, <1>2, EmptyFits DEF Keeps, NoMove, V

LEMMA ResetFit ==
    ASSUME NEW W, Fit(W)
    PROVE  Keeps(W, Reset(W))
<1>a. W.l \in Lanes /\ W.c \in Checks
  BY DEF Fit, Sound, Parts
<1> DEFINE l == [IdleLane EXCEPT !.wire = IF W.l.wire = "none" THEN "none" ELSE "old",
                                 !.script = W.l.script]
           c == [W.c EXCEPT !.live = FALSE]
           V == [W EXCEPT !.j = EmptyQueue, !.c = c, !.l = l]
<1>1. Reset(W) = V
  BY DEF Reset, Fit, Sound, Parts
<1>2. l \in Lanes /\ l.wire # "out" /\ l.label = "none"
  BY <1>a, EmptyFits DEF Lanes, IdleLane
<1>3. c \in Checks /\ ~c.live
  BY <1>a DEF Checks
<1> HIDE DEF l, c
<1>4. V \in Parts /\ V.p = W.p /\ V.l = l /\ V.j = EmptyQueue /\ V.c = c
  BY <1>2, <1>3, EmptyFits DEF Fit, Sound, Parts
<1> HIDE DEF V
<1>5. Fit(V)
  BY <1>2, <1>3, <1>4, EmptyFits, BoundsAssumption DEF Fit, Sound, AboutHead, Alone, Wired, Calm
<1> QED BY <1>1, <1>4, <1>5 DEF Keeps, NoMove

LEMMA PoppedIs ==
    ASSUME NEW S, S.j \in Queues, S = [p |-> S.p, l |-> S.l, j |-> S.j, c |-> S.c]
    PROVE  [Popped(S) EXCEPT !.c = NoCheck]
             = [p |-> S.p, l |-> S.l, c |-> NoCheck,
                j |-> [S.j EXCEPT !.ops = Tail(S.j.ops), !.draining = TRUE]]
<1> DEFINE V == Popped(S)
<1>1. V.p = S.p /\ V.l = S.l /\ V.c = S.c
  BY DEF Popped
<1>2. V.j = [S.j EXCEPT !.ops = Tail(S.j.ops), !.draining = TRUE]
  BY DEF Popped, Queues
<1>3. V = [x \in {"p", "l", "j", "c"} |-> V[x]]
  BY DEF Popped
<1> HIDE DEF V
<1> QED BY <1>1, <1>2, <1>3 DEF V

\* The answer is about a head that is no offset, so neither state is a print's.
LEMMA CheckedFit ==
    ASSUME NEW W, Fit(W), NEW s \in Views, W.c.live, W.c.served,
           NEW V, V = Checked(W, s)
    PROVE  /\ Fit(V)
           /\ \/ NoMove(W.p.inbox, V.p.inbox)
              \/ /\ ~W.c.reply.owed /\ ~W.c.reply.since
                 /\ W.c.reply.state # "printing" /\ s.state # "printing" /\ s.open
<1> DEFINE A == [W EXCEPT !.c = NoCheck]
<1>a. W.p \in Printers /\ W.l \in Lanes /\ W.j \in Queues /\ W.c \in Checks
      /\ Len(W.j.ops) <= MaxPending
  BY DEF Fit, Sound, Parts
<1>b. W.j.ops # <<>> /\ Calm(W.j) /\ Head(W.j.ops).kind # "offset"
  BY DEF Fit, Sound, AboutHead
<1>1. Keeps(W, A) /\ ~A.c.live /\ A.j = W.j
  BY ForgetsFit
<1>2. CASE ~Asks(W)
  BY <1>1, <1>2 DEF Checked, Keeps
<1>3. CASE Asks(W) /\ Forbidden(W, s)
  <2>1. V = Cancelled(A)
    BY <1>3 DEF Checked
  <2> HIDE DEF A
  <2>2. Keeps(A, Cancelled(A))
    BY <1>1, <1>b, CancelledFit DEF Keeps, Calm
  <2> QED BY <1>1, <2>1, <2>2, Onwards DEF Keeps
<1>4. CASE Asks(W) /\ ~Forbidden(W, s) /\ (Busy(W) \/ ~W.c.same \/ ~Sends(W))
  BY <1>1, <1>4 DEF Checked, Keeps
<1>5. CASE Asks(W) /\ ~Forbidden(W, s) /\ ~(Busy(W) \/ ~W.c.same \/ ~Sends(W))
  <2>1. V = [Popped(Send(A, "move")) EXCEPT !.c = NoCheck]
    BY <1>5 DEF Checked
  <2> DEFINE inbox == Append(W.p.inbox, "move")
             p == [W.p EXCEPT !.inbox = inbox]
             l == [W.l EXCEPT !.label = "move", !.accepted = FALSE, !.wire = "out",
                              !.script = "waiting"]
             j == [W.j EXCEPT !.ops = Tail(@), !.draining = TRUE]
  <2>2. V = [p |-> p, l |-> l, j |-> j, c |-> NoCheck]
    <3>1. A = [p |-> W.p, l |-> W.l, j |-> W.j, c |-> NoCheck] /\ Sends(A)
      BY <1>5 DEF Fit, Sound, Parts, Sends
    <3>2. Send(A, "move") = [p |-> p, l |-> l, j |-> W.j,
                             c |-> [A.c EXCEPT !.same = FALSE,
                                               !.reply.since = @ \/ A.c.served]]
      BY <3>1, Zenon DEF Send
    <3> DEFINE S == Send(A, "move")
    <3>3. S.p = p /\ S.l = l /\ S.j = W.j /\ S = [p |-> S.p, l |-> S.l, j |-> S.j, c |-> S.c]
      BY <3>2
    <3> HIDE DEF S, p, l
    <3>4. [Popped(S) EXCEPT !.c = NoCheck] = [p |-> p, l |-> l, j |-> j, c |-> NoCheck]
      BY <1>a, <3>3, PoppedIs
    <3> QED BY <2>1, <3>4 DEF S
  <2>3. inbox \in Seq(Labels)
    BY <1>a, AppendProperties DEF Printers, Labels
  <2> HIDE DEF inbox
  <2>4. p \in Printers
    BY <1>a, <2>3 DEF Printers
  <2>5. l \in Lanes /\ l.wire = "out" /\ l.label = "move" /\ ~l.accepted
    BY <1>a DEF Lanes, Labels
  <2>6. Tail(W.j.ops) \in Seq(Ops) /\ Len(Tail(W.j.ops)) <= MaxPending
    BY <1>a, <1>b, HeadType, BoundsAssumption DEF Queues
  <2>7. j \in Queues /\ j.ops = Tail(W.j.ops) /\ ~j.waiting
    BY <1>a, <1>b, <2>6 DEF Queues, Calm
  <2> HIDE DEF p, l, j
  <2> HIDE DEF A
  <2>8. Fit(V)
    <3>1. V.p = p /\ V.l = l /\ V.j = j /\ V.c = NoCheck /\ V \in Parts
      BY <2>2, <2>4, <2>5, <2>7, EmptyFits DEF Parts
    <3>2. AboutHead(V) /\ Alone(V) /\ Wired(V.l)
      BY <2>5, <3>1, EmptyFits DEF AboutHead, Alone, Wired
    <3> QED BY <2>6, <2>7, <3>1, <3>2 DEF Fit, Sound
  <2>9. ~W.c.reply.owed /\ ~W.c.reply.since
    BY <1>5 DEF Fit, Sound, Alone
  <2> DEFINE kind == Head(W.j.ops).kind
  <2>10. kind \in {"jog", "idle"}
    BY <1>a, <1>b, HeadType DEF Ops, Kinds
  <2>11. /\ Gate(kind, [s EXCEPT !.state = s.state]) = "allowed"
         /\ Gate(kind, [s EXCEPT !.state = W.c.reply.state]) = "allowed"
    BY <1>5 DEF Forbidden
  <2> HIDE DEF kind
  <2>12. ASSUME NEW state, Gate(kind, [s EXCEPT !.state = state]) = "allowed"
         PROVE  s.open /\ state # "printing"
    <3> DEFINE t == [s EXCEPT !.state = state]
    <3>1. t.state = state /\ t.open = s.open
      BY DEF Views
    <3> HIDE DEF t
    <3>2. Gate(kind, t) = "allowed"
      BY <2>12 DEF t
    <3>3. t.open /\ t.state # "unknown"
      BY <3>2 DEF Gate
    <3>4. kind = "jog" => t.state # "printing"
      BY <3>2, <3>3 DEF Gate
    <3>5. kind = "idle" => t.state # "printing"
      BY <3>2, <3>3 DEF Gate, Active
    <3>6. t.state # "printing"
      BY <3>4, <3>5, <2>10
    <3> QED BY <3>1, <3>3, <3>6
  <2> QED BY <2>8, <2>9, <2>11, <2>12
<1> QED BY <1>2, <1>3, <1>4, <1>5

-----------------------------------------------------------------------------
(* The steps.                                                              *)

Good == MoveIsSent => IsChecked

LEMMA NowIsFit ==
    ASSUME QueueInv
    PROVE  /\ Fit(Now) /\ Sound(Now) /\ seen \in Views
           /\ Now.p = printer /\ Now.l = lane /\ Now.j = jog /\ Now.c = check
           /\ printer \in Printers /\ lane \in Lanes /\ jog \in Queues /\ check \in Checks
BY DEF QueueInv, Fit, Sound, Parts, Now

LEMMA SetFits ==
    ASSUME NEW W, Fit(W), Set(W)
    PROVE  Fit(Now)'
<1>1. W = [p |-> W.p, l |-> W.l, j |-> W.j, c |-> W.c]
  BY DEF Fit, Sound, Parts
<1>2. Now' = W
  BY <1>1 DEF Set, Now
<1> QED BY <1>2 DEF Fit, Sound, AboutHead, Alone

LEMMA NoMoveIsGood ==
    ASSUME NEW V, NoMove(printer.inbox, V.p.inbox), Set(V)
    PROVE  Good
BY DEF NoMove, Set, Good, MoveIsSent

\* What is left for a step whose functions keep the state fit.
LEMMA KeptIsGood ==
    ASSUME QueueInv, NEW V, Keeps(Now, V), Set(V)
    PROVE  Fit(Now)' /\ Good
BY SetFits, NoMoveIsGood, NowIsFit DEF Keeps

LEMMA Spending ==
    ASSUME spent \in Spents,
           \/ Spend("push", MaxPush) \/ Spend("press", MaxPress) \/ Spend("meddle", MaxMeddle)
    PROVE  spent' \in Spents
BY BoundsAssumption DEF Spents, Spend

LEMMA QueueGrows ==
    ASSUME NEW ops \in Seq(Ops), NEW op \in Ops
    PROVE  /\ Append(ops, op) \in Seq(Ops) /\ Append(ops, op) # <<>>
           /\ Len(Append(ops, op)) = Len(ops) + 1
           /\ ops # <<>> => Head(Append(ops, op)) = Head(ops)
<1>1. /\ Append(ops, op) \in Seq(Ops) /\ Len(Append(ops, op)) = Len(ops) + 1
      /\ ops # <<>> => Len(ops) >= 1 /\ Append(ops, op)[1] = ops[1]
  BY AppendProperties, EmptySeq
<1> QED BY <1>1, HeadTailProperties

LEMMA PushIsGood ==
    ASSUME QueueInv, NEW kind \in Kinds, Push(kind)
    PROVE  QueueInv' /\ Good
<1> DEFINE op == [kind |-> kind, n |-> spent.push + 1]
           A == [Now EXCEPT !.j.ops = Append(@, op)]
<1>1. op \in Ops
  BY BoundsAssumption DEF QueueInv, Push, Spend, Spents, Ops
<1>2. CASE Len(jog.ops) < MaxPending
  <2> DEFINE ops == Append(jog.ops, op)
             j == [jog EXCEPT !.ops = ops]
  <2>1. jog.ops \in Seq(Ops) /\ Len(jog.ops) \in Nat
    BY NowIsFit DEF Queues
  <2>2. /\ ops \in Seq(Ops) /\ Len(ops) <= MaxPending /\ ops # <<>>
        /\ jog.ops # <<>> => Head(ops) = Head(jog.ops)
    BY <1>1, <1>2, <2>1, QueueGrows, BoundsAssumption
  <2>3. A = [Now EXCEPT !.j = j]
    BY DEF Now
  <2> HIDE DEF op, ops
  <2>4. /\ j \in Queues /\ j.ops = ops /\ j.waiting = jog.waiting
        /\ j.inFlight = jog.inFlight /\ j.deadline = jog.deadline
    BY <2>2, NowIsFit DEF Queues
  <2> HIDE DEF j, A
  <2>5. A \in Parts /\ A.p = printer /\ A.l = lane /\ A.j = j /\ A.c = check
    BY <2>3, <2>4, NowIsFit DEF Parts, Now
  <2>6. Keeps(Now, A)
    BY <2>2, <2>4, <2>5, NowIsFit DEF Keeps, NoMove, Fit, Sound, AboutHead, Calm, Alone
  <2>7. Keeps(A, Pump(A, seen))
    BY <2>6, PumpFit, NowIsFit DEF Keeps
  <2>8. Set(Pump(A, seen))
    BY <1>2 DEF Push, A, op
  <2> QED BY <2>6, <2>7, <2>8, Onwards, KeptIsGood, Spending DEF Push, QueueInv
<1>3. CASE ~(Len(jog.ops) < MaxPending)
  <2>1. Set(Pump(Now, seen))
    BY <1>3 DEF Push
  <2>2. Keeps(Now, Pump(Now, seen))
    BY NowIsFit, PumpFit
  <2> QED BY <2>1, <2>2, KeptIsGood, Spending DEF Push, QueueInv
<1> QED BY <1>2, <1>3

LEMMA PressIsGood ==
    ASSUME QueueInv, PressShot \/ PressPause
    PROVE  QueueInv' /\ Good
<1>1. ASSUME NEW label \in {"shot", "Pause"}, Set(Pump(Send(Now, label), seen))
      PROVE  Fit(Now)' /\ Good
  <2>1. Keeps(Now, Send(Now, label))
    BY NowIsFit, SendFit DEF Labels
  <2>2. Keeps(Send(Now, label), Pump(Send(Now, label), seen))
    BY <2>1, NowIsFit, PumpFit DEF Keeps
  <2> QED BY <1>1, <2>1, <2>2, Onwards, KeptIsGood
<1>2. ASSUME PressShot, Busy(Now)
      PROVE  Fit(Now)' /\ Good
  <2> DEFINE n == lane.shots + 1
             l == [lane EXCEPT !.shots = n]
             A == [Now EXCEPT !.l = l]
  <2>1. n \in 0..MaxQueued
    BY <1>2, NowIsFit, BoundsAssumption DEF PressShot, Lanes
  <2>2. l \in Lanes /\ l.label = lane.label /\ l.accepted = lane.accepted /\ l.wire = lane.wire
    BY <2>1, NowIsFit DEF Lanes
  <2>3. A.p = printer /\ A.l = lane' /\ A.j = jog /\ A.c = check
    BY <1>2 DEF PressShot, Now
  <2> HIDE DEF n, l
  <2>4. A \in Parts /\ A.l = l
    BY <2>2, NowIsFit DEF Parts, Now
  <2> HIDE DEF A
  <2>5. Keeps(Now, A)
    BY <2>2, <2>3, <2>4, NowIsFit DEF Keeps, NoMove, Fit, Sound, AboutHead, Alone, Wired
  <2>6. Set(A)
    BY <1>2, <2>3 DEF Set, PressShot
  <2> QED BY <2>5, <2>6, KeptIsGood
<1>3. Fit(Now)' /\ Good
  BY <1>1, <1>2 DEF PressShot, PressPause
<1> QED BY <1>3, Spending DEF PressShot, PressPause, QueueInv

\* Lock, Open, Tick and the printer's own steps.
LEMMA SeenIsGood ==
    ASSUME QueueInv, Lock \/ Open \/ Tick
    PROVE  QueueInv' /\ Good
<1>1. CASE Lock \/ Open
  <2>1. Keeps(Now, Now) /\ Set(Now)
    BY <1>1, NowIsFit, Stays DEF Lock, Open, Set
  <2>2. seen' \in Views
    BY <1>1, NowIsFit DEF Lock, Open, Views
  <2> QED BY <1>1, <2>1, <2>2, KeptIsGood, Spending DEF Lock, Open, QueueInv
<1>2. CASE Tick
  <2>1. Keeps(Now, Pump(Now, seen))
    BY NowIsFit, PumpFit
  <2> QED BY <1>2, <2>1, KeptIsGood DEF Tick, QueueInv
<1> QED BY <1>1, <1>2

LEMMA EmergencyIsGood ==
    ASSUME QueueInv, EmergencyStop
    PROVE  QueueInv' /\ Good
<1> DEFINE s == [seen EXCEPT !.state = IF @ = "unknown" THEN @ ELSE "idle", !.assumed = TRUE]
           W == Reset(Pump(Now, s))
           V == [W EXCEPT !.p = [state |-> "idle", inbox |-> <<>>],
                          !.l.script = IF @ = "waiting" THEN "lost" ELSE @]
<1>1. s \in Views
  BY NowIsFit DEF Views, PrinterStates
<1>2. seen' = s /\ Spend("meddle", MaxMeddle) /\ (Set(W) \/ Set(V))
  BY DEF EmergencyStop
<1> HIDE DEF s
<1>3. Keeps(Now, Pump(Now, s))
  BY <1>1, NowIsFit, PumpFit
<1>4. Keeps(Pump(Now, s), W)
  BY <1>3, ResetFit DEF Keeps
<1>5. Keeps(Now, W)
  BY <1>3, <1>4, Onwards
<1> HIDE DEF W
<1>6. CASE Set(W)
  BY <1>1, <1>2, <1>5, <1>6, KeptIsGood, Spending DEF QueueInv
<1>7. CASE Set(V)
  <2> DEFINE p == [state |-> "idle", inbox |-> <<>>]
             l == [W.l EXCEPT !.script = IF @ = "waiting" THEN "lost" ELSE @]
  <2>1. /\ W.p \in Printers /\ W.l \in Lanes /\ W.j \in Queues /\ W.c \in Checks
        /\ V = [W EXCEPT !.p = p, !.l = l]
    BY <1>5 DEF Keeps, Fit, Sound, Parts
  <2>2. p \in Printers /\ p.inbox = <<>>
    BY DEF Printers, PrinterStates, Labels
  <2>3. l \in Lanes /\ l.label = W.l.label /\ l.accepted = W.l.accepted /\ l.wire = W.l.wire
    BY <2>1 DEF Lanes
  <2> HIDE DEF p, l, V
  <2>4. V \in Parts /\ V.p = p /\ V.l = l /\ V.j = W.j /\ V.c = W.c
    BY <1>5, <2>1, <2>2, <2>3 DEF Keeps, Fit, Sound, Parts
  <2>5. Fit(V)
    BY <1>5, <2>3, <2>4 DEF Keeps, Fit, Sound, AboutHead, Alone, Wired
  <2>6. Good
    <3>1. printer'.inbox = <<>> /\ Len(printer.inbox) \in Nat
      BY <1>7, <2>2, <2>4, NowIsFit DEF Set, Printers
    <3> QED BY <3>1 DEF Good, MoveIsSent
  <2> QED BY <1>1, <1>2, <1>7, <2>5, <2>6, SetFits, Spending DEF QueueInv
<1> QED BY <1>2, <1>6, <1>7

LEMMA SessionIsGood ==
    ASSUME QueueInv, SessionLost
    PROVE  QueueInv' /\ Good
<1> DEFINE V == [Now EXCEPT !.l = IdleLane, !.j = EmptyQueue, !.c = NoCheck]
<1>1. V.p = printer /\ V.l = IdleLane /\ V.j = EmptyQueue /\ V.c = NoCheck
  BY DEF Now
<1>2. V \in Parts
  BY NowIsFit, EmptyFits DEF Parts, Now
<1>3. Set(V) /\ seen' = [state |-> "unknown", open |-> FALSE, assumed |-> FALSE]
  BY DEF SessionLost
<1> HIDE DEF V
<1>4. Keeps(Now, V)
  BY <1>1, <1>2, NowIsFit, EmptyFits, BoundsAssumption
     DEF Keeps, NoMove, Fit, Sound, AboutHead, Alone, Wired, IdleLane, Calm
<1>5. seen' \in Views
  BY <1>3 DEF Views
<1> QED BY <1>3, <1>4, <1>5, KeptIsGood, Spending DEF SessionLost, QueueInv

LEMMA FrameIsGood ==
    ASSUME QueueInv, AdmitFrame
    PROVE  QueueInv' /\ Good
<1> DEFINE s == [seen EXCEPT !.state = IF seen.assumed /\ printer.state \in Active THEN "idle"
                                       ELSE printer.state,
                             !.assumed = @ /\ printer.state \in Active]
           confirms == lane.label = "Pause" /\ lane.accepted /\ printer.state = "paused"
           retires  == /\ lane.label = "Pause" /\ ~confirms /\ ~seen.assumed
                       /\ seen.state \notin Active /\ printer.state \in Active
           A == IF retires THEN Settled(Now, seen, FALSE) ELSE Now
           B == Pump(A, s)
           C == IF confirms THEN Settled(B, s, TRUE) ELSE B
<1>1. s \in Views
  BY NowIsFit DEF Views, Printers, PrinterStates
<1>2. seen' = s /\ Set(C) /\ spent' = spent
  BY Zenon DEF AdmitFrame
<1> HIDE DEF s, confirms, retires
<1>3. Keeps(Now, A)
  BY NowIsFit, Stays, VerdictsFit
<1> HIDE DEF A
<1>4. Keeps(A, B)
  BY <1>1, <1>3, PumpFit DEF Keeps
<1> HIDE DEF B
<1>5. Keeps(B, C)
  <2>1. Fit(B) /\ Sound(B)
    BY <1>4 DEF Keeps, Fit
  <2> QED BY <1>1, <2>1, Stays, VerdictsFit
<1> HIDE DEF C
<1> QED BY <1>1, <1>2, <1>3, <1>4, <1>5, Onwards, KeptIsGood DEF QueueInv

LEMMA ReplyIsGood ==
    ASSUME QueueInv, NEW ok \in BOOLEAN, Reply(ok)
    PROVE  QueueInv' /\ Good
<1> DEFINE l == [lane EXCEPT !.wire = "none", !.script = "none"]
           W == [Now EXCEPT !.l.wire = "none", !.l.script = "none"]
           A == [W EXCEPT !.l.accepted = TRUE]
<1>a. l \in Lanes /\ l.wire = "none" /\ l.label = lane.label /\ l.accepted = lane.accepted
  BY NowIsFit DEF Lanes
<1>b. W = [Now EXCEPT !.l = l]
  BY DEF Now
<1> HIDE DEF l
<1>c. W \in Parts /\ W.p = printer /\ W.l = l /\ W.j = jog /\ W.c = check
  BY <1>a, <1>b, NowIsFit DEF Parts, Now
<1> HIDE DEF W
<1>1. Sound(W) /\ NoMove(printer.inbox, W.p.inbox)
  BY <1>a, <1>c, NowIsFit DEF Sound, AboutHead, Alone, NoMove
<1>2. CASE lane.wire = "old"
  <2>1. Keeps(Now, W)
    BY <1>1, <1>2, <1>a, <1>c, NowIsFit DEF Keeps, Fit, Wired
  <2>2. Set(W)
    BY <1>2 DEF Reply, W
  <2> QED BY <2>1, <2>2, KeptIsGood DEF Reply, QueueInv
<1>3. CASE lane.wire = "out" /\ lane.label # "Pause"
  <2>1. Set(Released(W, seen))
    BY <1>3 DEF Reply, W
  <2>2. Keeps(Now, Released(W, seen))
    BY <1>1, <1>c, NowIsFit, VerdictsFit DEF Keeps
  <2> QED BY <2>1, <2>2, KeptIsGood DEF Reply, QueueInv
<1>4. CASE lane.wire = "out" /\ lane.label = "Pause"
  <2>1. CASE ok /\ seen.state # "paused"
    <3>1. Set(Pump(A, seen))
      BY <1>4, <2>1 DEF Reply, W
    <3> DEFINE m == [l EXCEPT !.accepted = TRUE]
    <3>2. m \in Lanes /\ m.wire = "none" /\ m.label = lane.label /\ m.accepted
      BY <1>a DEF Lanes
    <3>3. A = [W EXCEPT !.l = m]
      BY <1>c DEF Parts
    <3> HIDE DEF m
    <3>4. A \in Parts /\ A.p = printer /\ A.l = m /\ A.j = jog /\ A.c = check
      BY <1>c, <3>2, <3>3 DEF Parts
    <3> HIDE DEF A
    <3>5. Keeps(Now, A)
      BY <1>1, <1>a, <1>c, <3>2, <3>4, NowIsFit
         DEF Keeps, Fit, Sound, AboutHead, Alone, Wired, NoMove
    <3>6. Keeps(A, Pump(A, seen))
      BY <3>5, NowIsFit, PumpFit DEF Keeps
    <3> QED BY <3>1, <3>5, <3>6, Onwards, KeptIsGood DEF Reply, QueueInv
  <2>2. CASE ~(ok /\ seen.state # "paused")
    <3>1. Set(Concluded(W, seen, ok))
      BY <1>4, <2>2 DEF Reply, W
    <3>2. Keeps(Now, Concluded(W, seen, ok))
      BY <1>1, <1>c, NowIsFit, VerdictsFit DEF Keeps
    <3> QED BY <3>1, <3>2, KeptIsGood DEF Reply, QueueInv
  <2> QED BY <2>1, <2>2
<1>5. lane.wire \in {"out", "old"}
  BY NowIsFit DEF Reply, Lanes
<1> QED BY <1>2, <1>3, <1>4, <1>5

LEMMA PauseIsGood ==
    ASSUME QueueInv, PauseExpires \/ PauseFailed
    PROVE  QueueInv' /\ Good
<1>1. CASE PauseExpires
  <2>1. Keeps(Now, Settled(Now, seen, FALSE))
    BY NowIsFit, VerdictsFit
  <2> QED BY <1>1, <2>1, KeptIsGood DEF PauseExpires, QueueInv
<1>2. CASE PauseFailed
  <2> DEFINE j == [jog EXCEPT !.ops = <<>>, !.waiting = FALSE, !.draining = FALSE,
                              !.deadline = FALSE]
             V == [Now EXCEPT !.j = j]
  <2>1. j \in Queues /\ Len(j.ops) = 0 /\ ~j.waiting /\ jog' = j
    BY <1>2, NowIsFit, EmptyFits DEF PauseFailed, Queues
  <2>2. ~Now.c.live
    BY <1>2, NowIsFit DEF PauseFailed, Fit, Sound, AboutHead, Calm
  <2> HIDE DEF j
  <2>3. Keeps(Now, V) /\ V.p = Now.p /\ V.l = Now.l /\ V.c = Now.c /\ V.j = j
    BY <2>1, <2>2, NowIsFit, BoundsAssumption, QueueFits
  <2> HIDE DEF V
  <2>4. Set(V)
    BY <1>2, <2>1, <2>3, NowIsFit DEF PauseFailed, Set
  <2> QED BY <1>2, <2>3, <2>4, KeptIsGood DEF PauseFailed, QueueInv
<1> QED BY <1>1, <1>2

LEMMA QueryIsGood ==
    ASSUME QueueInv, Answer \/ Refused \/ QueryExpires
    PROVE  QueueInv' /\ Good
<1> DEFINE A == [Now EXCEPT !.c = NoCheck]
<1>1. Keeps(Now, A) /\ A.j = jog
  BY NowIsFit, ForgetsFit
<1>2. check.live => ~jog.waiting
  BY NowIsFit DEF Fit, Sound, AboutHead, Calm
<1> HIDE DEF A
<1>3. CASE Answer
  <2>1. CASE check.live
    <3> DEFINE V == Checked(Now, seen)
    <3>1. Set(V) /\ check.served
      BY <1>3, <2>1 DEF Answer
    <3>2. /\ Fit(V)
          /\ \/ NoMove(printer.inbox, V.p.inbox)
             \/ /\ ~check.reply.owed /\ ~check.reply.since
                /\ check.reply.state # "printing" /\ seen.state # "printing" /\ seen.open
      BY <2>1, <3>1, NowIsFit, CheckedFit
    <3> HIDE DEF V
    <3>3. Good
      BY <2>1, <3>1, <3>2, NoMoveIsGood DEF Good, IsChecked
    <3> QED BY <1>3, <3>1, <3>2, <3>3, SetFits DEF Answer, QueueInv
  <2>2. CASE ~check.live
    BY <1>1, <1>3, <2>2, KeptIsGood DEF Answer, QueueInv, A
  <2> QED BY <2>1, <2>2
<1>4. CASE Refused
  <2>1. CASE check.live
    <3>1. Keeps(A, Cancelled(A))
      BY <1>1, <1>2, <2>1, CancelledFit DEF Keeps
    <3>2. Set(Cancelled(A))
      BY <1>4, <2>1 DEF Refused, A
    <3> QED BY <1>1, <1>4, <3>1, <3>2, Onwards, KeptIsGood DEF Refused, QueueInv
  <2>2. CASE ~check.live
    BY <1>1, <1>4, <2>2, KeptIsGood DEF Refused, QueueInv, A
  <2> QED BY <2>1, <2>2
<1>5. CASE QueryExpires
  <2>1. Keeps(Now, Cancelled(Now))
    BY <1>2, <1>5, NowIsFit, CancelledFit DEF QueryExpires
  <2> QED BY <1>5, <2>1, KeptIsGood DEF QueryExpires, QueueInv
<1> QED BY <1>3, <1>4, <1>5

LEMMA ServeIsGood ==
    ASSUME QueueInv, Serve
    PROVE  QueueInv' /\ Good
<1> DEFINE r == [state |-> printer.state, since |-> FALSE, behind |-> printer.inbox # <<>>,
                 owed |-> lane.wire = "out" /\ lane.script = "waiting"]
           c == [check EXCEPT !.served = TRUE, !.reply = r]
           V == [Now EXCEPT !.c = c]
<1>1. r \in Replies /\ (r.owed => lane.wire = "out") /\ ~r.since
  BY NowIsFit DEF Replies, Printers
<1>2. check' = c
  BY DEF Serve
<1> HIDE DEF r
<1>3. /\ c \in Checks /\ c.reply = r /\ c.live = check.live /\ c.out = check.out
      /\ c.op = check.op /\ c.same = check.same
  BY <1>1, NowIsFit DEF Checks
<1> HIDE DEF c
<1>4. V.p = printer /\ V.l = lane /\ V.j = jog /\ V.c = c /\ V \in Parts
  BY <1>3, NowIsFit DEF Now, Parts
<1> HIDE DEF V
<1>5. Keeps(Now, V)
  <2>1. Alone(V)
    BY <1>1, <1>3, <1>4, NowIsFit DEF Alone, Fit, Sound, Wired
  <2>2. AboutHead(V)
    BY <1>3, <1>4, NowIsFit DEF AboutHead, Fit, Sound
  <2> QED BY <1>4, <2>1, <2>2, NowIsFit DEF Keeps, Fit, Sound, NoMove
<1>6. Set(V)
  BY <1>2, <1>4 DEF Serve, Set
<1> QED BY <1>5, <1>6, KeptIsGood DEF Serve, QueueInv

\* Klipper and its other clients send nothing and shorten the inbox at most.
LEMMA PrinterIsGood ==
    ASSUME QueueInv, Run \/ Lost \/ Other
    PROVE  QueueInv' /\ Good
<1>1. /\ printer.inbox \in Seq(Labels) /\ Len(printer.inbox) \in Nat
      /\ printer.state \in PrinterStates
  BY NowIsFit DEF Printers
<1>2. printer' \in Printers /\ Len(printer'.inbox) <= Len(printer.inbox)
  <2>1. CASE Run
    <3> DEFINE state == IF Head(printer.inbox) = "Pause" /\ printer.state = "printing"
                        THEN "paused" ELSE printer.state
               rest == Tail(printer.inbox)
    <3>1. rest \in Seq(Labels) /\ Len(rest) <= Len(printer.inbox)
      BY <1>1, <2>1 DEF Run
    <3>2. state \in PrinterStates
      BY <1>1 DEF PrinterStates, Active
    <3>3. printer' = [state |-> state, inbox |-> rest]
      BY <2>1 DEF Run
    <3> HIDE DEF state, rest
    <3> QED BY <3>1, <3>2, <3>3 DEF Printers
  <2>2. CASE Lost
    <3> DEFINE rest == SubSeq(printer.inbox, 1, Len(printer.inbox) - 1)
    <3>1. rest \in Seq(Labels) /\ Len(rest) <= Len(printer.inbox)
      BY <1>1, SubSeqProperties
    <3>2. printer' = [printer EXCEPT !.inbox = rest]
      BY <2>2 DEF Lost
    <3> HIDE DEF rest
    <3> QED BY <3>1, <3>2, NowIsFit DEF Printers
  <2>3. CASE Other
    BY <1>1, <2>3, NowIsFit DEF Other, Printers
  <2> QED BY <2>1, <2>2, <2>3
<1>3. /\ lane' \in Lanes /\ lane'.label = lane.label /\ lane'.wire = lane.wire
      /\ lane'.accepted = lane.accepted
  BY NowIsFit DEF Run, Lost, Other, Lanes
<1>4. jog' = jog /\ check' = check /\ seen' = seen
  BY DEF Run, Lost, Other
<1> DEFINE V == [p |-> printer', l |-> lane', j |-> jog, c |-> check]
<1>5. Fit(V)
  BY <1>2, <1>3, NowIsFit DEF Fit, Sound, Parts, AboutHead, Alone, Wired
<1>6. Set(V)
  BY <1>4 DEF Set
<1>7. Good
  BY <1>1, <1>2 DEF Good, MoveIsSent, Printers
<1>8. spent' \in Spents
  BY Spending DEF Run, Lost, Other, QueueInv
<1> HIDE DEF V
<1> QED BY <1>4, <1>5, <1>6, <1>7, <1>8, SetFits DEF QueueInv

LEMMA StepsAreGood ==
    ASSUME QueueInv, [QueueNext]_queueVars
    PROVE  QueueInv' /\ [Good]_queueVars
<1>1. CASE UNCHANGED queueVars
  BY <1>1 DEF queueVars, QueueInv, Now, Fit, Sound, AboutHead, Alone
<1>2. CASE QueueNext
  BY <1>2, PushIsGood, PressIsGood, SeenIsGood, EmergencyIsGood, SessionIsGood, FrameIsGood,
     ReplyIsGood, PauseIsGood, QueryIsGood, ServeIsGood, PrinterIsGood DEF QueueNext
<1> QED BY <1>1, <1>2

LEMMA StartsFit == QueueInit => QueueInv
<1> SUFFICES ASSUME QueueInit PROVE QueueInv
  OBVIOUS
<1>1. printer \in Printers /\ seen \in Views /\ spent \in Spents
  BY BoundsAssumption DEF QueueInit, Printers, Views, Spents, PrinterStates, Active
<1>2. Now \in Parts /\ Now.l = IdleLane /\ Now.j = EmptyQueue /\ Now.c = NoCheck
  BY <1>1, EmptyFits DEF QueueInit, Now, Parts
<1> QED BY <1>1, <1>2, EmptyFits, BoundsAssumption
        DEF QueueInv, Fit, Sound, AboutHead, Alone, Wired, IdleLane, Calm

-----------------------------------------------------------------------------
(* The theorems.                                                           *)

\* Every field keeps its type, and a query that is live is about the head.
THEOREM QueueTypeCorrect == QueueSpec => []QueueTypeOK
<1>1. QueueInv => QueueTypeOK
  BY NowIsFit DEF QueueInv, QueueTypeOK, Fit, Sound, AboutHead, Wired
<1> QED BY StartsFit, StepsAreGood, <1>1, PTL DEF QueueSpec

\* A move leaves only on a fresh answer that no command of ours has overtaken.
THEOREM MovesAreAlwaysChecked == QueueSpec => MovesAreChecked
<1> USE DEF Good
<1> QED BY StartsFit, StepsAreGood, PTL DEF QueueSpec, MovesAreChecked

-----------------------------------------------------------------------------
(* The reflections.                                                        *)

\* What the fields of a pair say of each other: nobody reads or waits for a pair under
\* construction, and one that is shown or was read has no producer's fence any more.
Sane(r) ==
    /\ r.state \in {"free", "building", "ready"} => ~r.reader /\ r.consumer = NoFence
    /\ r.state \in {"free", "building"} => r.producer = NoFence
    /\ r.state = "displayed" \/ r.reader \/ r.consumer # NoFence => r.producer = NoFence
    /\ r.reader => r.state \in {"displayed", "sealed"}
    /\ r.poller => r.state \in {"ready", "sealed"}
    /\ r.kept => r.state \in {"sealed", "draining"}

\* The fences of the pairs p, with the commands c and the draws d before them, say what
\* the GPU still has to do: what it captures is under construction as token t or has a
\* producer's fence behind it, what it samples is being read or has a consumer's.
Behind(r, c, d)   == r.producer <= Len(c) /\ r.consumer <= Len(d)
Captured(p, c, t) == \A k \in 1 .. Len(c), i \in Slots : c[k] = i => i = t \/ p[i].producer >= k
Read(p, d)        == \A k \in 1 .. Len(d), i \in Slots : i \in d[k] => p[i].reader \/ p[i].consumer >= k
Fenced(p, c, d, t) ==
    /\ \A i \in Slots : Sane(p[i]) /\ Behind(p[i], c, d)
    /\ Captured(p, c, t) /\ Read(p, d)

\* The GPU still has to write, or to sample, pair i.
Capturing(i) == \E k \in 1 .. Len(capturing) : capturing[k] = i
Drawing(i)   == \E k \in 1 .. Len(drawing) : i \in drawing[k]

Builds  == {"input", "turn", "drain", "publish", "abort"}
Removes == {"producer", "consumer", "retire"}
\* Where the worker is, or goes on after its wait.
Place == IF worker.pc = "host" THEN worker.resume ELSE worker.pc

\* What the worker's place says of the pair and the job it holds: a token is under
\* construction, a pair it retires is draining, and what a wait was for has happened
\* when the next step begins.
Placed ==
    /\ worker.token # 0 =>
          pairs[worker.token].state = "building" /\ (worker.pc = "gone" \/ Place \in Builds)
    /\ Place \in Builds => worker.token # 0 /\ worker.job # 0
    /\ Place \in Removes => worker.retiring # 0 /\ pairs[worker.retiring].state = "draining"
    /\ worker.pc = "host" => worker.resume \in {"drain", "consumer", "retire"}
    /\ worker.pc = "consumer" \/ Place = "retire" => ~Capturing(worker.retiring)
    /\ worker.pc = "retire" => ~Drawing(worker.retiring)
    /\ worker.pc \in {"turn", "publish"} \/ (Place = "drain" /\ ~worker.broken) => ~worker.kept
    /\ worker.pc = "input" => worker.kept
    /\ worker.pc = "turn" => worker.turns < Turns
    /\ worker.turns # 0 => worker.pc = "gone" \/ Place \in Builds \ {"input"}
    /\ worker.pc = "gone" /\ ~link.abandoned => Drained
    /\ worker.pc = "acknowledge" /\ ~link.abandoned => worker.job # 0
    /\ worker.job # 0 => worker.pc \in {"acknowledge", "gone"} \/ Place \in Builds

\* What the render thread's place says: the pair it polls is marked, no frame is under way
\* on a closed facade, and the main context was finished only after the last draw.
Framed ==
    /\ main.pc \in {"poll", "polled"} => main.use # 0 /\ pairs[main.use].poller
    /\ main.pc = "polled" /\ main.complete => pairs[main.use].producer <= 0
    /\ facade.closed \/ facade.disposed => main.pc \notin {"poll", "polled", "draw", "drawing"}
    /\ facade.cleanup => facade.closed \/ facade.disposed
    /\ main.pc \in {"closing", "finish", "wait"} => facade.closed
    /\ front # 0 => pairs[front].state = "displayed"
    /\ link.host => drawing = <<>> /\ (facade.closed \/ facade.disposed)

InUse(i) == pairs[i].state # "free"
Done == {c.serial : c \in link.completed}
Kept == {c.serial : c \in {d \in link.completed : d.kept}}

\* A job is in one place at a time: pending, with the worker, in a pair, acknowledged
\* or waiting for its fence to be deleted; and serials are used once.
Apart ==
    /\ link.pending # 0 => /\ link.pending \notin Done \cup deletions /\ link.pending # worker.job
                           /\ \A i \in Slots : InUse(i) => pairs[i].job # link.pending
    /\ \A i \in Slots : InUse(i) => /\ pairs[i].job # 0 /\ pairs[i].job \notin Done \cup deletions
                                   /\ \A j \in Slots \ {i} : InUse(j) => pairs[i].job # pairs[j].job
    /\ worker.job # 0 =>
          /\ worker.job \notin Done \cup deletions
          /\ \A i \in Slots : InUse(i) => (pairs[i].job = worker.job <=> i = worker.token)
    /\ worker.token # 0 => pairs[worker.token].job = worker.job
    /\ Done \cap deletions = {}
    /\ link.pending <= facade.serial /\ worker.job <= facade.serial
    /\ \A i \in Slots : pairs[i].job <= facade.serial
    /\ \A s \in leases \cup inputs \cup deletions \cup Done : s <= facade.serial

\* The wrappers of what is held are leased, and the input fences that are alive are those
\* that one of the places answers for.
Owned ==
    /\ Held \subseteq leases
    /\ link.accepting => ~link.abandoned
    /\ ~link.abandoned =>
        \A s \in Serials : s \in inputs <=>
            \/ s = link.pending \/ (worker.kept /\ s = worker.job) \/ s \in Kept \/ s \in deletions
            \/ \E i \in Slots : pairs[i].kept /\ pairs[i].job = s
Ledger == Apart /\ Owned

IInv == TypeOK /\ Fenced(pairs, capturing, drawing, worker.token) /\ Placed /\ Framed /\ Ledger

-----------------------------------------------------------------------------
(* What each operation of the mailbox makes of the pairs.                  *)

Typed(p)  == p \in [Slots -> Pairs]
Fences    == Nat \cup {NoFence}

\* q is p but for pair i.
Only(i, p, q) == Typed(q) /\ \A j \in Slots \ {i} : q[j] = p[j]

\* Pair i is the same but for its fences and its reader or poller.
SameJob(p, q)  == \A i \in Slots : q[i].job = p[i].job /\ q[i].kept = p[i].kept
SameUse(p, q)  == \A i \in Slots : q[i].poller = p[i].poller /\ q[i].reader = p[i].reader
SameState(p, q) == \A i \in Slots : q[i].state = p[i].state
SameFences(p, q) == \A i \in Slots : q[i].producer = p[i].producer /\ q[i].consumer = p[i].consumer

LEMMA FreePairType == FreePair \in Pairs
BY DEF FreePair, Pairs, States, NoFence

LEMMA ReservedPair ==
    ASSUME Typed(pairs), generation \in Nat, NEW i \in Slots, NEW job \in Nat,
           NEW q, q = Reserved(i, job)
    PROVE  /\ Only(i, pairs, q) /\ SameUse(pairs, q) /\ SameFences(pairs, q)
           /\ q[i].state = "building" /\ q[i].job = job /\ q[i].kept = pairs[i].kept
BY DEF Typed, Only, SameUse, SameFences, Reserved, Pairs, States

LEMMA CompletedPair ==
    ASSUME Typed(pairs), NEW i \in Slots, NEW fence \in Fences, NEW q, q = Completed(i, fence)
    PROVE  /\ Only(i, pairs, q) /\ SameUse(pairs, q)
           /\ q[i].state \in {"ready", "sealed"} /\ q[i].producer = fence
           /\ q[i].consumer = pairs[i].consumer /\ q[i].job = pairs[i].job /\ ~q[i].kept
BY DEF Typed, Only, SameUse, Completed, Pairs, States, Fences

LEMMA AbortedPair ==
    ASSUME Typed(pairs), NEW i \in Slots, NEW fence \in Fences, NEW kept \in BOOLEAN,
           NEW q, q = Aborted(i, fence, kept)
    PROVE  /\ Only(i, pairs, q) /\ SameUse(pairs, q)
           /\ q[i].state = "sealed" /\ q[i].producer = fence
           /\ q[i].consumer = pairs[i].consumer /\ q[i].job = pairs[i].job /\ q[i].kept = kept
BY DEF Typed, Only, SameUse, Aborted, Pairs, States, Fences

LEMMA DrainingPair ==
    ASSUME Typed(pairs), NEW i \in Slots, NEW q, q = Draining(i)
    PROVE  /\ Only(i, pairs, q) /\ SameUse(pairs, q) /\ SameFences(pairs, q) /\ SameJob(pairs, q)
           /\ q[i].state = "draining"
BY DEF Typed, Only, SameUse, SameFences, SameJob, Draining, Pairs, States

LEMMA RetiredPair ==
    ASSUME Typed(pairs), NEW i \in Slots, NEW q, q = Retired(i)
    PROVE  Only(i, pairs, q) /\ q[i] = FreePair
BY FreePairType DEF Typed, Only, Retired

LEMMA PollBegunPairs ==
    ASSUME NEW p, Typed(p), NEW S \in SUBSET Slots, NEW q, q = PollBegun(p, S)
    PROVE  /\ Typed(q) /\ SameJob(p, q) /\ SameFences(p, q) /\ SameState(p, q)
           /\ \A i \in Slots : /\ q[i].reader = p[i].reader
                               /\ (q[i].poller <=> p[i].poller \/ IsFirst(i, S))
BY DEF Typed, SameJob, SameFences, SameState, PollBegun, Pairs

LEMMA PollEndedPairs ==
    ASSUME NEW p, Typed(p), NEW i \in Slots, NEW q, q = PollEnded(p, i)
    PROVE  /\ Only(i, p, q) /\ SameJob(p, q) /\ SameFences(p, q) /\ SameState(p, q)
           /\ q[i].reader = p[i].reader /\ ~q[i].poller
BY DEF Typed, Only, SameJob, SameFences, SameState, PollEnded, Pairs

LEMMA AdoptedPairs ==
    ASSUME NEW p, Typed(p), NEW i \in Slots, NEW q, q = Adopted(p, i)
    PROVE  /\ Typed(q) /\ SameJob(p, q)
           /\ q[i].state = "displayed" /\ q[i].producer = NoFence /\ ~q[i].poller
           /\ q[i].consumer = p[i].consumer /\ q[i].reader = p[i].reader
           /\ \A j \in Slots \ {i} :
                 /\ q[j].state = IF j = front THEN "sealed" ELSE p[j].state
                 /\ q[j].producer = p[j].producer /\ q[j].consumer = p[j].consumer
                 /\ q[j].reader = p[j].reader /\ q[j].poller = p[j].poller
<1>1. q[i] = [p[i] EXCEPT !.poller = FALSE, !.state = "displayed", !.producer = NoFence]
  BY DEF Adopted
<1>2. ASSUME NEW j \in Slots \ {i}
      PROVE  q[j] = IF j = front THEN [p[j] EXCEPT !.state = "sealed"] ELSE p[j]
  BY <1>2 DEF Adopted
<1>3. DOMAIN q = Slots /\ q = [j \in Slots |-> q[j]]
  BY DEF Adopted
<1>4. q[i] \in Pairs
  BY <1>1 DEF Typed, Pairs, States, NoFence
<1>5. ASSUME NEW j \in Slots \ {i} PROVE q[j] \in Pairs
  BY <1>2, <1>5 DEF Typed, Pairs, States, NoFence
<1>6. Typed(q)
  BY <1>3, <1>4, <1>5 DEF Typed
<1>7. /\ q[i].job = p[i].job /\ q[i].kept = p[i].kept
      /\ q[i].state = "displayed" /\ q[i].producer = NoFence /\ ~q[i].poller
      /\ q[i].consumer = p[i].consumer /\ q[i].reader = p[i].reader
  BY <1>1 DEF Typed, Pairs
<1>8. ASSUME NEW j \in Slots \ {i}
      PROVE  /\ q[j].job = p[j].job /\ q[j].kept = p[j].kept
             /\ q[j].state = IF j = front THEN "sealed" ELSE p[j].state
             /\ q[j].producer = p[j].producer /\ q[j].consumer = p[j].consumer
             /\ q[j].reader = p[j].reader /\ q[j].poller = p[j].poller
  BY <1>2, <1>8 DEF Typed, Pairs
<1>9. SameJob(p, q)
  BY <1>7, <1>8 DEF SameJob
<1> QED BY <1>6, <1>7, <1>8, <1>9

LEMMA ReadBegunPairs ==
    ASSUME NEW p, Typed(p), NEW i \in Slots, NEW q, q = ReadBegun(p, i)
    PROVE  /\ Only(i, p, q) /\ SameJob(p, q) /\ SameFences(p, q) /\ SameState(p, q)
           /\ q[i].reader /\ q[i].poller = p[i].poller
BY DEF Typed, Only, SameJob, SameFences, SameState, ReadBegun, Pairs

LEMMA EndReadsPairs ==
    ASSUME NEW p, Typed(p), NEW S \in SUBSET Slots, NEW fence \in Fences,
           NEW q, q = EndReads(p, S, fence)
    PROVE  /\ Typed(q) /\ SameJob(p, q) /\ SameState(p, q)
           /\ \A i \in Slots :
                 /\ q[i].poller = p[i].poller /\ q[i].producer = p[i].producer
                 /\ (q[i].reader <=> p[i].reader /\ i \notin S)
                 /\ q[i].consumer = IF i \in S THEN fence ELSE p[i].consumer
BY DEF Typed, SameJob, SameState, EndReads, ReadEnded, Pairs, Fences

LEMMA SealedPairs ==
    ASSUME NEW p, Typed(p), NEW S, NEW q, q = Sealed(p, S)
    PROVE  /\ Typed(q) /\ SameJob(p, q) /\ SameUse(p, q) /\ SameFences(p, q)
           /\ \A i \in Slots : q[i].state = IF p[i].state \in S THEN "sealed" ELSE p[i].state
BY DEF Typed, SameJob, SameUse, SameFences, Sealed, Pairs, States

-----------------------------------------------------------------------------
(* Each of them keeps the fences in place.                                 *)

LEMMA SealKeeps ==
    ASSUME NEW p, Typed(p), NEW c, NEW d, NEW t, Fenced(p, c, d, t),
           NEW S \in SUBSET {"ready", "displayed"},
           NEW q, q = Sealed(p, S)
    PROVE  Fenced(q, c, d, t)
<1>1. /\ Typed(q) /\ SameJob(p, q) /\ SameUse(p, q) /\ SameFences(p, q)
      /\ \A i \in Slots : q[i].state = IF p[i].state \in S THEN "sealed" ELSE p[i].state
  BY SealedPairs
<1> QED BY <1>1 DEF SameJob, SameUse, SameFences, Fenced, Sane, Behind, Captured, Read

LEMMA PollBegunKeeps ==
    ASSUME NEW p, Typed(p), NEW c, NEW d, NEW t, Fenced(p, c, d, t),
           NEW S \in SUBSET Slots, \A i \in S : p[i].state = "ready",
           NEW q, q = PollBegun(p, S)
    PROVE  Fenced(q, c, d, t)
<1>1. /\ Typed(q) /\ SameJob(p, q) /\ SameFences(p, q) /\ SameState(p, q)
      /\ \A i \in Slots : q[i].reader = p[i].reader /\ (q[i].poller <=> p[i].poller \/ IsFirst(i, S))
  BY PollBegunPairs
<1> QED BY <1>1 DEF SameJob, SameFences, SameState, Fenced, Sane, Behind, Captured, Read, IsFirst

LEMMA PollEndedKeeps ==
    ASSUME NEW p, Typed(p), NEW c, NEW d, NEW t, Fenced(p, c, d, t), NEW i \in Slots,
           NEW q, q = PollEnded(p, i)
    PROVE  Fenced(q, c, d, t)
<1>1. /\ Only(i, p, q) /\ SameJob(p, q) /\ SameFences(p, q) /\ SameState(p, q)
      /\ q[i].reader = p[i].reader /\ ~q[i].poller
  BY PollEndedPairs
<1> QED BY <1>1 DEF Only, SameJob, SameFences, SameState, Fenced, Sane, Behind, Captured, Read

LEMMA EndReadsKeeps ==
    ASSUME NEW p, Typed(p), NEW c, NEW d \in Seq(SUBSET Slots), NEW t, Fenced(p, c, d, t),
           NEW S \in SUBSET Slots, \A i \in S : p[i].reader,
           NEW fence, fence = Len(d) \/ (d = <<>> /\ fence = NoFence),
           NEW q, q = EndReads(p, S, fence)
    PROVE  Fenced(q, c, d, t)
<1>1. fence \in Fences /\ fence <= Len(d) /\ Len(d) \in Nat /\ (d # <<>> => fence = Len(d))
  BY DEF Fences, NoFence
<1>2. /\ Typed(q) /\ SameJob(p, q) /\ SameState(p, q)
      /\ \A i \in Slots :
            /\ q[i].poller = p[i].poller /\ q[i].producer = p[i].producer
            /\ (q[i].reader <=> p[i].reader /\ i \notin S)
            /\ q[i].consumer = IF i \in S THEN fence ELSE p[i].consumer
  BY <1>1, EndReadsPairs
<1>3. \A i \in Slots : Sane(q[i]) /\ Behind(q[i], c, d)
  BY <1>1, <1>2 DEF SameJob, SameState, Fenced, Sane, Behind
<1>4. Captured(q, c, t)
  BY <1>2 DEF Fenced, Captured
<1>5. Read(q, d)
  BY <1>1, <1>2 DEF Fenced, Read
<1> QED BY <1>3, <1>4, <1>5 DEF Fenced

LEMMA ReadBegunKeeps ==
    ASSUME NEW p, Typed(p), NEW c, NEW d, NEW t, Fenced(p, c, d, t),
           NEW i \in Slots, p[i].state = "displayed",
           NEW q, q = ReadBegun(p, i)
    PROVE  Fenced(q, c, d, t)
<1>1. /\ Only(i, p, q) /\ SameJob(p, q) /\ SameFences(p, q) /\ SameState(p, q)
      /\ q[i].reader /\ q[i].poller = p[i].poller
  BY ReadBegunPairs
<1> QED BY <1>1 DEF Only, SameJob, SameFences, SameState, Fenced, Sane, Behind, Captured, Read

\* A map is adopted when its capture is complete: nothing captures it any more.
LEMMA AdoptedKeeps ==
    ASSUME NEW p, Typed(p), NEW c \in Seq(Slots), NEW d, NEW t, Fenced(p, c, d, t), NEW i \in Slots,
           p[i].state = "ready", p[i].producer <= 0, i # t,
           NEW q, q = Adopted(p, i)
    PROVE  Fenced(q, c, d, t)
<1>1. /\ Typed(q) /\ SameJob(p, q)
      /\ q[i].state = "displayed" /\ q[i].producer = NoFence /\ ~q[i].poller
      /\ q[i].consumer = p[i].consumer /\ q[i].reader = p[i].reader
      /\ \A j \in Slots \ {i} :
            /\ q[j].state = IF j = front THEN "sealed" ELSE p[j].state
            /\ q[j].producer = p[j].producer /\ q[j].consumer = p[j].consumer
            /\ q[j].reader = p[j].reader /\ q[j].poller = p[j].poller
  BY AdoptedPairs
<1>2. \A k \in 1 .. Len(c) : c[k] # i
  <2>1. p[i].producer \in Int
    BY DEF Typed, Pairs, NoFence
  <2> QED BY <2>1 DEF Fenced, Captured
<1>3. \A j \in Slots : Sane(q[j]) /\ Behind(q[j], c, d)
  BY <1>1 DEF SameJob, Fenced, Sane, Behind, NoFence
<1>4. Captured(q, c, t) /\ Read(q, d)
  BY <1>1, <1>2 DEF Fenced, Captured, Read
<1> QED BY <1>3, <1>4 DEF Fenced

\* A draw samples what is being read.
LEMMA SampleKeeps ==
    ASSUME NEW p, NEW c, NEW d \in Seq(SUBSET Slots), NEW t, Fenced(p, c, d, t), Typed(p),
           NEW S \in SUBSET Slots, \A i \in S : p[i].reader
    PROVE  Fenced(p, c, Append(d, S), t)
<1>1. /\ Len(Append(d, S)) = Len(d) + 1 /\ Len(d) \in Nat
      /\ \A k \in 1 .. Len(d) : Append(d, S)[k] = d[k]
      /\ Append(d, S)[Len(d) + 1] = S
  OBVIOUS
<1>2. \A i \in Slots : Behind(p[i], c, Append(d, S))
  BY <1>1 DEF Fenced, Behind, Typed, Pairs, NoFence
<1>3. Read(p, Append(d, S))
  BY <1>1 DEF Fenced, Read
<1> QED BY <1>2, <1>3 DEF Fenced

\* The worker captures the pair under construction.
LEMMA CaptureKeeps ==
    ASSUME NEW p, NEW c \in Seq(Slots), NEW d, NEW t \in Slots, Fenced(p, c, d, t), Typed(p)
    PROVE  Fenced(p, Append(c, t), d, t)
<1>1. /\ Len(Append(c, t)) = Len(c) + 1 /\ Len(c) \in Nat
      /\ \A k \in 1 .. Len(c) : Append(c, t)[k] = c[k]
      /\ Append(c, t)[Len(c) + 1] = t
  OBVIOUS
<1>2. \A i \in Slots : Behind(p[i], Append(c, t), d)
  BY <1>1 DEF Fenced, Behind, Typed, Pairs, NoFence
<1>3. Captured(p, Append(c, t), t)
  BY <1>1 DEF Fenced, Captured
<1> QED BY <1>2, <1>3 DEF Fenced

\* The pair under construction goes, with a fence behind its captures.
LEMMA HandedKeeps ==
    ASSUME NEW p, Typed(p), NEW c, NEW d, NEW t \in Slots, Fenced(p, c, d, t),
           p[t].state = "building", Len(c) \in Nat,
           NEW fence, fence = Len(c) \/ (c = <<>> /\ fence = NoFence),
           NEW q, Only(t, p, q), SameUse(p, q),
           q[t].state \in {"ready", "sealed"}, q[t].kept => q[t].state = "sealed",
           q[t].producer = fence, q[t].consumer = p[t].consumer
    PROVE  Fenced(q, c, d, 0)
<1>1. \A i \in Slots : Sane(q[i]) /\ Behind(q[i], c, d)
  BY DEF Fenced, Sane, Behind, Only, SameUse, NoFence
<1>2. ASSUME NEW k \in 1 .. Len(c), NEW i \in Slots, c[k] = i PROVE q[i].producer >= k
  <2>1. CASE i = t
    <3>1. fence = Len(c)
      OBVIOUS
    <3> QED BY <2>1, <3>1
  <2>2. CASE i # t
    BY <1>2, <2>2 DEF Fenced, Captured, Only
  <2> QED BY <2>1, <2>2
<1>3. Read(q, d)
  BY DEF Fenced, Read, Only, SameUse
<1> QED BY <1>1, <1>2, <1>3 DEF Fenced, Captured

LEMMA ReservedKeeps ==
    ASSUME NEW p, Typed(p), NEW c, NEW d, Fenced(p, c, d, 0), NEW i \in Slots,
           p[i].state = "free", NEW q, Only(i, p, q), SameUse(p, q), SameFences(p, q),
           q[i].state = "building", q[i].kept = p[i].kept
    PROVE  Fenced(q, c, d, i)
<1>1. \A j \in Slots : Sane(q[j]) /\ Behind(q[j], c, d)
  BY DEF Fenced, Sane, Behind, Only, SameUse, SameFences
<1>2. Captured(q, c, i)
  BY DEF Fenced, Captured, Only, Slots
<1>3. Read(q, d)
  BY DEF Fenced, Read, Only, SameUse, SameFences
<1> QED BY <1>1, <1>2, <1>3 DEF Fenced

LEMMA DrainingKeeps ==
    ASSUME NEW p, Typed(p), NEW c, NEW d, NEW t, Fenced(p, c, d, t), NEW i \in Slots,
           p[i].state = "sealed", ~p[i].poller, ~p[i].reader,
           NEW q, Only(i, p, q), SameUse(p, q), SameFences(p, q), SameJob(p, q),
           q[i].state = "draining"
    PROVE  Fenced(q, c, d, t)
<1>1. \A j \in Slots : Sane(q[j]) /\ Behind(q[j], c, d)
  BY DEF Fenced, Sane, Behind, Only, SameUse, SameFences, SameJob
<1>2. Captured(q, c, t) /\ Read(q, d)
  BY DEF Fenced, Captured, Read, Only, SameUse, SameFences
<1> QED BY <1>1, <1>2 DEF Fenced

\* A pair that the GPU has nothing to do with can be free.
LEMMA RetiredKeeps ==
    ASSUME Typed(pairs), capturing \in Seq(Slots), drawing \in Seq(SUBSET Slots),
           NEW t, Fenced(pairs, capturing, drawing, t),
           NEW i \in Slots, ~Capturing(i), ~Drawing(i),
           NEW q, Only(i, pairs, q), q[i] = FreePair
    PROVE  Fenced(q, capturing, drawing, t)
<1>1. \A j \in Slots : Sane(q[j]) /\ Behind(q[j], capturing, drawing)
  BY DEF Fenced, Sane, Behind, Only, FreePair, NoFence
<1>2. Captured(q, capturing, t)
  BY DEF Fenced, Captured, Only, Capturing
<1>3. Read(q, drawing)
  BY DEF Fenced, Read, Only, Drawing
<1> QED BY <1>1, <1>2, <1>3 DEF Fenced

LEMMA PairFences == \A r \in Pairs : r.producer \in Fences /\ r.consumer \in Fences
BY DEF Pairs, Fences

LEMMA ProducerPair ==
    ASSUME NEW r \in Pairs, NEW n \in Fences, NEW s, s = [r EXCEPT !.producer = n]
    PROVE  /\ s \in Pairs /\ s.producer = n /\ s.consumer = r.consumer
           /\ s.state = r.state /\ s.reader = r.reader /\ s.poller = r.poller
           /\ s.kept = r.kept /\ s.job = r.job
BY DEF Pairs, Fences

LEMMA ConsumerPair ==
    ASSUME NEW r \in Pairs, NEW n \in Fences, NEW s, s = [r EXCEPT !.consumer = n]
    PROVE  /\ s \in Pairs /\ s.consumer = n /\ s.producer = r.producer
           /\ s.state = r.state /\ s.reader = r.reader /\ s.poller = r.poller
           /\ s.kept = r.kept /\ s.job = r.job
BY DEF Pairs, Fences

\* What executing a draw, a capture, or every draw makes of the fences.
DrawDone(p, q)    == q = [i \in Slots |-> [p[i] EXCEPT !.consumer = Nearer(@)]]
CaptureDone(p, q) == q = [i \in Slots |-> [p[i] EXCEPT !.producer = Nearer(@)]]
AllDrawn(p, q)    == q = [i \in Slots |-> [p[i] EXCEPT !.consumer = IF @ > 0 THEN 0 ELSE @]]

\* The GPU executes a command of either context, and every fence of it is one nearer.
LEMMA DrawnKeeps ==
    ASSUME TypeOK, NEW p, Typed(p), NEW c, drawing # <<>>,
           NEW t, Fenced(p, c, drawing, t),
           NEW q, DrawDone(p, q)
    PROVE  /\ Fenced(q, c, Tail(drawing), t) /\ Typed(q) /\ SameJob(p, q) /\ SameState(p, q)
           /\ \A i \in Slots : q[i].producer = p[i].producer /\ q[i].poller = p[i].poller
<1>1. ASSUME NEW i \in Slots
      PROVE  /\ q[i] \in Pairs /\ q[i].consumer = Nearer(p[i].consumer)
             /\ q[i].producer = p[i].producer /\ q[i].state = p[i].state
             /\ q[i].reader = p[i].reader /\ q[i].poller = p[i].poller
             /\ q[i].kept = p[i].kept /\ q[i].job = p[i].job /\ p[i].consumer \in Int
  <2>1. q[i] = [p[i] EXCEPT !.consumer = Nearer(p[i].consumer)] /\ p[i] \in Pairs
    BY <1>1 DEF Typed, DrawDone
  <2>2. p[i].consumer \in Fences
    BY <2>1, PairFences
  <2> DEFINE n == Nearer(p[i].consumer)
  <2>3. n \in Fences
    BY <2>2 DEF Nearer, Fences, NoFence
  <2> HIDE DEF n
  <2>4. q[i] = [p[i] EXCEPT !.consumer = n]
    BY <2>1 DEF n
  <2>5. /\ q[i] \in Pairs /\ q[i].consumer = n /\ q[i].producer = p[i].producer
        /\ q[i].state = p[i].state /\ q[i].reader = p[i].reader /\ q[i].poller = p[i].poller
        /\ q[i].kept = p[i].kept /\ q[i].job = p[i].job
    BY <2>1, <2>3, <2>4 DEF Pairs, Fences
  <2> QED BY <2>2, <2>5 DEF n, Fences, NoFence
<1>2. Typed(q) /\ SameJob(p, q) /\ SameState(p, q)
  BY <1>1 DEF Typed, SameJob, SameState, DrawDone
<1>3. /\ Len(drawing) \in Nat /\ Len(Tail(drawing)) = Len(drawing) - 1
      /\ \A k \in 1 .. Len(drawing) - 1 : Tail(drawing)[k] = drawing[k + 1]
  <2>1. drawing \in Seq(SUBSET Slots)
    BY DEF TypeOK
  <2> QED BY <2>1
<1>4. \A i \in Slots : Sane(q[i])
  BY <1>1 DEF Fenced, Sane, Nearer, NoFence, Typed, Pairs
<1>5. \A i \in Slots : Behind(q[i], c, Tail(drawing))
  BY <1>1, <1>3 DEF Fenced, Behind, Nearer
<1>6. Captured(q, c, t)
  BY <1>1 DEF Fenced, Captured
<1>7. Read(q, Tail(drawing))
  BY <1>1, <1>3 DEF Fenced, Read, Nearer
<1> QED BY <1>1, <1>2, <1>4, <1>5, <1>6, <1>7 DEF Fenced

LEMMA ExecutedKeeps ==
    ASSUME NEW p, Typed(p), NEW c \in Seq(Slots), c # <<>>, NEW d, NEW t, Fenced(p, c, d, t),
           NEW q, CaptureDone(p, q)
    PROVE  /\ Fenced(q, Tail(c), d, t) /\ Typed(q) /\ SameJob(p, q) /\ SameState(p, q)
           /\ \A i \in Slots : q[i].poller = p[i].poller /\ (p[i].producer <= 0 => q[i].producer <= 0)
<1>1. ASSUME NEW i \in Slots
      PROVE  /\ q[i] \in Pairs /\ q[i].producer = Nearer(p[i].producer)
             /\ q[i].consumer = p[i].consumer /\ q[i].state = p[i].state
             /\ q[i].reader = p[i].reader /\ q[i].poller = p[i].poller
             /\ q[i].kept = p[i].kept /\ q[i].job = p[i].job /\ p[i].producer \in Int
  <2>1. q[i] = [p[i] EXCEPT !.producer = Nearer(p[i].producer)] /\ p[i] \in Pairs
    BY <1>1 DEF Typed, CaptureDone
  <2>2. p[i].producer \in Fences
    BY <2>1, PairFences
  <2> DEFINE n == Nearer(p[i].producer)
  <2>3. n \in Fences
    BY <2>2 DEF Nearer, Fences, NoFence
  <2> HIDE DEF n
  <2>4. q[i] = [p[i] EXCEPT !.producer = n]
    BY <2>1 DEF n
  <2>5. /\ q[i] \in Pairs /\ q[i].producer = n /\ q[i].consumer = p[i].consumer
        /\ q[i].state = p[i].state /\ q[i].reader = p[i].reader /\ q[i].poller = p[i].poller
        /\ q[i].kept = p[i].kept /\ q[i].job = p[i].job
    BY <2>1, <2>3, <2>4 DEF Pairs, Fences
  <2> QED BY <2>2, <2>5 DEF n, Fences, NoFence
<1>2. Typed(q) /\ SameJob(p, q) /\ SameState(p, q)
  BY <1>1 DEF Typed, SameJob, SameState, CaptureDone
<1>3. /\ Len(c) \in Nat /\ Len(Tail(c)) = Len(c) - 1
      /\ \A k \in 1 .. Len(c) - 1 : Tail(c)[k] = c[k + 1]
  OBVIOUS
<1>4. \A i \in Slots : Sane(q[i])
  BY <1>1 DEF Fenced, Sane, Nearer, NoFence
<1>5. \A i \in Slots : Behind(q[i], Tail(c), d)
  BY <1>1, <1>3 DEF Fenced, Behind, Nearer
<1>6. Captured(q, Tail(c), t)
  BY <1>1, <1>3 DEF Fenced, Captured, Nearer
<1>7. Read(q, d)
  BY <1>1 DEF Fenced, Read
<1>8. \A i \in Slots : p[i].producer <= 0 => q[i].producer <= 0
  BY <1>1 DEF Nearer
<1> QED BY <1>1, <1>2, <1>4, <1>5, <1>6, <1>7, <1>8 DEF Fenced

\* After a finish every draw is done.
LEMMA FinishedKeeps ==
    ASSUME NEW p, Typed(p), NEW c, NEW d, NEW t, Fenced(p, c, d, t), Len(d) \in Nat,
           NEW q, AllDrawn(p, q)
    PROVE  /\ Fenced(q, c, <<>>, t) /\ Typed(q) /\ SameJob(p, q) /\ SameState(p, q)
           /\ SameUse(p, q) /\ \A i \in Slots : q[i].producer = p[i].producer
<1>1. ASSUME NEW i \in Slots
      PROVE  /\ q[i] \in Pairs /\ q[i].consumer = IF p[i].consumer > 0 THEN 0 ELSE p[i].consumer
             /\ q[i].producer = p[i].producer /\ q[i].state = p[i].state
             /\ q[i].reader = p[i].reader /\ q[i].poller = p[i].poller
             /\ q[i].kept = p[i].kept /\ q[i].job = p[i].job /\ p[i].consumer \in Int
  <2>1. q[i] = [p[i] EXCEPT !.consumer = IF p[i].consumer > 0 THEN 0 ELSE p[i].consumer] /\ p[i] \in Pairs
    BY <1>1 DEF Typed, AllDrawn
  <2>2. p[i].consumer \in Fences
    BY <2>1, PairFences
  <2> DEFINE n == IF p[i].consumer > 0 THEN 0 ELSE p[i].consumer
  <2>3. n \in Fences
    BY <2>2 DEF Nearer, Fences, NoFence
  <2> HIDE DEF n
  <2>4. q[i] = [p[i] EXCEPT !.consumer = n]
    BY <2>1 DEF n
  <2>5. /\ q[i] \in Pairs /\ q[i].consumer = n /\ q[i].producer = p[i].producer
        /\ q[i].state = p[i].state /\ q[i].reader = p[i].reader /\ q[i].poller = p[i].poller
        /\ q[i].kept = p[i].kept /\ q[i].job = p[i].job
    BY <2>1, <2>3, <2>4 DEF Pairs, Fences
  <2> QED BY <2>2, <2>5 DEF n, Fences, NoFence
<1>2. Typed(q) /\ SameJob(p, q) /\ SameState(p, q) /\ SameUse(p, q)
  BY <1>1 DEF Typed, SameJob, SameState, SameUse, AllDrawn
<1>3. \A i \in Slots : Sane(q[i])
  BY <1>1 DEF Fenced, Sane, NoFence
<1>4. \A i \in Slots : Behind(q[i], c, <<>>)
  BY <1>1 DEF Fenced, Behind
<1>5. Captured(q, c, t) /\ Read(q, <<>>)
  BY <1>1 DEF Fenced, Captured, Read
<1> QED BY <1>1, <1>2, <1>3, <1>4, <1>5 DEF Fenced

-----------------------------------------------------------------------------
(* The ledger of the jobs.                                                 *)

\* The pairs stand for the same jobs as before.
SameBusy == \A i \in Slots : /\ pairs'[i].state = "free" <=> pairs[i].state = "free"
                             /\ pairs'[i].job = pairs[i].job
                             /\ pairs'[i].kept = pairs[i].kept
SameWork == worker'.job = worker.job /\ worker'.token = worker.token /\ worker'.kept = worker.kept
SameCalls ==
    /\ link'.pending = link.pending /\ (link.abandoned => link'.abandoned)
    /\ link'.accepting => link.accepting /\ ~link'.abandoned

LEMMA LedgerStays ==
    ASSUME TypeOK, Ledger, SameBusy, SameWork, SameCalls, UNCHANGED sources,
           facade'.serial = facade.serial, link'.completed = link.completed
    PROVE  Ledger'
<1>1. Done' = Done /\ Kept' = Kept /\ Held' = Held
  BY DEF Done, Kept, Held, In, SameBusy, SameWork, SameCalls
<1>2. \A i \in Slots : (InUse(i)' <=> InUse(i)) /\ pairs'[i].job = pairs[i].job
  BY DEF InUse, SameBusy
<1>3. Apart'
  <2> USE <1>1, <1>2 DEF Ledger, SameWork, SameCalls, sources
  <2>1. link'.pending # 0 =>
          /\ link'.pending \notin Done' \cup deletions' /\ link'.pending # worker'.job
          /\ \A i \in Slots : InUse(i)' => pairs'[i].job # link'.pending
    BY DEF Apart
  <2>2. \A i \in Slots : InUse(i)' =>
          /\ pairs'[i].job # 0 /\ pairs'[i].job \notin Done' \cup deletions'
          /\ \A j \in Slots \ {i} : InUse(j)' => pairs'[i].job # pairs'[j].job
    BY DEF Apart
  <2>3. worker'.job # 0 =>
          /\ worker'.job \notin Done' \cup deletions'
          /\ \A i \in Slots : InUse(i)' => (pairs'[i].job = worker'.job <=> i = worker'.token)
    BY DEF Apart
  <2>4. worker'.token # 0 => pairs'[worker'.token].job = worker'.job
    BY DEF Apart, TypeOK, Workers, Slots
  <2>5. /\ Done' \cap deletions' = {}
        /\ link'.pending <= facade'.serial /\ worker'.job <= facade'.serial
        /\ \A i \in Slots : pairs'[i].job <= facade'.serial
        /\ \A s \in leases' \cup inputs' \cup deletions' \cup Done' : s <= facade'.serial
    BY DEF Apart
  <2> QED BY <2>1, <2>2, <2>3, <2>4, <2>5 DEF Apart
<1>4. Owned'
  BY <1>1 DEF Ledger, Owned, SameBusy, SameWork, SameCalls, sources
<1> QED BY <1>3, <1>4 DEF Ledger

\* What is acknowledged leaves the leases, and its fences the inputs.
LEMMA CollectedLedger ==
    ASSUME TypeOK, Ledger, \A i \in Slots : pairs[i].kept => InUse(i),
           SameBusy, SameWork, SameCalls, facade'.serial = facade.serial,
           link'.completed = Collected.completed, NEW current \in BOOLEAN, Collects(current)
    PROVE  Ledger'
<1>1. CASE link.abandoned
  <2>1. UNCHANGED sources /\ link'.completed = link.completed
    BY <1>1 DEF Collects, Collected
  <2> QED BY <2>1, LedgerStays
<1>2. CASE ~link.abandoned
  <2> DEFINE due == deletions \cup Kept
  <2>1. /\ leases' = leases \ Done
        /\ inputs' = IF current THEN inputs \ due ELSE inputs
        /\ deletions' = IF current THEN {} ELSE due
    BY <1>2 DEF Collects, Done, Kept
  <2>2. link'.completed = {}
    BY <1>2 DEF Collected, TypeOK, Links
  <2>3. Done' = {} /\ Kept' = {} /\ Kept \subseteq Done
    BY <2>2 DEF Done, Kept
  <2>4. \A i \in Slots : (InUse(i)' <=> InUse(i)) /\ pairs'[i].job = pairs[i].job
    BY DEF InUse, SameBusy
  <2>5. Held' = Held /\ Held \subseteq leases
    BY DEF Held, In, SameBusy, SameWork, SameCalls, Ledger, Owned
  <2>6. Held \cap Done = {}
    BY DEF Held, In, Ledger, Apart, InUse
  <2> HIDE DEF due
  <2>7. due \subseteq deletions \cup Done
    BY <2>3 DEF due
  <2>8. Apart'
    <3> USE <2>1, <2>3, <2>4, <2>7 DEF Ledger, SameWork, SameCalls
    <3>1. link'.pending # 0 =>
            /\ link'.pending \notin Done' \cup deletions' /\ link'.pending # worker'.job
            /\ \A i \in Slots : InUse(i)' => pairs'[i].job # link'.pending
      BY DEF Apart
    <3>2. \A i \in Slots : InUse(i)' =>
            /\ pairs'[i].job # 0 /\ pairs'[i].job \notin Done' \cup deletions'
            /\ \A j \in Slots \ {i} : InUse(j)' => pairs'[i].job # pairs'[j].job
      BY DEF Apart
    <3>3. worker'.job # 0 =>
            /\ worker'.job \notin Done' \cup deletions'
            /\ \A i \in Slots : InUse(i)' => (pairs'[i].job = worker'.job <=> i = worker'.token)
      BY DEF Apart
    <3>4. worker'.token # 0 => pairs'[worker'.token].job = worker'.job
      BY DEF Apart, TypeOK, Workers, Slots
    <3>5. /\ Done' \cap deletions' = {}
          /\ link'.pending <= facade'.serial /\ worker'.job <= facade'.serial
          /\ \A i \in Slots : pairs'[i].job <= facade'.serial
          /\ \A s \in leases' \cup inputs' \cup deletions' \cup Done' : s <= facade'.serial
      BY DEF Apart
    <3> QED BY <3>1, <3>2, <3>3, <3>4, <3>5 DEF Apart
  <2>9. ASSUME NEW s \in Serials
        PROVE  s \in inputs' <=>
                 \/ s = link'.pending \/ (worker'.kept /\ s = worker'.job)
                 \/ s \in Kept' \/ s \in deletions'
                 \/ \E i \in Slots : pairs'[i].kept /\ pairs'[i].job = s
    <3>1. s \in inputs <=>
            \/ s = link.pending \/ (worker.kept /\ s = worker.job) \/ s \in due
            \/ \E i \in Slots : pairs[i].kept /\ pairs[i].job = s
      BY <1>2 DEF Ledger, Owned, due
    <3>2. s # 0
      BY DEF Serials
    <3>3. s \in due =>
            ~ \/ s = link.pending \/ (worker.kept /\ s = worker.job)
              \/ \E i \in Slots : pairs[i].kept /\ pairs[i].job = s
      BY <2>7, <3>2 DEF Ledger, Apart
    <3>4. (\E i \in Slots : pairs'[i].kept /\ pairs'[i].job = s)
            <=> (\E i \in Slots : pairs[i].kept /\ pairs[i].job = s)
      BY DEF SameBusy
    <3> QED BY <2>1, <2>3, <3>1, <3>3, <3>4 DEF SameWork, SameCalls
  <2>10. Owned'
    BY <2>1, <2>5, <2>6, <2>9 DEF Owned, SameCalls
  <2> QED BY <2>8, <2>10 DEF Ledger
<1> QED BY <1>1, <1>2

-----------------------------------------------------------------------------
(* Steps of one thread leave the other's places as they are.               *)

\* What the render thread does to the pairs never frees one or takes one from the worker.
Shows(p, q) ==
    /\ Typed(q) /\ SameJob(p, q)
    /\ \A i \in Slots : \/ q[i].state = p[i].state
                        \/ p[i].state \in {"ready", "displayed"} /\ q[i].state \in {"displayed", "sealed"}

LEMMA ShownBusy == ASSUME Shows(pairs, pairs') PROVE SameBusy
BY DEF Shows, SameBusy, SameJob

LEMMA PlacedStays ==
    ASSUME TypeOK, Placed, UNCHANGED <<worker>>, Shows(pairs, pairs'), closed => closed',
           link.abandoned => link'.abandoned,
           \A i \in Slots : Capturing(i)' => Capturing(i),
           \A i \in Slots : pairs[i].state = "draining" /\ Drawing(i)' => Drawing(i)
    PROVE  Placed'
<1>1. worker' = worker /\ Place' = Place /\ worker.token \in 0 .. 2 /\ worker.retiring \in 0 .. 2
  BY DEF Place, TypeOK, Workers
<1>2. worker.token # 0 => worker.token \in Slots
  BY <1>1 DEF Slots
<1>3. worker.retiring # 0 => worker.retiring \in Slots
  BY <1>1 DEF Slots
<1>4. \A i \in Slots : pairs[i].state \in {"building", "draining", "free"} => pairs'[i].state = pairs[i].state
  BY DEF Shows
<1>5. Drained => Drained'
  BY <1>4 DEF Drained, In
<1>6. /\ worker.pc = "consumer" \/ Place = "retire" => ~Capturing(worker.retiring)'
      /\ worker.pc = "retire" => ~Drawing(worker.retiring)'
  BY <1>3 DEF Placed, Place, Removes
<1> QED BY <1>1, <1>2, <1>3, <1>4, <1>5, <1>6 DEF Placed

\* What stays of a pair that is polled, and of the facade.
SamePolls ==
    \A i \in Slots : pairs[i].poller => pairs'[i].poller /\ (pairs[i].producer <= 0 => pairs'[i].producer <= 0)
SameFacade ==
    /\ facade'.closed = facade.closed /\ facade'.disposed = facade.disposed
    /\ facade'.cleanup = facade.cleanup /\ facade'.serial = facade.serial

LEMMA FramedStays ==
    ASSUME TypeOK, Framed, UNCHANGED <<main>>, SamePolls, SameFacade,
           front' # 0 => pairs'[front'].state = "displayed",
           link'.host => link.host, drawing = <<>> => drawing' = <<>>
    PROVE  Framed'
<1>1. main' = main /\ (main.use # 0 => main.use \in Slots)
  BY DEF TypeOK, Mains, Slots
<1> QED BY <1>1 DEF Framed, SamePolls, SameFacade

\* Closing the mailbox.
LEMMA CloseKeeps ==
    ASSUME TypeOK, Fenced(pairs, capturing, drawing, worker.token), Framed, Close
    PROVE  /\ Fenced(pairs', capturing, drawing, worker.token) /\ Shows(pairs, pairs')
           /\ SamePolls /\ SameUse(pairs, pairs') /\ SameFences(pairs, pairs')
           /\ closed' /\ generation' \in Nat /\ front' \in {0, front}
           /\ front' # 0 => pairs'[front'].state = "displayed"
<1> DEFINE S == {"ready", "displayed"}
<1>1. Typed(pairs)
  BY DEF Typed, TypeOK
<1>2. CASE closed
  <2>1. UNCHANGED mailbox
    BY <1>2 DEF Close
  <2> QED BY <1>1, <1>2, <2>1
     DEF mailbox, Shows, SameJob, SamePolls, SameUse, SameFences, Framed, TypeOK
<1>3. CASE ~closed
  <2>1. pairs' = Sealed(pairs, S) /\ closed' /\ generation' = generation + 1 /\ front' = 0
    BY <1>3 DEF Close
  <2>2. /\ Typed(pairs') /\ SameJob(pairs, pairs') /\ SameUse(pairs, pairs')
        /\ SameFences(pairs, pairs')
        /\ \A i \in Slots : pairs'[i].state = IF pairs[i].state \in S THEN "sealed" ELSE pairs[i].state
    BY <1>1, <2>1, SealedPairs
  <2>3. Fenced(pairs', capturing, drawing, worker.token)
    BY <1>1, <2>1, SealKeeps
  <2>4. Shows(pairs, pairs')
    BY <2>2 DEF Shows
  <2>5. SamePolls
    BY <2>2 DEF SamePolls, SameUse, SameFences
  <2> QED BY <2>1, <2>2, <2>3, <2>4, <2>5 DEF TypeOK
<1> QED BY <1>2, <1>3

-----------------------------------------------------------------------------
(* The steps of the worker that move it from one place to another.         *)

LEMMA ControlStep ==
    ASSUME IInv, UNCHANGED <<mailbox, gpu, main, sources>>, worker' \in Workers, SameWork,
           link' \in Links, SameCalls, link'.completed = link.completed,
           link'.host => link.host, facade' \in Facades, SameFacade,
           faults' \in 0 .. MaxFault, Placed'
    PROVE  IInv'
<1>1. TypeOK'
  BY DEF IInv, TypeOK, mailbox, gpu, sources
<1>2. Fenced(pairs, capturing, drawing, worker.token)'
  BY DEF IInv, mailbox, gpu, SameWork
<1>3. Framed'
  BY FramedStays DEF IInv, mailbox, gpu, SamePolls, Framed
<1>4. SameBusy
  BY DEF SameBusy, mailbox
<1>5. Ledger'
  BY <1>4, LedgerStays DEF IInv, SameFacade
<1> QED BY <1>1, <1>2, <1>3, <1>5 DEF IInv

\* Where it may go, the rest of its locals being the same.
LEMMA GoesTo ==
    ASSUME TypeOK, NEW pc \in WorkerSteps, Goes(pc)
    PROVE  /\ worker' \in Workers /\ SameWork /\ worker'.pc = pc
           /\ worker'.retiring = worker.retiring /\ worker'.resume = worker.resume
           /\ worker'.turns = worker.turns /\ worker'.broken = worker.broken
           /\ worker'.bound = worker.bound /\ worker'.ending = worker.ending
BY DEF TypeOK, Workers, Goes, SameWork

\* At the places that are none of the worker's waits nothing is said of it.
Elsewhere == {"start", "scan", "claim", "next", "asleep", "failing", "final", "last"}
LEMMA PlacedElsewhere ==
    ASSUME TypeOK, Placed, worker.token = 0, worker.job = 0, worker.turns = 0,
           worker' \in Workers, SameWork, worker'.turns = worker.turns, worker'.pc \in Elsewhere
    PROVE  Placed'
BY DEF Placed, Place, Builds, Removes, Elsewhere, SameWork

\* A worker that is elsewhere has no pair to build.
LEMMA ElsewhereIdle ==
    ASSUME TypeOK, Placed, worker.pc \in Elsewhere
    PROVE  worker.token = 0 /\ worker.job = 0 /\ worker.turns = 0
BY DEF Placed, Place, Builds, Elsewhere

SameLink == SameCalls /\ link'.completed = link.completed /\ (link'.host => link.host)
LEMMA LinkSame == ASSUME TypeOK, IInv, link' = link PROVE link' \in Links /\ SameLink
BY DEF TypeOK, SameLink, SameCalls, IInv, Ledger, Owned
LEMMA FacadeSame == ASSUME TypeOK, facade' = facade PROVE facade' \in Facades /\ SameFacade
BY DEF TypeOK, SameFacade
LEMMA ReadySame == ASSUME TypeOK, Ready PROVE facade' \in Facades /\ SameFacade
BY DEF TypeOK, SameFacade, Ready, Facades
LEMMA FaultType == ASSUME TypeOK, Fault PROVE faults' \in 0 .. MaxFault
BY ReflectionBounds DEF TypeOK, Fault

LEMMA WanderingStep ==
    ASSUME IInv, UNCHANGED <<mailbox, gpu, main, facade, sources, faults>>, SameLink,
           link' \in Links, worker.pc \in Elsewhere, NEW pc \in Elsewhere, Goes(pc)
    PROVE  IInv'
<1>1. TypeOK /\ Placed
  BY DEF IInv
<1>2. /\ worker' \in Workers /\ SameWork /\ worker'.pc = pc /\ worker'.turns = worker.turns
  BY <1>1, GoesTo DEF Elsewhere, WorkerSteps
<1>3. Placed'
  BY <1>1, <1>2, ElsewhereIdle, PlacedElsewhere
<1>4. facade' \in Facades /\ SameFacade /\ faults' \in 0 .. MaxFault
  BY <1>1, FacadeSame DEF TypeOK
<1> QED BY <1>2, <1>3, <1>4, ControlStep DEF SameLink

LEMMA ScansKeep == ASSUME IInv, Scans PROVE IInv'
<1>1. link' \in Links /\ SameLink
  BY DEF Scans, IInv, TypeOK, Links, SameLink, SameCalls, Ledger, Owned
<1> QED BY <1>1, WanderingStep DEF Scans, AtWork, Elsewhere

LEMMA SleepsKeep == ASSUME IInv, Sleeps \/ Wakes PROVE IInv'
<1>1. link' = link
  BY DEF Sleeps, Wakes
<1>2. link' \in Links /\ SameLink
  BY <1>1, LinkSame DEF IInv
<1>3. \E pc \in Elsewhere : Goes(pc)
  BY DEF Sleeps, Wakes, Elsewhere
<1> QED BY <1>2, <1>3, WanderingStep DEF Sleeps, Wakes, Elsewhere

LEMMA LooksForWorkKeeps == ASSUME IInv, LooksForWork PROVE IInv'
<1>1. link' \in Links /\ SameLink
  BY LinkSame DEF IInv, LooksForWork
<1>2. \E pc \in Elsewhere : Goes(pc)
  BY DEF LooksForWork, Elsewhere
<1> QED BY <1>1, <1>2, WanderingStep DEF LooksForWork, Elsewhere

\* The other steps of this kind.
LEMMA MovingStep ==
    ASSUME IInv, UNCHANGED <<mailbox, gpu, link, main, facade, sources, faults>>,
           worker' \in Workers, SameWork, Placed'
    PROVE  IInv'
<1>1. TypeOK
  BY DEF IInv
<1>2. link' \in Links /\ SameLink
  BY <1>1, LinkSame
<1>3. facade' \in Facades /\ SameFacade /\ faults' \in 0 .. MaxFault
  BY <1>1, FacadeSame DEF TypeOK
<1> QED BY <1>2, <1>3, ControlStep DEF SameLink

LEMMA LeavesKeeps == ASSUME IInv, Leaves PROVE IInv'
<1>1. TypeOK /\ Placed
  BY DEF IInv
<1>2. /\ worker' \in Workers /\ SameWork /\ worker'.pc = "gone"
  BY <1>1, GoesTo DEF Leaves, WorkerSteps
<1>3. worker.token = 0 /\ worker.job = 0 /\ worker.turns = 0
  BY <1>1, ElsewhereIdle DEF Elsewhere, Leaves
<1>4. Drained'
  BY DEF Leaves, Drained, In, mailbox
<1>5. Placed'
  BY <1>2, <1>3, <1>4 DEF Placed, Place, Builds, Removes, SameWork
<1> QED BY <1>2, <1>5, MovingStep DEF Leaves

LEMMA DrainsKeeps == ASSUME IInv, Drains PROVE IInv'
<1>1. TypeOK /\ Placed /\ worker.pc = "drain"
  BY DEF IInv, Drains, AtWork
<1>2. PICK pc \in {"publish", "abort"} : Goes(pc) /\ (pc = "publish" => ~worker.broken)
  BY DEF Drains
<1>3. /\ worker' \in Workers /\ SameWork /\ worker'.pc = pc
  BY <1>1, <1>2, GoesTo DEF WorkerSteps
<1>4. pairs' = pairs /\ link' = link
  BY DEF Drains, mailbox
<1>5. Placed'
  BY <1>1, <1>2, <1>3, <1>4 DEF Placed, Place, Builds, Removes, SameWork
<1> QED BY <1>3, <1>5, MovingStep DEF Drains

LEMMA DrainsProducerKeeps == ASSUME IInv, DrainsProducer PROVE IInv'
<1>1. TypeOK /\ Placed /\ worker.pc = "producer" /\ Fenced(pairs, capturing, drawing, worker.token)
  BY DEF IInv, DrainsProducer, AtWork
<1>2. /\ worker' \in Workers /\ SameWork /\ worker'.pc = "consumer" /\ worker'.turns = worker.turns
      /\ worker'.retiring = worker.retiring /\ worker'.resume = worker.resume
  BY <1>1, GoesTo DEF WorkerSteps, DrainsProducer
<1>3. UNCHANGED <<pairs, link, capturing, drawing>>
  BY DEF DrainsProducer, mailbox, gpu
<1>4. worker.token = 0 /\ worker.job = 0 /\ worker.turns = 0 /\ worker.retiring \in Slots
  BY <1>1 DEF Placed, Place, Builds, Removes, TypeOK, Workers, Slots
<1>5. ~Capturing(worker.retiring)
  <2>1. pairs[worker.retiring].producer <= 0 /\ pairs[worker.retiring].producer \in Int
    BY <1>1, <1>4 DEF DrainsProducer, TypeOK, Pairs, NoFence
  <2> QED BY <1>1, <1>4, <2>1 DEF Fenced, Captured, Capturing, Slots
<1>6. Placed'
  BY <1>1, <1>2, <1>3, <1>4, <1>5 DEF Placed, Place, Builds, Removes, SameWork, Capturing
<1> QED BY <1>2, <1>6, MovingStep DEF DrainsProducer

LEMMA DrainsConsumerKeeps == ASSUME IInv, DrainsConsumer PROVE IInv'
<1>1. TypeOK /\ Placed /\ worker.pc = "consumer" /\ Fenced(pairs, capturing, drawing, worker.token)
  BY DEF IInv, DrainsConsumer, AtWork
<1>2. /\ worker' \in Workers /\ SameWork /\ worker'.pc = "retire" /\ worker'.turns = worker.turns
      /\ worker'.retiring = worker.retiring /\ worker'.resume = worker.resume
  BY <1>1, GoesTo DEF WorkerSteps, DrainsConsumer
<1>3. UNCHANGED <<pairs, link, capturing, drawing>>
  BY DEF DrainsConsumer, mailbox, gpu
<1>4. worker.token = 0 /\ worker.job = 0 /\ worker.turns = 0 /\ worker.retiring \in Slots
  BY <1>1 DEF Placed, Place, Builds, Removes, TypeOK, Workers, Slots
<1>5. ~Drawing(worker.retiring)
  <2>1. pairs[worker.retiring].consumer <= 0 /\ pairs[worker.retiring].consumer \in Int
    BY <1>1, <1>4 DEF DrainsConsumer, TypeOK, Pairs, NoFence
  <2>2. ~pairs[worker.retiring].reader
    BY <1>1, <1>4 DEF Placed, Place, Removes, Fenced, Sane
  <2> QED BY <1>1, <1>4, <2>1, <2>2 DEF Fenced, Read, Drawing
<1>6. Placed'
  BY <1>1, <1>2, <1>3, <1>4, <1>5 DEF Placed, Place, Builds, Removes, SameWork, Capturing, Drawing
<1> QED BY <1>2, <1>6, MovingStep DEF DrainsConsumer

LEMMA HostRepliesKeeps == ASSUME IInv, HostReplies PROVE IInv'
<1>1. TypeOK /\ Placed /\ worker.pc = "host" /\ Framed
  BY DEF IInv, HostReplies, AtWork
<1>2. worker' = [worker EXCEPT !.pc = worker.resume, !.resume = "scan"]
  BY DEF HostReplies
<1>3. /\ worker' \in Workers /\ SameWork /\ worker'.pc = worker.resume
      /\ worker'.retiring = worker.retiring /\ worker'.resume = "scan"
      /\ worker'.turns = worker.turns /\ worker'.broken = worker.broken
  BY <1>1, <1>2 DEF TypeOK, Workers, SameWork, WorkerSteps
<1>4. UNCHANGED <<pairs, link, capturing, drawing>>
  BY DEF HostReplies, mailbox, gpu
<1>5. drawing = <<>> /\ capturing = <<>>
  BY <1>1 DEF HostReplies, Framed
<1>6. \A i : ~Capturing(i) /\ ~Drawing(i)
  BY <1>5 DEF Capturing, Drawing
<1>7. \A i : ~Capturing(i)' /\ ~Drawing(i)'
  BY <1>4, <1>5 DEF Capturing, Drawing
<1>8. Placed'
  BY <1>1, <1>3, <1>4, <1>7 DEF Placed, Place, Builds, Removes, SameWork
<1> QED BY <1>3, <1>8, MovingStep DEF HostReplies

LEMMA WaitFailsKeeps == ASSUME IInv, WaitFails PROVE IInv'
<1>1. TypeOK /\ Placed /\ worker.pc \in {"drain", "producer", "consumer"}
  BY DEF IInv, WaitFails, Waits
<1>2. PICK pc \in {"drain", "consumer", "retire"} :
         /\ worker' = [worker EXCEPT !.pc = "host", !.resume = pc]
         /\ pc = "drain" <=> worker.pc = "drain"
         /\ pc = "consumer" <=> worker.pc = "producer"
  BY <1>1 DEF WaitFails
<1>3. /\ worker' \in Workers /\ SameWork /\ worker'.pc = "host"
      /\ worker'.retiring = worker.retiring /\ worker'.resume = pc
      /\ worker'.turns = worker.turns /\ worker'.broken = worker.broken
  BY <1>1, <1>2 DEF TypeOK, Workers, SameWork, WorkerSteps
<1>4. UNCHANGED <<pairs, capturing, drawing>>
  BY DEF WaitFails, mailbox, gpu
<1>5. /\ link' \in Links /\ SameLink /\ link'.abandoned = link.abandoned
  BY <1>1 DEF WaitFails, TypeOK, Links, SameLink, SameCalls, IInv, Ledger, Owned
<1>6. facade' \in Facades /\ SameFacade /\ faults' \in 0 .. MaxFault
  BY <1>1, ReadySame, FaultType DEF WaitFails
<1>7. Placed'
  BY <1>1, <1>2, <1>3, <1>4, <1>5 DEF Placed, Place, Builds, Removes, SameWork, Capturing, Drawing
<1> QED BY <1>3, <1>5, <1>6, <1>7, ControlStep DEF WaitFails, SameLink

-----------------------------------------------------------------------------
(* The steps of the worker that close the mailbox.                         *)

LEMMA CloseStep ==
    ASSUME IInv, Close, UNCHANGED <<gpu, main, sources>>, worker' \in Workers, SameWork,
           link' \in Links, link'.host => link.host, facade' \in Facades, SameFacade,
           faults' \in 0 .. MaxFault, Placed', SameBusy => Ledger'
    PROVE  IInv'
<1>1. TypeOK /\ Framed /\ Fenced(pairs, capturing, drawing, worker.token)
  BY DEF IInv
<1>2. /\ Fenced(pairs', capturing, drawing, worker.token) /\ Shows(pairs, pairs') /\ SamePolls
      /\ closed' /\ generation' \in Nat /\ front' \in {0, front}
      /\ front' # 0 => pairs'[front'].state = "displayed"
  BY <1>1, CloseKeeps
<1>3. TypeOK'
  BY <1>1, <1>2 DEF TypeOK, Shows, Typed, gpu, sources
<1>4. Fenced(pairs, capturing, drawing, worker.token)'
  BY <1>2 DEF gpu, SameWork
<1>5. Framed'
  BY <1>1, <1>2, FramedStays DEF gpu
<1>6. Ledger'
  BY <1>2, ShownBusy
<1> QED BY <1>3, <1>4, <1>5, <1>6 DEF IInv

LEMMA ClosedPairs ==
    ASSUME IInv, Close
    PROVE  /\ Shows(pairs, pairs') /\ closed'
           /\ \A i \in Slots : pairs[i].state \in {"building", "draining", "free"}
                                 => pairs'[i].state = pairs[i].state
<1>1. Shows(pairs, pairs') /\ closed'
  BY CloseKeeps DEF IInv
<1> QED BY <1>1 DEF Shows

LEMMA FailedLink ==
    ASSUME IInv, link' = Failed(link)
    PROVE  link' \in Links /\ SameLink /\ link'.abandoned = link.abandoned
BY DEF IInv, TypeOK, Failed, Links, SameLink, SameCalls, Ledger, Owned

LEMMA StartsKeep == ASSUME IInv, Starts PROVE IInv'
<1>1. TypeOK /\ Placed /\ worker.pc = "start"
  BY DEF IInv, Starts
<1>2. worker.token = 0 /\ worker.job = 0 /\ worker.turns = 0
  BY <1>1, ElsewhereIdle DEF Elsewhere
<1>3. CASE /\ worker' = [worker EXCEPT !.pc = "scan", !.bound = TRUE]
           /\ UNCHANGED <<mailbox, link, facade, faults>>
  <2>1. worker' \in Workers /\ SameWork /\ worker'.pc = "scan" /\ worker'.turns = worker.turns
    BY <1>1, <1>3 DEF TypeOK, Workers, WorkerSteps, SameWork
  <2>2. Placed'
    BY <1>1, <1>2, <2>1, PlacedElsewhere DEF Elsewhere
  <2> QED BY <1>3, <2>1, <2>2, MovingStep DEF Starts
<1>4. CASE /\ Fault /\ link' = Failed(link) /\ Ready /\ Close
           /\ worker' = [worker EXCEPT !.pc = "final", !.ending = TRUE]
  <2>1. worker' \in Workers /\ SameWork /\ worker'.pc = "final" /\ worker'.turns = worker.turns
    BY <1>1, <1>4 DEF TypeOK, Workers, WorkerSteps, SameWork
  <2>2. Placed'
    BY <1>1, <1>2, <2>1, PlacedElsewhere DEF Elsewhere
  <2>3. link' \in Links /\ SameLink
    BY <1>4, FailedLink
  <2>4. facade' \in Facades /\ SameFacade /\ faults' \in 0 .. MaxFault
    BY <1>1, <1>4, ReadySame, FaultType
  <2>5. UNCHANGED <<gpu, main, sources>>
    BY DEF Starts
  <2>6. SameBusy => Ledger'
    BY <2>1, <2>3, <2>4, <2>5, LedgerStays DEF IInv, SameLink, SameFacade
  <2> QED BY <1>4, <2>1, <2>2, <2>3, <2>4, <2>5, <2>6, CloseStep DEF SameLink
<1> QED BY <1>3, <1>4 DEF Starts

LEMMA FailsKeeps == ASSUME IInv, Fails PROVE IInv'
<1>1. TypeOK /\ Placed /\ worker.pc = "failing"
  BY DEF IInv, Fails
<1>2. worker.token = 0 /\ worker.job = 0 /\ worker.turns = 0
  BY <1>1, ElsewhereIdle DEF Elsewhere
<1>3. worker' \in Workers /\ SameWork /\ worker'.pc = "final" /\ worker'.turns = worker.turns
  BY <1>1 DEF Fails, TypeOK, Workers, WorkerSteps, SameWork
<1>4. Placed'
  BY <1>1, <1>2, <1>3, PlacedElsewhere DEF Elsewhere
<1>5. link' \in Links /\ SameLink
  BY FailedLink DEF Fails
<1>6. facade' \in Facades /\ SameFacade /\ faults' \in 0 .. MaxFault
  BY <1>1, ReadySame DEF Fails, TypeOK
<1>7. UNCHANGED <<gpu, main, sources>> /\ Close
  BY DEF Fails
<1>8. SameBusy => Ledger'
  BY <1>3, <1>5, <1>6, <1>7, LedgerStays DEF IInv, SameLink, SameFacade
<1> QED BY <1>3, <1>4, <1>5, <1>6, <1>7, <1>8, CloseStep DEF SameLink

LEMMA QuarantinesKeeps == ASSUME IInv, Quarantines PROVE IInv'
<1>1. TypeOK /\ Placed /\ link.abandoned /\ Close /\ UNCHANGED <<gpu, main, sources, faults>>
  BY DEF IInv, Quarantines
<1>2. worker' \in Workers /\ SameWork /\ worker'.pc = "gone"
  BY <1>1, GoesTo DEF Quarantines, WorkerSteps
<1>3. /\ link' \in Links /\ link'.abandoned /\ ~link'.accepting /\ link'.pending = 0
      /\ link'.completed = link.completed /\ link'.host = link.host
  <2> DEFINE m == Failed(link)
  <2>1. /\ m \in Links /\ m.abandoned /\ ~m.accepting
        /\ m.completed = link.completed /\ m.host = link.host
    BY <1>1 DEF TypeOK, Failed, Links
  <2>2. link' = [m EXCEPT !.pending = 0]
    BY DEF Quarantines
  <2> HIDE DEF m
  <2> QED BY <1>1, <2>1, <2>2, ReflectionBounds DEF Links
<1>4. facade' \in Facades /\ SameFacade
  BY <1>1, ReadySame, FacadeSame DEF Quarantines
<1>5. Placed'
  <2>1. worker.token # 0 => worker.token \in Slots
    BY <1>1 DEF TypeOK, Workers, Slots
  <2>2. worker.token # 0 => pairs'[worker.token].state = "building"
    BY <1>1, <2>1, ClosedPairs DEF Placed
  <2> QED BY <1>1, <1>2, <1>3, <2>2 DEF Placed, Place, Builds, Removes, SameWork
<1>6. ASSUME SameBusy PROVE Ledger'
  <2>1. Done' = Done /\ Held' \subseteq Held
    BY <1>2, <1>3, <1>6 DEF Done, Held, In, SameBusy, SameWork
  <2>2. \A i \in Slots : (InUse(i)' <=> InUse(i)) /\ pairs'[i].job = pairs[i].job
    BY <1>6 DEF InUse, SameBusy
  <2>3. UNCHANGED <<leases, inputs, deletions>> /\ facade'.serial = facade.serial
    BY <1>1, <1>4 DEF sources, SameFacade
  <2>4. Apart'
    <3> USE <1>2, <1>3, <2>1, <2>2, <2>3 DEF IInv, Ledger, SameWork
    <3>1. \A i \in Slots : InUse(i)' =>
            /\ pairs'[i].job # 0 /\ pairs'[i].job \notin Done' \cup deletions'
            /\ \A j \in Slots \ {i} : InUse(j)' => pairs'[i].job # pairs'[j].job
      BY DEF Apart
    <3>2. worker'.job # 0 =>
            /\ worker'.job \notin Done' \cup deletions'
            /\ \A i \in Slots : InUse(i)' => (pairs'[i].job = worker'.job <=> i = worker'.token)
      BY DEF Apart
    <3>3. worker'.token # 0 => pairs'[worker'.token].job = worker'.job
      BY DEF Apart, TypeOK, Workers, Slots
    <3>4. /\ Done' \cap deletions' = {} /\ worker'.job <= facade'.serial
          /\ \A i \in Slots : pairs'[i].job <= facade'.serial
          /\ \A s \in leases' \cup inputs' \cup deletions' \cup Done' : s <= facade'.serial
      BY DEF Apart
    <3>5. 0 <= facade'.serial
      BY <1>4 DEF Facades
    <3> QED BY <3>1, <3>2, <3>3, <3>4, <3>5 DEF Apart
  <2>5. Owned'
    BY <1>3, <2>1, <2>3 DEF Owned, IInv, Ledger
  <2> QED BY <2>4, <2>5 DEF Ledger
<1>7. faults' \in 0 .. MaxFault
  BY <1>1 DEF TypeOK
<1> QED BY <1>1, <1>2, <1>3, <1>4, <1>5, <1>6, <1>7, CloseStep

-----------------------------------------------------------------------------
(* The captures.                                                           *)

LEMMA CapturingStep ==
    ASSUME IInv, UNCHANGED <<mailbox, drawing, link, main, facade, sources>>,
           worker.pc \in {"input", "turn"}, worker' \in Workers, SameWork,
           worker'.pc \in {"turn", "drain"},
           worker'.pc = "turn" => worker.pc = "turn" /\ worker'.turns < Turns,
           worker'.broken = worker.broken \/ (worker'.broken /\ worker'.pc = "drain"),
           worker.pc = "input" => worker'.broken,
           capturing' \in {capturing, Append(capturing, worker.token)},
           faults' \in 0 .. MaxFault
    PROVE  IInv'
<1>1. TypeOK /\ Placed /\ Fenced(pairs, capturing, drawing, worker.token)
  BY DEF IInv
<1>2. worker.token \in Slots
  BY <1>1 DEF Placed, Place, Builds, TypeOK, Workers, Slots
<1>3. capturing' \in Seq(Slots)
  <2>1. capturing \in Seq(Slots)
    BY <1>1 DEF TypeOK
  <2>2. Append(capturing, worker.token) \in Seq(Slots)
    BY <1>2, <2>1
  <2> QED BY <2>1, <2>2
<1>4. TypeOK'
  BY <1>1, <1>3 DEF TypeOK, mailbox, sources
<1>5. Fenced(pairs, capturing, drawing, worker.token)'
  <2>1. Fenced(pairs, Append(capturing, worker.token), drawing, worker.token)
    BY <1>1, <1>2, CaptureKeeps DEF TypeOK, Typed
  <2> QED BY <1>1, <2>1 DEF mailbox, SameWork
<1>6. Placed'
  BY <1>1 DEF Placed, Place, Builds, Removes, SameWork, mailbox
<1>7. Framed'
  <2>1. front' # 0 => pairs'[front'].state = "displayed"
    BY DEF IInv, Framed, mailbox
  <2>2. SamePolls /\ SameFacade
    BY DEF SamePolls, SameFacade, mailbox
  <2> QED BY <1>1, <2>1, <2>2, FramedStays DEF IInv
<1>8. Ledger'
  <2>1. SameBusy /\ link' = link /\ facade' = facade
    BY DEF SameBusy, mailbox
  <2>2. SameLink
    BY <1>1, <2>1, LinkSame
  <2> QED BY <1>1, <2>1, <2>2, LedgerStays DEF IInv, SameLink
<1> QED BY <1>4, <1>5, <1>6, <1>7, <1>8 DEF IInv

LEMMA CaptureFailsKeeps == ASSUME IInv, CaptureFails PROVE IInv'
<1>1. worker' \in Workers /\ SameWork /\ worker'.pc = "drain" /\ worker'.broken
  BY DEF CaptureFails, IInv, TypeOK, Workers, SameWork, WorkerSteps
<1>2. faults' \in 0 .. MaxFault
  BY FaultType DEF IInv, CaptureFails
<1> QED BY <1>1, <1>2, CapturingStep DEF CaptureFails

LEMMA TakesTurnKeeps == ASSUME IInv, TakesTurn PROVE IInv'
<1>1. TypeOK /\ Placed /\ worker.pc = "turn" /\ worker.turns < Turns
  BY DEF IInv, TakesTurn, AtWork, Placed
<1>2. /\ worker' \in Workers /\ SameWork /\ worker'.pc \in {"turn", "drain"}
      /\ worker'.pc = "turn" => worker'.turns < Turns
      /\ worker'.broken = worker.broken
  <2>1. CASE BuildingCurrent(worker.token)
    <3>1. worker' = [worker EXCEPT !.turns = @ + 1,
                                   !.pc = IF worker.turns + 1 < Turns THEN "turn" ELSE "drain"]
      BY <2>1 DEF TakesTurn
    <3>2. worker.turns + 1 \in 0 .. Turns
      BY <1>1, ReflectionBounds DEF TypeOK, Workers
    <3> QED BY <1>1, <3>1, <3>2 DEF TypeOK, Workers, SameWork, WorkerSteps
  <2>2. CASE ~BuildingCurrent(worker.token)
    BY <1>1, <2>2, GoesTo DEF TakesTurn, WorkerSteps
  <2> QED BY <2>1, <2>2
<1>3. capturing' \in {capturing, Append(capturing, worker.token)}
  BY DEF TakesTurn
<1>4. faults' \in 0 .. MaxFault
  BY <1>1 DEF TakesTurn, TypeOK
<1> QED BY <1>1, <1>2, <1>3, <1>4, CapturingStep DEF TakesTurn

-----------------------------------------------------------------------------
(* The steps of the worker that hand a pair or a job on.                   *)

\* What a busy worker says of the pairs: the one it builds, and the one it drains.
LEMMA ClaimsKeep == ASSUME IInv, Claims PROVE IInv'
<1>1. TypeOK /\ Placed /\ Framed /\ Fenced(pairs, capturing, drawing, worker.token) /\ Typed(pairs)
  BY DEF IInv, Typed, TypeOK
<1>2. worker.pc \in {"claim", "last"}
  BY DEF Claims, AtWork
<1>3. worker.token = 0 /\ worker.job = 0 /\ worker.turns = 0
  BY <1>1, <1>2, ElsewhereIdle DEF Elsewhere
<1>4. PICK i \in Slots :
         /\ pairs[i].state = "sealed" /\ ~pairs[i].poller /\ ~pairs[i].reader
         /\ pairs' = Draining(i)
         /\ worker' = [worker EXCEPT !.pc = "producer", !.retiring = i]
  BY DEF Claims, Retirable, In
<1>5. UNCHANGED <<front, generation, closed, gpu, link, main, facade, sources, faults>>
  BY DEF Claims
<1>6. /\ Only(i, pairs, pairs') /\ SameUse(pairs, pairs') /\ SameFences(pairs, pairs')
      /\ SameJob(pairs, pairs') /\ pairs'[i].state = "draining"
  BY <1>1, <1>4, DrainingPair
<1>7. /\ worker' \in Workers /\ SameWork /\ worker'.pc = "producer" /\ worker'.retiring = i
      /\ worker'.turns = worker.turns
  <2>1. worker \in Workers /\ i \in 0 .. 2
    BY <1>1 DEF TypeOK, Slots
  <2> QED BY <1>4, <2>1 DEF Workers, WorkerSteps, SameWork
<1>8. TypeOK'
  BY <1>1, <1>5, <1>6, <1>7 DEF TypeOK, Only, Typed, gpu, sources
<1>9. Fenced(pairs, capturing, drawing, worker.token)'
  <2>1. Fenced(pairs', capturing, drawing, worker.token)
    BY <1>1, <1>4, <1>6, DrainingKeeps
  <2> QED BY <1>5, <1>7, <2>1 DEF gpu, SameWork
<1>10. Placed'
  BY <1>3, <1>6, <1>7 DEF Placed, Place, Builds, Removes, SameWork, Slots
<1>11. Framed'
  <2>1. SamePolls
    BY <1>6 DEF SamePolls, SameUse, SameFences
  <2>2. front' # 0 => pairs'[front'].state = "displayed"
    BY <1>1, <1>4, <1>5, <1>6 DEF Framed, Only, TypeOK
  <2>3. SameFacade
    BY <1>5 DEF SameFacade
  <2> QED BY <1>1, <1>5, <2>1, <2>2, <2>3, FramedStays DEF gpu
<1>12. Ledger'
  <2>1. SameBusy
    BY <1>4, <1>6 DEF SameBusy, Only, SameJob
  <2>2. SameLink
    BY <1>1, <1>5, LinkSame
  <2> QED BY <1>1, <1>5, <1>7, <2>1, <2>2, LedgerStays DEF IInv, SameLink
<1> QED BY <1>8, <1>9, <1>10, <1>11, <1>12 DEF IInv

\* Steps that leave the pairs alone and pass a job between the queues.
LEMMA PassingStep ==
    ASSUME IInv, UNCHANGED <<mailbox, gpu, main, deletions>>, worker' \in Workers,
           worker'.token = worker.token,
           link' \in Links, link'.host => link.host, facade' \in Facades, SameFacade,
           leases' \subseteq Serials, inputs' \subseteq Serials,
           faults' \in 0 .. MaxFault, Placed', Ledger'
    PROVE  IInv'
<1>1. TypeOK'
  BY DEF IInv, TypeOK, mailbox, gpu
<1>2. Fenced(pairs, capturing, drawing, worker.token)'
  BY DEF IInv, mailbox, gpu
<1>3. Framed'
  BY FramedStays DEF IInv, mailbox, gpu, SamePolls, Framed
<1> QED BY <1>1, <1>2, <1>3 DEF IInv

LEMMA AcknowledgedLink ==
    ASSUME NEW l \in Links, NEW s \in Serials, NEW kept \in BOOLEAN
    PROVE  LET m == Acknowledged(l, s, kept)
           IN  /\ m \in Links /\ m.pending = l.pending /\ m.generation = l.generation
               /\ m.completed = l.completed \cup {[serial |-> s, kept |-> kept]}
               /\ (m.accepting <=> l.accepting) /\ (m.abandoned <=> l.abandoned)
               /\ (m.host <=> l.host)
BY DEF Links, Acknowledged

\* A job that is acknowledged is in none of the other places any more.
LEMMA DoneMore ==
    ASSUME NEW s, NEW kept \in BOOLEAN,
           link'.completed = link.completed \cup {[serial |-> s, kept |-> kept]}
    PROVE  Done' = Done \cup {s} /\ Kept' = Kept \cup (IF kept THEN {s} ELSE {})
<1>1. \A x : x \in Done' <=> x \in Done \/ x = s
  <2>1. [serial |-> s, kept |-> kept].serial = s
    OBVIOUS
  <2> QED BY <2>1 DEF Done
<1>2. \A x : x \in Kept' <=> x \in Kept \/ (kept /\ x = s)
  <2>1. [serial |-> s, kept |-> kept].serial = s /\ [serial |-> s, kept |-> kept].kept = kept
    OBVIOUS
  <2> QED BY <2>1 DEF Kept
<1> QED BY <1>1, <1>2

\* The pending job goes back, with its fence or without.
LEMMA PendingReturned ==
    ASSUME TypeOK, Ledger, SameWork, UNCHANGED <<mailbox, leases, deletions>>,
           \A i \in Slots : pairs[i].kept => InUse(i),
           facade'.serial = facade.serial, link.pending # 0, link'.pending = 0,
           link'.abandoned <=> link.abandoned, link'.accepting => link.accepting,
           NEW kept \in BOOLEAN,
           link'.completed = link.completed \cup {[serial |-> link.pending, kept |-> kept]},
           inputs' = IF kept THEN inputs ELSE inputs \ {link.pending}
    PROVE  Ledger'
<1>1. Done' = Done \cup {link.pending} /\ Kept' = Kept \cup (IF kept THEN {link.pending} ELSE {})
  BY DoneMore
<1>2. pairs' = pairs /\ (\A i : InUse(i)' <=> InUse(i))
  BY DEF mailbox, InUse
<1>3. facade.serial \in Nat
  BY DEF TypeOK, Facades
<1>4. Apart'
  <2> USE <1>1, <1>2, <1>3 DEF Ledger, SameWork
  <2>1. \A i \in Slots : InUse(i)' =>
          /\ pairs'[i].job # 0 /\ pairs'[i].job \notin Done' \cup deletions'
          /\ \A j \in Slots \ {i} : InUse(j)' => pairs'[i].job # pairs'[j].job
    BY DEF Apart
  <2>2. worker'.job # 0 =>
          /\ worker'.job \notin Done' \cup deletions'
          /\ \A i \in Slots : InUse(i)' => (pairs'[i].job = worker'.job <=> i = worker'.token)
    BY DEF Apart
  <2>3. worker'.token # 0 => pairs'[worker'.token].job = worker'.job
    BY DEF Apart
  <2>4. /\ Done' \cap deletions' = {} /\ worker'.job <= facade'.serial
        /\ \A i \in Slots : pairs'[i].job <= facade'.serial
        /\ \A s \in leases' \cup inputs' \cup deletions' \cup Done' : s <= facade'.serial
    BY DEF Apart
  <2> QED BY <2>1, <2>2, <2>3, <2>4 DEF Apart
<1>5. Owned'
  <2>1. Held' \subseteq Held
    BY <1>2 DEF Held, In, SameWork
  <2>2. ASSUME NEW s \in Serials, ~link.abandoned
        PROVE  s \in inputs' <=>
                 \/ s = link'.pending \/ (worker'.kept /\ s = worker'.job)
                 \/ s \in Kept' \/ s \in deletions'
                 \/ \E i \in Slots : pairs'[i].kept /\ pairs'[i].job = s
    <3>1. s \in inputs <=>
            \/ s = link.pending \/ (worker.kept /\ s = worker.job) \/ s \in Kept \/ s \in deletions
            \/ \E i \in Slots : pairs[i].kept /\ pairs[i].job = s
      BY <2>2 DEF Ledger, Owned
    <3>2. s # 0 /\ Kept \subseteq Done
      BY DEF Serials, Kept, Done
    <3>3. s = link.pending => ~ \/ (worker.kept /\ s = worker.job) \/ s \in Kept \/ s \in deletions
      BY <3>2 DEF Ledger, Apart
    <3>4. s = link.pending => \A i \in Slots : pairs[i].kept => pairs[i].job # s
      BY <3>2 DEF Ledger, Apart
    <3> QED BY <1>1, <1>2, <3>1, <3>2, <3>3, <3>4 DEF SameWork
  <2>3. link'.accepting => ~link'.abandoned
    BY DEF Ledger, Owned
  <2> QED BY <2>1, <2>2, <2>3 DEF Owned, Ledger
<1> QED BY <1>4, <1>5 DEF Ledger

LEMMA ReturnsStaleKeeps == ASSUME IInv, ReturnsStale PROVE IInv'
<1>1. TypeOK /\ Placed /\ Ledger /\ worker.pc = "next"
  BY DEF IInv, ReturnsStale
<1>2. worker.token = 0 /\ worker.job = 0 /\ worker.turns = 0
  BY <1>1, ElsewhereIdle DEF Elsewhere
<1>3. worker' \in Workers /\ SameWork /\ worker'.pc = "scan" /\ worker'.turns = worker.turns
  BY <1>1, GoesTo DEF ReturnsStale, WorkerSteps
<1>4. link.pending \in Serials /\ link.pending # 0 /\ link \in Links
  BY <1>1 DEF ReturnsStale, TypeOK, Links, Serials
<1>5. /\ link' \in Links /\ link'.pending = 0
      /\ link'.completed = link.completed \cup {[serial |-> link.pending, kept |-> TRUE]}
      /\ (link'.accepting <=> link.accepting) /\ (link'.abandoned <=> link.abandoned)
      /\ (link'.host <=> link.host)
  <2> DEFINE m == Acknowledged(link, link.pending, TRUE)
  <2>0. m = Acknowledged(link, link.pending, TRUE)
    OBVIOUS
  <2> HIDE DEF m
  <2>1. /\ m \in Links /\ m.completed = link.completed \cup {[serial |-> link.pending, kept |-> TRUE]}
        /\ (m.accepting <=> link.accepting) /\ (m.abandoned <=> link.abandoned)
        /\ (m.host <=> link.host)
    BY <1>4, <2>0, AcknowledgedLink, TRUE \in BOOLEAN
  <2>2. link' = [m EXCEPT !.pending = 0]
    BY DEF ReturnsStale, m
  <2> QED BY <2>1, <2>2, ReflectionBounds DEF Links
<1>6. UNCHANGED <<mailbox, gpu, main, leases, inputs, deletions, faults>>
  BY DEF ReturnsStale, sources
<1>7. facade' \in Facades /\ SameFacade
  BY <1>1, ReadySame DEF ReturnsStale
<1>8. Placed'
  BY <1>1, <1>2, <1>3, PlacedElsewhere DEF Elsewhere
<1>9. \A i \in Slots : pairs[i].kept => InUse(i)
  BY DEF IInv, Fenced, Sane, InUse
<1>10. Ledger'
  BY <1>1, <1>3, <1>4, <1>5, <1>6, <1>7, <1>9, PendingReturned, TRUE \in BOOLEAN DEF SameFacade
<1>11. leases' \subseteq Serials /\ inputs' \subseteq Serials /\ faults' \in 0 .. MaxFault
  BY <1>1, <1>6 DEF TypeOK
<1> QED BY <1>3, <1>5, <1>6, <1>7, <1>8, <1>10, <1>11, PassingStep DEF SameWork

LEMMA EndsKeeps == ASSUME IInv, Ends PROVE IInv'
<1>1. TypeOK /\ Placed /\ Ledger /\ worker.pc = "final" /\ ~link.abandoned
  BY DEF IInv, Ends, AtWork
<1>2. worker.token = 0 /\ worker.job = 0 /\ worker.turns = 0
  BY <1>1, ElsewhereIdle DEF Elsewhere
<1>3. worker' \in Workers /\ SameWork /\ worker'.pc = "last" /\ worker'.turns = worker.turns
  BY <1>1 DEF Ends, TypeOK, Workers, WorkerSteps, SameWork
<1>4. Placed'
  BY <1>1, <1>2, <1>3, PlacedElsewhere DEF Elsewhere
<1>5. UNCHANGED <<mailbox, gpu, main, leases, deletions, faults>>
  BY DEF Ends
<1>6. \A i \in Slots : pairs[i].kept => InUse(i)
  BY DEF IInv, Fenced, Sane, InUse
<1>7. faults' \in 0 .. MaxFault /\ leases' \subseteq Serials
  BY <1>1, <1>5 DEF TypeOK
<1>8. CASE link.pending = 0
  <2>1. link' = [link EXCEPT !.accepting = FALSE] /\ UNCHANGED <<inputs, facade>>
    BY <1>8 DEF Ends
  <2>2. link' \in Links /\ SameLink
    BY <1>1, <2>1 DEF TypeOK, Links, SameLink, SameCalls
  <2>3. facade' \in Facades /\ SameFacade
    BY <1>1, <2>1, FacadeSame
  <2>4. SameBusy /\ UNCHANGED sources
    BY <1>5, <2>1 DEF SameBusy, mailbox, sources
  <2>5. Ledger'
    BY <1>1, <1>3, <2>2, <2>3, <2>4, LedgerStays DEF SameLink, SameFacade
  <2> QED BY <1>1, <1>3, <1>4, <1>5, <1>7, <2>1, <2>2, <2>3, <2>5, PassingStep
          DEF SameWork, SameLink, TypeOK
<1>9. CASE link.pending # 0
  <2>1. /\ link' = [Acknowledged(link, link.pending, ~worker.bound)
                      EXCEPT !.accepting = FALSE, !.pending = 0]
        /\ inputs' = IF worker.bound THEN inputs \ {link.pending} ELSE inputs
        /\ Ready
    BY <1>9 DEF Ends
  <2> DEFINE m == Acknowledged(link, link.pending, ~worker.bound)
  <2>2. m = Acknowledged(link, link.pending, ~worker.bound)
    OBVIOUS
  <2> HIDE DEF m
  <2>3. link.pending \in Serials /\ link \in Links /\ (~worker.bound) \in BOOLEAN
    BY <1>1, <1>9 DEF TypeOK, Links, Serials
  <2>4. /\ m \in Links /\ m.completed = link.completed \cup {[serial |-> link.pending, kept |-> ~worker.bound]}
        /\ (m.abandoned <=> link.abandoned) /\ (m.host <=> link.host)
    BY <2>2, <2>3, AcknowledgedLink
  <2>5. link' = [m EXCEPT !.accepting = FALSE, !.pending = 0]
    BY <2>1, <2>2
  <2>6. /\ link' \in Links /\ link'.pending = 0 /\ ~link'.accepting
        /\ link'.completed = link.completed \cup {[serial |-> link.pending, kept |-> ~worker.bound]}
        /\ (link'.abandoned <=> link.abandoned) /\ (link'.host <=> link.host)
    <3>0. 0 \in 0 .. MaxSerial /\ m \in Links
      BY <2>4, ReflectionBounds
    <3>1. link' \in Links /\ link'.pending = 0 /\ ~link'.accepting /\ link'.completed = m.completed
      BY <2>5, <3>0 DEF Links
    <3>2. (link'.abandoned <=> m.abandoned) /\ (link'.host <=> m.host)
      BY <2>4, <2>5 DEF Links
    <3> QED BY <2>4, <3>1, <3>2
  <2>7. facade' \in Facades /\ SameFacade
    BY <1>1, <2>1, ReadySame
  <2>8. inputs' = IF ~worker.bound THEN inputs ELSE inputs \ {link.pending}
    BY <2>1
  <2>9. Ledger'
    BY <1>1, <1>3, <1>5, <1>6, <1>9, <2>3, <2>6, <2>7, <2>8, PendingReturned DEF SameFacade
  <2>10. inputs' \subseteq Serials
    BY <1>1, <2>1 DEF TypeOK
  <2> QED BY <1>3, <1>4, <1>5, <1>7, <2>6, <2>7, <2>9, <2>10, PassingStep DEF SameWork
<1> QED BY <1>8, <1>9

LEMMA AcknowledgesKeeps == ASSUME IInv, Acknowledges PROVE IInv'
<1>1. /\ TypeOK /\ Placed /\ Ledger /\ worker.pc = "acknowledge" /\ ~link.abandoned
      /\ UNCHANGED <<mailbox, gpu, main, leases, inputs, deletions, faults>> /\ Ready
  BY DEF IInv, Acknowledges, AtWork, sources
<1>2. worker.token = 0 /\ worker.job # 0 /\ worker.job \in Serials /\ worker.turns = 0
  BY <1>1 DEF Placed, Place, Builds, TypeOK, Workers, Serials
<1>3. worker' = [worker EXCEPT !.pc = IF worker.ending THEN "last" ELSE "scan", !.job = 0, !.kept = FALSE]
  BY DEF Acknowledges
<1>4. /\ worker' \in Workers /\ worker'.pc \in Elsewhere /\ worker'.token = 0 /\ worker'.job = 0
      /\ ~worker'.kept /\ worker'.turns = 0
  <2>1. PICK pc \in {"last", "scan"} : worker' = [worker EXCEPT !.pc = pc, !.job = 0, !.kept = FALSE]
    BY <1>3
  <2>2. worker \in Workers
    BY <1>1 DEF TypeOK
  <2>3. 0 \in 0 .. MaxSerial /\ pc \in WorkerSteps /\ pc \in Elsewhere
    BY ReflectionBounds DEF WorkerSteps, Elsewhere
  <2>4. worker' \in Workers /\ worker'.pc = pc /\ worker'.job = 0 /\ ~worker'.kept
    BY <2>1, <2>2, <2>3 DEF Workers
  <2>5. worker'.token = worker.token /\ worker'.turns = worker.turns
    BY <2>1, <2>2 DEF Workers
  <2> QED BY <1>2, <2>3, <2>4, <2>5
<1>5. Placed'
  BY <1>4 DEF Placed, Place, Builds, Removes, Elsewhere
<1>6. link' = Acknowledged(link, worker.job, worker.kept)
  BY DEF Acknowledges
<1>7. link \in Links /\ worker.kept \in BOOLEAN
  BY <1>1 DEF TypeOK, Workers
<1>8. /\ link' \in Links /\ link'.pending = link.pending
      /\ link'.completed = link.completed \cup {[serial |-> worker.job, kept |-> worker.kept]}
      /\ (link'.accepting <=> link.accepting) /\ (link'.abandoned <=> link.abandoned)
      /\ (link'.host <=> link.host)
  BY <1>2, <1>6, <1>7, AcknowledgedLink
<1>9. Done' = Done \cup {worker.job} /\ Kept' = Kept \cup (IF worker.kept THEN {worker.job} ELSE {})
  BY <1>7, <1>8, DoneMore
<1>10. facade' \in Facades /\ SameFacade
  BY <1>1, ReadySame
<1>11. pairs' = pairs /\ (\A i : InUse(i)' <=> InUse(i)) /\ facade'.serial = facade.serial /\ facade'.serial \in Nat
  BY <1>1, <1>10 DEF mailbox, InUse, SameFacade, Facades
<1>12. Apart'
  <2> USE <1>1, <1>2, <1>4, <1>8, <1>9, <1>11 DEF Ledger
  <2>1. link'.pending # 0 => /\ link'.pending \notin Done' \cup deletions' /\ link'.pending # worker'.job
                             /\ \A i \in Slots : InUse(i)' => pairs'[i].job # link'.pending
    BY DEF Apart
  <2>2. \A i \in Slots : InUse(i) => pairs[i].job # worker.job
    BY DEF Apart, Slots
  <2>3. \A i \in Slots : InUse(i)' =>
          /\ pairs'[i].job # 0 /\ pairs'[i].job \notin Done' \cup deletions'
          /\ \A j \in Slots \ {i} : InUse(j)' => pairs'[i].job # pairs'[j].job
    BY <2>2 DEF Apart
  <2>4. /\ Done' \cap deletions' = {} /\ link'.pending <= facade'.serial
        /\ \A i \in Slots : pairs'[i].job <= facade'.serial
        /\ \A s \in leases' \cup inputs' \cup deletions' \cup Done' : s <= facade'.serial
    BY DEF Apart
  <2> QED BY <2>1, <2>3, <2>4 DEF Apart
<1>13. Owned'
  <2>1. Held' \subseteq Held
    BY <1>4, <1>8, <1>11 DEF Held, In
  <2>2. ASSUME NEW s \in Serials
        PROVE  s \in inputs' <=>
                 \/ s = link'.pending \/ (worker'.kept /\ s = worker'.job)
                 \/ s \in Kept' \/ s \in deletions'
                 \/ \E i \in Slots : pairs'[i].kept /\ pairs'[i].job = s
    BY <1>1, <1>4, <1>8, <1>9, <1>11 DEF Owned, Ledger
  <2> QED BY <1>1, <1>8, <2>1, <2>2 DEF Owned, Ledger
<1>14. leases' \subseteq Serials /\ inputs' \subseteq Serials /\ faults' \in 0 .. MaxFault
  BY <1>1 DEF TypeOK
<1> QED BY <1>1, <1>2, <1>4, <1>5, <1>8, <1>10, <1>12, <1>13, <1>14, PassingStep DEF Ledger

LEMMA TakesInputKeeps == ASSUME IInv, TakesInput PROVE IInv'
<1>1. /\ TypeOK /\ Placed /\ Ledger /\ worker.pc = "input"
      /\ UNCHANGED <<mailbox, gpu, link, main, facade, leases, deletions, faults>>
  BY DEF IInv, TakesInput
<1>2. worker.token # 0 /\ worker.job # 0 /\ worker.kept /\ worker.turns = 0
  BY <1>1 DEF Placed, Place, Builds
<1>3. PICK pc \in {"turn", "drain"} : worker' = [worker EXCEPT !.kept = FALSE, !.pc = pc]
  BY DEF TakesInput
<1>4. /\ worker' \in Workers /\ worker'.pc = pc /\ worker'.token = worker.token
      /\ worker'.job = worker.job /\ ~worker'.kept /\ worker'.turns = 0
  BY <1>1, <1>2, <1>3 DEF TypeOK, Workers, WorkerSteps
<1>5. pairs' = pairs /\ link' = link /\ facade' = facade
  BY <1>1 DEF mailbox
<1>6. Placed'
  BY <1>1, <1>2, <1>4, <1>5, ReflectionBounds DEF Placed, Place, Builds, Removes
<1>7. link' \in Links /\ SameLink /\ facade' \in Facades /\ SameFacade
  BY <1>1, <1>5, LinkSame, FacadeSame
<1>8. inputs' = inputs \ {worker.job}
  BY DEF TakesInput
<1>9. Done' = Done /\ Kept' = Kept /\ (\A i : InUse(i)' <=> InUse(i)) /\ Held' = Held
  BY <1>4, <1>5 DEF Done, Kept, InUse, Held, In
<1>10. Apart'
  BY <1>1, <1>4, <1>5, <1>8, <1>9 DEF Apart, Ledger
<1>11. Owned'
  <2>1. ASSUME NEW s \in Serials, ~link.abandoned
        PROVE  s \in inputs' <=>
                 \/ s = link'.pending \/ (worker'.kept /\ s = worker'.job)
                 \/ s \in Kept' \/ s \in deletions'
                 \/ \E i \in Slots : pairs'[i].kept /\ pairs'[i].job = s
    <3>1. s \in inputs <=>
            \/ s = link.pending \/ (worker.kept /\ s = worker.job) \/ s \in Kept \/ s \in deletions
            \/ \E i \in Slots : pairs[i].kept /\ pairs[i].job = s
      BY <1>1, <2>1 DEF Ledger, Owned
    <3>2. Kept \subseteq Done
      BY DEF Kept, Done
    <3>3. worker.job # link.pending /\ worker.job \notin Kept \cup deletions
      BY <1>1, <1>2, <3>2 DEF Ledger, Apart
    <3>4. \A i \in Slots : pairs[i].kept => pairs[i].job # worker.job
      <4>1. \A i \in Slots : pairs[i].kept => InUse(i) /\ pairs[i].state # "building"
        BY DEF IInv, Fenced, Sane, InUse
      <4> QED BY <1>1, <1>2, <4>1 DEF Ledger, Apart, Placed
    <3> QED BY <1>1, <1>2, <1>4, <1>5, <1>8, <1>9, <3>1, <3>3, <3>4
  <2> QED BY <1>1, <1>5, <1>9, <2>1 DEF Owned, Ledger
<1>12. leases' \subseteq Serials /\ inputs' \subseteq Serials /\ faults' \in 0 .. MaxFault
  BY <1>1, <1>8 DEF TypeOK
<1> QED BY <1>1, <1>4, <1>6, <1>7, <1>10, <1>11, <1>12, PassingStep DEF Ledger, SameLink

LEMMA ReservesKeeps == ASSUME IInv, Reserves PROVE IInv'
<1>1. /\ TypeOK /\ Placed /\ Framed /\ Ledger /\ Fenced(pairs, capturing, drawing, worker.token)
      /\ Typed(pairs) /\ worker.pc = "next" /\ link.pending # 0
      /\ UNCHANGED <<front, generation, closed, gpu, main, facade, sources, faults>>
  BY DEF IInv, Reserves, Typed, TypeOK
<1>2. worker.token = 0 /\ worker.job = 0 /\ worker.turns = 0
  BY <1>1, ElsewhereIdle DEF Elsewhere
<1>3. CASE Goes("scan") /\ UNCHANGED <<pairs, link>>
  <2>1. link' \in Links /\ SameLink
    BY <1>1, <1>3, LinkSame
  <2> QED BY <1>1, <1>3, <2>1, WanderingStep DEF Elsewhere, mailbox
<1>4. ASSUME NEW i \in Slots, pairs[i].state = "free", pairs' = Reserved(i, link.pending),
             worker' = [worker EXCEPT !.pc = "input", !.token = i, !.job = link.pending, !.kept = TRUE],
             link' = [link EXCEPT !.pending = 0]
      PROVE  IInv'
  <2>1. link.pending \in 0 .. MaxSerial /\ link.pending \in Nat /\ link \in Links /\ worker \in Workers
        /\ generation \in Nat
    BY <1>1 DEF TypeOK, Links
  <2>2. /\ Only(i, pairs, pairs') /\ SameUse(pairs, pairs') /\ SameFences(pairs, pairs')
        /\ pairs'[i].state = "building" /\ pairs'[i].job = link.pending /\ pairs'[i].kept = pairs[i].kept
    BY <1>1, <1>4, <2>1, ReservedPair
  <2>3. /\ worker' \in Workers /\ worker'.pc = "input" /\ worker'.token = i
        /\ worker'.job = link.pending /\ worker'.kept /\ worker'.turns = 0
    <3>1. i \in 0 .. 2
      BY DEF Slots
    <3> QED BY <1>2, <1>4, <2>1, <3>1 DEF Workers, WorkerSteps
  <2>4. link' \in Links /\ link'.pending = 0 /\ link'.completed = link.completed
        /\ (link'.accepting <=> link.accepting) /\ (link'.abandoned <=> link.abandoned)
        /\ (link'.host <=> link.host)
    <3>1. 0 \in 0 .. MaxSerial
      BY ReflectionBounds
    <3> QED BY <1>4, <2>1, <3>1 DEF Links
  <2>5. TypeOK'
    BY <1>1, <2>2, <2>3, <2>4 DEF TypeOK, Only, Typed, gpu, sources
  <2>6. Fenced(pairs, capturing, drawing, worker.token)'
    <3>1. Fenced(pairs', capturing, drawing, i)
      BY <1>1, <1>2, <1>4, <2>2, ReservedKeeps
    <3> QED BY <1>1, <2>3, <3>1 DEF gpu
  <2>7. Placed'
    BY <1>2, <2>1, <2>2, <2>3, <1>1 DEF Placed, Place, Builds, Removes, Slots
  <2>8. Framed'
    <3>1. SamePolls
      BY <2>2 DEF SamePolls, SameUse, SameFences
    <3>2. front' # 0 => pairs'[front'].state = "displayed"
      BY <1>1, <1>4, <2>2 DEF Framed, Only, TypeOK
    <3>3. SameFacade
      BY <1>1 DEF SameFacade
    <3> QED BY <1>1, <2>4, <3>1, <3>2, <3>3, FramedStays DEF gpu
  <2>9. /\ Done' = Done /\ Kept' = Kept /\ facade' = facade /\ UNCHANGED <<leases, inputs, deletions>>
        /\ (\A j \in Slots : InUse(j)' <=> InUse(j) \/ j = i) /\ ~InUse(i)
        /\ (\A j \in Slots : j # i => pairs'[j] = pairs[j])
    BY <1>1, <1>4, <2>2, <2>4 DEF Done, Kept, InUse, Only, sources
  <2>10. Apart'
    <3> USE <1>1, <1>2, <2>1, <2>2, <2>3, <2>4, <2>9 DEF Ledger
    <3>1. \A j \in Slots : InUse(j)' =>
            /\ pairs'[j].job # 0 /\ pairs'[j].job \notin Done' \cup deletions'
            /\ \A k \in Slots \ {j} : InUse(k)' => pairs'[j].job # pairs'[k].job
      BY DEF Apart
    <3>2. worker'.job # 0 =>
            /\ worker'.job \notin Done' \cup deletions'
            /\ \A j \in Slots : InUse(j)' => (pairs'[j].job = worker'.job <=> j = worker'.token)
      BY DEF Apart
    <3>3. /\ Done' \cap deletions' = {} /\ worker'.job <= facade'.serial /\ 0 <= facade'.serial
          /\ \A j \in Slots : pairs'[j].job <= facade'.serial
          /\ \A s \in leases' \cup inputs' \cup deletions' \cup Done' : s <= facade'.serial
      BY DEF Apart
    <3> QED BY <3>1, <3>2, <3>3 DEF Apart
  <2>11. Owned'
    <3>1. Held' \subseteq Held
      BY <2>2, <2>3, <2>4, <2>9 DEF Held, In
    <3>2. ~pairs[i].kept /\ ~pairs'[i].kept
      BY <1>1, <1>4, <2>2 DEF Fenced, Sane
    <3>3. ASSUME NEW s \in Serials, ~link.abandoned
          PROVE  s \in inputs' <=>
                   \/ s = link'.pending \/ (worker'.kept /\ s = worker'.job)
                   \/ s \in Kept' \/ s \in deletions'
                   \/ \E j \in Slots : pairs'[j].kept /\ pairs'[j].job = s
      <4>1. s # 0
        BY DEF Serials
      <4>2. (\E j \in Slots : pairs'[j].kept /\ pairs'[j].job = s)
              <=> (\E j \in Slots : pairs[j].kept /\ pairs[j].job = s)
        BY <2>9, <3>2
      <4> QED BY <1>1, <1>2, <2>3, <2>4, <2>9, <3>3, <4>1, <4>2 DEF Owned, Ledger
    <3> QED BY <1>1, <2>4, <2>9, <3>1, <3>3 DEF Owned, Ledger
  <2> QED BY <2>5, <2>6, <2>7, <2>8, <2>10, <2>11 DEF IInv, Ledger
<1> QED BY <1>3, <1>4 DEF Reserves, Free, In, IsFirst

\* The pair that was built is handed on, with the fence that seals its captures.
LEMMA HandsOver ==
    ASSUME IInv, worker.pc \in {"publish", "abort"}, NEW fence \in {NoFence, Len(capturing) + 1},
           Seals(fence), Only(worker.token, pairs, pairs'), SameUse(pairs, pairs'),
           pairs'[worker.token].state \in {"ready", "sealed"},
           pairs'[worker.token].producer = fence,
           pairs'[worker.token].consumer = pairs[worker.token].consumer,
           pairs'[worker.token].job = pairs[worker.token].job,
           pairs'[worker.token].kept <=> worker.kept,
           worker.kept => pairs'[worker.token].state = "sealed",
           worker' \in Workers, worker'.pc \in Elsewhere, worker'.token = 0, worker'.job = 0,
           ~worker'.kept, worker'.turns = 0, facade' \in Facades, SameFacade,
           UNCHANGED <<front, generation, closed, drawing, link, main, sources, faults>>
    PROVE  IInv'
<1>1. /\ TypeOK /\ Placed /\ Framed /\ Ledger /\ Fenced(pairs, capturing, drawing, worker.token)
      /\ Typed(pairs)
  BY DEF IInv, Typed, TypeOK
<1> DEFINE t == worker.token
<1>2. /\ worker.token \in Slots /\ pairs[worker.token].state = "building" /\ worker.job # 0
      /\ pairs[worker.token].job = worker.job
  BY <1>1 DEF Placed, Place, Builds, TypeOK, Workers, Slots, Ledger, Apart
<1>3. capturing \in Seq(Slots) /\ drawing \in Seq(SUBSET Slots) /\ Len(capturing) \in Nat
  BY <1>1 DEF TypeOK
<1>4. /\ capturing' \in Seq(Slots) /\ Len(capturing') \in Nat
      /\ fence = Len(capturing') \/ (capturing' = <<>> /\ fence = NoFence)
      /\ Fenced(pairs, capturing', drawing, worker.token)
  <2>1. CASE fence = Len(capturing) + 1 /\ capturing' = Append(capturing, worker.token)
    <3>1. Fenced(pairs, Append(capturing, worker.token), drawing, worker.token)
      BY <1>1, <1>2, <1>3, CaptureKeeps
    <3>2. Append(capturing, worker.token) \in Seq(Slots)
          /\ Len(Append(capturing, worker.token)) = Len(capturing) + 1
      BY <1>2, <1>3
    <3> QED BY <1>3, <2>1, <3>1, <3>2
  <2>2. CASE fence = NoFence /\ capturing = <<>> /\ UNCHANGED capturing
    BY <1>1, <1>3, <2>2
  <2> QED BY <2>1, <2>2 DEF Seals
<1>5. Fenced(pairs', capturing', drawing, 0)
  BY <1>1, <1>2, <1>4, HandedKeeps
<1>6. TypeOK'
  BY <1>1, <1>4 DEF TypeOK, Only, Typed, sources
<1>7. Fenced(pairs, capturing, drawing, worker.token)'
  BY <1>5
<1>8. Placed'
  BY DEF Placed, Place, Builds, Removes, Elsewhere
<1>9. Framed'
  <2>1. ~pairs[worker.token].poller
    BY <1>1, <1>2 DEF Fenced, Sane
  <2>2. SamePolls
    BY <2>1 DEF SamePolls, SameUse, Only
  <2>3. front' # 0 => pairs'[front'].state = "displayed"
    BY <1>1, <1>2 DEF Framed, Only, TypeOK
  <2> QED BY <1>1, <2>2, <2>3, FramedStays
<1>10. /\ Done' = Done /\ Kept' = Kept /\ facade'.serial = facade.serial
       /\ UNCHANGED <<leases, inputs, deletions>> /\ link' = link
       /\ (\A j \in Slots : (InUse(j)' <=> InUse(j)) /\ pairs'[j].job = pairs[j].job)
       /\ (\A j \in Slots : j # worker.token => pairs'[j] = pairs[j])
  BY <1>2 DEF Done, Kept, InUse, Only, sources, SameFacade
<1>11. facade'.serial \in Nat
  BY DEF Facades
<1>12. Apart'
  <2>1. link'.pending # 0 => /\ link'.pending \notin Done' \cup deletions'
                             /\ \A i \in Slots : InUse(i)' => pairs'[i].job # link'.pending
    BY <1>1, <1>10 DEF Ledger, Apart
  <2>2. \A i \in Slots : InUse(i)' =>
          /\ pairs'[i].job # 0 /\ pairs'[i].job \notin Done' \cup deletions'
          /\ \A j \in Slots \ {i} : InUse(j)' => pairs'[i].job # pairs'[j].job
    BY <1>1, <1>10 DEF Ledger, Apart
  <2>3. /\ Done' \cap deletions' = {} /\ link'.pending <= facade'.serial
        /\ \A i \in Slots : pairs'[i].job <= facade'.serial
        /\ \A s \in leases' \cup inputs' \cup deletions' \cup Done' : s <= facade'.serial
    BY <1>1, <1>10 DEF Ledger, Apart
  <2> QED BY <1>11, <2>1, <2>2, <2>3 DEF Apart
<1>13. Owned'
  <2>1. Held' \subseteq Held
    BY <1>10 DEF Held, In, InUse
  <2>2. ASSUME NEW s \in Serials, ~link.abandoned
        PROVE  s \in inputs' <=>
                 \/ s = link'.pending \/ (worker'.kept /\ s = worker'.job)
                 \/ s \in Kept' \/ s \in deletions'
                 \/ \E i \in Slots : pairs'[i].kept /\ pairs'[i].job = s
    <3>1. ~pairs[worker.token].kept
      BY <1>1, <1>2 DEF Fenced, Sane
    <3>2. (\E i \in Slots : pairs'[i].kept /\ pairs'[i].job = s)
            <=> \/ \E i \in Slots : pairs[i].kept /\ pairs[i].job = s
                \/ worker.kept /\ worker.job = s
      BY <1>2, <1>10, <3>1
    <3> QED BY <1>1, <1>10, <2>2, <3>2 DEF Owned, Ledger
  <2> QED BY <1>1, <1>10, <2>1, <2>2 DEF Owned, Ledger
<1> QED BY <1>6, <1>7, <1>8, <1>9, <1>12, <1>13 DEF IInv, Ledger

LEMMA PublishesKeeps == ASSUME IInv, Publishes PROVE IInv'
<1>1. TypeOK /\ Placed /\ Typed(pairs) /\ worker.pc = "publish" /\ Len(capturing) \in Nat
  BY DEF IInv, Publishes, AtWork, Typed, TypeOK
<1>2. worker.token \in Slots /\ ~worker.kept
  BY <1>1 DEF Placed, Place, Builds, TypeOK, Workers, Slots
<1>3. PICK fence \in {NoFence, Len(capturing) + 1} :
         Seals(fence) /\ pairs' = Completed(worker.token, fence)
  BY DEF Publishes
<1>4. fence \in Fences
  BY <1>1 DEF Fences
<1>5. /\ Only(worker.token, pairs, pairs') /\ SameUse(pairs, pairs')
      /\ pairs'[worker.token].state \in {"ready", "sealed"} /\ pairs'[worker.token].producer = fence
      /\ pairs'[worker.token].consumer = pairs[worker.token].consumer
      /\ pairs'[worker.token].job = pairs[worker.token].job /\ ~pairs'[worker.token].kept
  BY <1>1, <1>2, <1>3, <1>4, CompletedPair
<1>6. /\ worker' \in Workers /\ worker'.pc \in Elsewhere /\ worker'.token = 0 /\ worker'.job = 0
      /\ ~worker'.kept /\ worker'.turns = 0
  <2>1. worker' = [worker EXCEPT !.pc = "scan", !.token = 0, !.job = 0, !.turns = 0]
    BY DEF Publishes
  <2>2. /\ worker \in Workers /\ 0 \in 0 .. MaxSerial /\ 0 \in 0 .. Turns /\ 0 \in 0 .. 2
        /\ "scan" \in WorkerSteps
    BY <1>1, ReflectionBounds DEF TypeOK, WorkerSteps
  <2>3. worker' \in Workers
    BY <2>1, <2>2 DEF Workers
  <2>4. /\ worker'.pc = "scan" /\ worker'.token = 0 /\ worker'.job = 0
        /\ worker'.kept = worker.kept /\ worker'.turns = 0
    BY <2>1, <2>2 DEF Workers
  <2> QED BY <1>2, <2>3, <2>4 DEF Elsewhere
<1>7. facade' \in Facades /\ SameFacade
  BY <1>1, ReadySame DEF Publishes
<1> QED BY <1>1, <1>2, <1>3, <1>5, <1>6, <1>7, HandsOver DEF Publishes

LEMMA AbortsKeeps == ASSUME IInv, Aborts PROVE IInv'
<1>1. TypeOK /\ Placed /\ Typed(pairs) /\ worker.pc = "abort" /\ Len(capturing) \in Nat
  BY DEF IInv, Aborts, AtWork, Typed, TypeOK
<1>2. worker.token \in Slots /\ worker.kept \in BOOLEAN
  BY <1>1 DEF Placed, Place, Builds, TypeOK, Workers, Slots
<1>3. PICK fence \in {NoFence, Len(capturing) + 1} :
         Seals(fence) /\ pairs' = Aborted(worker.token, fence, worker.kept)
  BY DEF Aborts
<1>4. fence \in Fences
  BY <1>1 DEF Fences
<1>5. /\ Only(worker.token, pairs, pairs') /\ SameUse(pairs, pairs')
      /\ pairs'[worker.token].state = "sealed" /\ pairs'[worker.token].producer = fence
      /\ pairs'[worker.token].consumer = pairs[worker.token].consumer
      /\ pairs'[worker.token].job = pairs[worker.token].job
      /\ pairs'[worker.token].kept = worker.kept
  BY <1>1, <1>2, <1>3, <1>4, AbortedPair
<1>6. /\ worker' \in Workers /\ worker'.pc \in Elsewhere /\ worker'.token = 0 /\ worker'.job = 0
      /\ ~worker'.kept /\ worker'.turns = 0
  <2>1. PICK pc \in {"failing", "scan"} :
           worker' = [worker EXCEPT !.pc = pc, !.token = 0, !.job = 0, !.kept = FALSE,
                                    !.turns = 0, !.broken = FALSE]
    BY DEF Aborts
  <2>2. worker \in Workers /\ 0 \in 0 .. MaxSerial /\ 0 \in 0 .. Turns /\ 0 \in 0 .. 2
        /\ pc \in WorkerSteps /\ pc \in Elsewhere
    BY <1>1, ReflectionBounds DEF TypeOK, WorkerSteps, Elsewhere
  <2>3. worker' \in Workers
    BY <2>1, <2>2 DEF Workers
  <2>4. /\ worker'.pc = pc /\ worker'.token = 0 /\ worker'.job = 0
        /\ ~worker'.kept /\ worker'.turns = 0
    BY <2>1, <2>2 DEF Workers
  <2> QED BY <2>2, <2>3, <2>4
<1>7. facade' \in Facades /\ SameFacade
  BY <1>1, FacadeSame DEF Aborts
<1> QED BY <1>1, <1>2, <1>3, <1>5, <1>6, <1>7, HandsOver DEF Aborts

\* The pair that was drained is free again, and its job the worker's to acknowledge.
LEMMA RetiresKeeps == ASSUME IInv, Retires PROVE IInv'
<1>1. /\ TypeOK /\ Placed /\ Framed /\ Ledger /\ Fenced(pairs, capturing, drawing, worker.token)
      /\ Typed(pairs) /\ worker.pc = "retire" /\ UNCHANGED <<gpu, main, sources>>
  BY DEF IInv, Retires, Typed, TypeOK
<1> DEFINE r == worker.retiring
<1>2. /\ r \in Slots /\ pairs[r].state = "draining" /\ ~Capturing(r) /\ ~Drawing(r)
      /\ worker.token = 0 /\ worker.job = 0 /\ worker.turns = 0
  BY <1>1 DEF Placed, Place, Builds, Removes, TypeOK, Workers, Slots
<1>3. CASE /\ pairs' = Retired(r)
           /\ worker' = [worker EXCEPT !.pc = "acknowledge", !.retiring = 0,
                                       !.job = pairs[r].job, !.kept = pairs[r].kept]
           /\ UNCHANGED <<front, generation, closed, link, facade, faults>>
  <2> HIDE DEF r
  <2>1. Only(r, pairs, pairs') /\ pairs'[r] = FreePair
    BY <1>1, <1>2, <1>3, RetiredPair
  <2>2. pairs'[r].state = "free" /\ pairs'[r].job = 0 /\ ~pairs'[r].kept /\ ~pairs'[r].poller
    BY <2>1 DEF FreePair
  <2>3. /\ pairs[r].kept \in BOOLEAN /\ pairs[r].job \in 0 .. MaxSerial /\ pairs[r].job # 0
        /\ facade.serial \in Nat /\ InUse(r)
    <3>1. pairs[r] \in Pairs /\ facade.serial \in 0 .. MaxSerial
      BY <1>1, <1>2 DEF TypeOK, Facades
    <3>2. pairs[r].job <= facade.serial /\ InUse(r) /\ pairs[r].job # 0
      BY <1>1, <1>2 DEF Ledger, Apart, InUse
    <3> QED BY <3>1, <3>2, ReflectionBounds DEF Pairs
  <2>4. /\ worker' \in Workers /\ worker'.pc = "acknowledge" /\ worker'.job = pairs[r].job
        /\ (worker'.kept <=> pairs[r].kept) /\ worker'.token = 0 /\ worker'.turns = 0
    BY <1>1, <1>2, <1>3, <2>3 DEF TypeOK, Workers, WorkerSteps
  <2>5. TypeOK'
    BY <1>1, <1>3, <2>1, <2>4 DEF TypeOK, Only, Typed, gpu, sources
  <2>6. Fenced(pairs, capturing, drawing, worker.token)'
    <3>1. Fenced(pairs', capturing, drawing, worker.token)
      BY <1>1, <1>2, <2>1, RetiredKeeps DEF TypeOK
    <3> QED BY <1>1, <1>2, <2>4, <3>1 DEF gpu
  <2>7. Placed'
    BY <2>3, <2>4 DEF Placed, Place, Builds, Removes
  <2>8. Framed'
    <3>1. SamePolls
      BY <1>1, <1>2, <2>1 DEF SamePolls, Only, Fenced, Sane
    <3>2. front' # 0 => pairs'[front'].state = "displayed"
      BY <1>1, <1>2, <1>3, <2>1 DEF Framed, Only, TypeOK
    <3>3. SameFacade
      BY <1>3 DEF SameFacade
    <3> QED BY <1>1, <1>3, <3>1, <3>2, <3>3, FramedStays DEF gpu
  <2>9. /\ Done' = Done /\ Kept' = Kept /\ facade' = facade /\ UNCHANGED <<leases, inputs, deletions>>
        /\ (\A j \in Slots : InUse(j)' <=> InUse(j) /\ j # r) /\ link' = link
        /\ (\A j \in Slots : j # r => pairs'[j] = pairs[j])
    BY <1>1, <1>3, <2>1, <2>2 DEF Done, Kept, InUse, Only, sources
  <2>10. Apart'
    <3> USE <1>1, <1>2, <2>2, <2>3, <2>4, <2>9 DEF Ledger
    <3>1. link'.pending # 0 => /\ link'.pending \notin Done' \cup deletions' /\ link'.pending # worker'.job
                               /\ \A i \in Slots : InUse(i)' => pairs'[i].job # link'.pending
      BY DEF Apart
    <3>2. \A i \in Slots : InUse(i)' =>
            /\ pairs'[i].job # 0 /\ pairs'[i].job \notin Done' \cup deletions'
            /\ \A j \in Slots \ {i} : InUse(j)' => pairs'[i].job # pairs'[j].job
      BY DEF Apart
    <3>3. worker'.job # 0 =>
            /\ worker'.job \notin Done' \cup deletions'
            /\ \A i \in Slots : InUse(i)' => (pairs'[i].job = worker'.job <=> i = worker'.token)
      BY DEF Apart, Slots
    <3>4. /\ Done' \cap deletions' = {} /\ link'.pending <= facade'.serial
          /\ worker'.job <= facade'.serial
          /\ \A i \in Slots : pairs'[i].job <= facade'.serial
          /\ \A s \in leases' \cup inputs' \cup deletions' \cup Done' : s <= facade'.serial
      BY DEF Apart
    <3> QED BY <2>4, <3>1, <3>2, <3>3, <3>4 DEF Apart
  <2>11. Owned'
    <3>1. Held' \subseteq Held
      BY <1>2, <2>4, <2>9 DEF Held, In, InUse
    <3>2. ASSUME NEW s \in Serials, ~link.abandoned
          PROVE  s \in inputs' <=>
                   \/ s = link'.pending \/ (worker'.kept /\ s = worker'.job)
                   \/ s \in Kept' \/ s \in deletions'
                   \/ \E i \in Slots : pairs'[i].kept /\ pairs'[i].job = s
      <4>1. (\E i \in Slots : pairs[i].kept /\ pairs[i].job = s)
              <=> \/ \E i \in Slots : pairs'[i].kept /\ pairs'[i].job = s
                  \/ worker'.kept /\ worker'.job = s
        BY <1>2, <2>2, <2>4, <2>9
      <4>2. s # 0
        BY DEF Serials
      <4> QED BY <1>1, <1>2, <2>9, <3>2, <4>1, <4>2 DEF Owned, Ledger
    <3> QED BY <1>1, <2>9, <3>1, <3>2 DEF Owned, Ledger
  <2> QED BY <2>5, <2>6, <2>7, <2>8, <2>10, <2>11 DEF IInv, Ledger
<1>4. CASE /\ Fault /\ link' = [Abandoned(link) EXCEPT !.failure = TRUE] /\ Close /\ Ready
           /\ Goes("acknowledge")
  <2>1. /\ worker' \in Workers /\ SameWork /\ worker'.pc = "acknowledge" /\ worker'.turns = worker.turns
    BY <1>1, <1>4, GoesTo DEF WorkerSteps
  <2>2. link' \in Links /\ SameLink /\ link'.abandoned
    BY <1>1, <1>4 DEF TypeOK, Links, Abandoned, Stopped, SameLink, SameCalls
  <2>3. facade' \in Facades /\ SameFacade /\ faults' \in 0 .. MaxFault
    BY <1>1, <1>4, ReadySame, FaultType
  <2>4. Placed'
    BY <1>2, <2>1, <2>2 DEF Placed, Place, Builds, Removes, SameWork
  <2>5. SameBusy => Ledger'
    BY <1>1, <2>1, <2>2, <2>3, LedgerStays DEF SameLink, SameFacade
  <2> QED BY <1>1, <1>4, <2>1, <2>2, <2>3, <2>4, <2>5, CloseStep DEF SameLink
<1> QED BY <1>3, <1>4 DEF Retires

LEMMA WorkKeeps == ASSUME IInv, Work PROVE IInv'
BY StartsKeep, ScansKeep, ClaimsKeep, LooksForWorkKeeps, SleepsKeep, ReturnsStaleKeeps,
   ReservesKeeps, TakesInputKeeps, TakesTurnKeeps, CaptureFailsKeeps, DrainsKeeps,
   PublishesKeeps, AbortsKeeps, FailsKeeps, EndsKeeps, LeavesKeeps, DrainsProducerKeeps,
   DrainsConsumerKeeps, WaitFailsKeeps, HostRepliesKeeps, RetiresKeeps, AcknowledgesKeeps,
   QuarantinesKeeps
   DEF Work

-----------------------------------------------------------------------------
(* The GPU's steps, and what the render thread's have in common.           *)

LEMMA RenderStep ==
    ASSUME IInv, UNCHANGED <<worker>>, Shows(pairs, pairs'),
           Fenced(pairs', capturing', drawing', worker.token),
           front' \in {0} \cup Slots, generation' \in Nat, closed' \in BOOLEAN, closed => closed',
           capturing' \in Seq(Slots), \A i \in Slots : Capturing(i)' => Capturing(i),
           drawing' \in Seq(SUBSET Slots),
           \A i \in Slots : pairs[i].state = "draining" /\ Drawing(i)' => Drawing(i),
           link' \in Links, link.abandoned => link'.abandoned, main' \in Mains,
           facade' \in Facades, leases' \subseteq Serials, inputs' \subseteq Serials,
           deletions' \subseteq Serials, faults' \in 0 .. MaxFault, Framed',
           SameBusy /\ SameWork => Ledger'
    PROVE  IInv'
<1>1. TypeOK'
  BY DEF IInv, TypeOK, Shows, Typed
<1>2. Fenced(pairs, capturing, drawing, worker.token)'
  OBVIOUS
<1>3. Placed'
  BY PlacedStays DEF IInv
<1>4. Ledger'
  BY ShownBusy DEF SameWork
<1> QED BY <1>1, <1>2, <1>3, <1>4 DEF IInv

LEMMA GpuDrawsKeeps == ASSUME IInv, GpuDraws PROVE IInv'
<1>1. /\ TypeOK /\ Framed /\ Fenced(pairs, capturing, drawing, worker.token) /\ Typed(pairs)
      /\ drawing # <<>> /\ drawing' = Tail(drawing)
      /\ UNCHANGED <<front, generation, closed, capturing, link, worker, main, facade, sources, faults>>
  BY DEF IInv, GpuDraws, Typed, TypeOK
<1>2. drawing \in Seq(SUBSET Slots)
  BY <1>1 DEF TypeOK
<1>3. /\ Fenced(pairs', capturing, Tail(drawing), worker.token) /\ Typed(pairs')
      /\ SameJob(pairs, pairs') /\ SameState(pairs, pairs')
      /\ \A i \in Slots : pairs'[i].producer = pairs[i].producer /\ pairs'[i].poller = pairs[i].poller
  <2>1. DrawDone(pairs, pairs')
    BY DEF GpuDraws, DrawDone
  <2> QED BY <1>1, <2>1, DrawnKeeps
<1>4. Shows(pairs, pairs')
  BY <1>3 DEF Shows, SameState
<1>5. drawing' \in Seq(SUBSET Slots) /\ \A i : Drawing(i)' => Drawing(i)
  <2>1. /\ Tail(drawing) \in Seq(SUBSET Slots) /\ Len(drawing) \in Nat
        /\ Len(Tail(drawing)) = Len(drawing) - 1
        /\ \A k \in 1 .. Len(drawing) - 1 : Tail(drawing)[k] = drawing[k + 1]
    BY <1>1, <1>2
  <2> QED BY <1>1, <2>1 DEF Drawing
<1>6. Framed'
  <2>1. SamePolls /\ SameFacade /\ (front' # 0 => pairs'[front'].state = "displayed")
    BY <1>1, <1>3 DEF SamePolls, SameFacade, SameState, Framed, TypeOK
  <2> QED BY <1>1, <2>1, FramedStays
<1>7. ASSUME SameBusy, SameWork PROVE Ledger'
  <2>1. SameLink
    BY <1>1, LinkSame
  <2> QED BY <1>1, <1>7, <2>1, LedgerStays DEF IInv, SameLink
<1>8. \A i \in Slots : Capturing(i)' => Capturing(i)
  BY <1>1 DEF Capturing
<1> QED BY <1>1, <1>3, <1>4, <1>5, <1>6, <1>7, <1>8, RenderStep DEF TypeOK, sources

LEMMA GpuCapturesKeeps == ASSUME IInv, GpuCaptures PROVE IInv'
<1>1. /\ TypeOK /\ Framed /\ Fenced(pairs, capturing, drawing, worker.token) /\ Typed(pairs)
      /\ capturing # <<>> /\ capturing' = Tail(capturing)
      /\ UNCHANGED <<front, generation, closed, drawing, link, worker, main, facade, sources, faults>>
  BY DEF IInv, GpuCaptures, Typed, TypeOK
<1>2. capturing \in Seq(Slots)
  BY <1>1 DEF TypeOK
<1>3. /\ Fenced(pairs', Tail(capturing), drawing, worker.token) /\ Typed(pairs')
      /\ SameJob(pairs, pairs') /\ SameState(pairs, pairs')
      /\ \A i \in Slots : /\ pairs'[i].poller = pairs[i].poller
                          /\ pairs[i].producer <= 0 => pairs'[i].producer <= 0
  <2>1. CaptureDone(pairs, pairs')
    BY DEF GpuCaptures, CaptureDone
  <2> QED BY <1>1, <1>2, <2>1, ExecutedKeeps
<1>4. Shows(pairs, pairs')
  BY <1>3 DEF Shows, SameState
<1>5. capturing' \in Seq(Slots) /\ \A i : Capturing(i)' => Capturing(i)
  <2>1. /\ Tail(capturing) \in Seq(Slots) /\ Len(capturing) \in Nat
        /\ Len(Tail(capturing)) = Len(capturing) - 1
        /\ \A k \in 1 .. Len(capturing) - 1 : Tail(capturing)[k] = capturing[k + 1]
    BY <1>1, <1>2
  <2> QED BY <1>1, <2>1 DEF Capturing
<1>6. Framed'
  <2>1. SamePolls /\ SameFacade /\ (front' # 0 => pairs'[front'].state = "displayed")
    BY <1>1, <1>3 DEF SamePolls, SameFacade, SameState, Framed, TypeOK
  <2> QED BY <1>1, <2>1, FramedStays
<1>7. ASSUME SameBusy, SameWork PROVE Ledger'
  <2>1. SameLink
    BY <1>1, LinkSame
  <2> QED BY <1>1, <1>7, <2>1, LedgerStays DEF IInv, SameLink
<1>8. \A i \in Slots : Drawing(i)' => Drawing(i)
  BY <1>1 DEF Drawing
<1> QED BY <1>1, <1>3, <1>4, <1>5, <1>6, <1>7, <1>8, RenderStep DEF TypeOK, sources

\* The queue of commands that neither context adds to.
LEMMA SameQueues ==
    ASSUME TypeOK, UNCHANGED gpu
    PROVE  /\ capturing' = capturing /\ drawing' = drawing
           /\ capturing' \in Seq(Slots) /\ drawing' \in Seq(SUBSET Slots)
           /\ \A i \in Slots : (Capturing(i)' => Capturing(i)) /\ (Drawing(i)' => Drawing(i))
<1>1. capturing' = capturing /\ drawing' = drawing
  BY DEF gpu
<1> QED BY <1>1 DEF TypeOK, Capturing, Drawing

\* The reads that end, with the fence of the last draw.
LEMMA EndedReads ==
    ASSUME IInv, NEW S \in SUBSET Slots, \A i \in S : pairs[i].reader, NEW fence \in LastUse,
           NEW q, q = EndReads(pairs, S, fence)
    PROVE  /\ Typed(q) /\ SameJob(pairs, q) /\ SameState(pairs, q)
           /\ \A i \in Slots : /\ q[i].poller = pairs[i].poller /\ q[i].producer = pairs[i].producer
                               /\ (q[i].reader <=> pairs[i].reader /\ i \notin S)
           /\ Fenced(q, capturing, drawing, worker.token)
<1>1. Typed(pairs) /\ drawing \in Seq(SUBSET Slots) /\ Len(drawing) \in Nat
  BY DEF IInv, TypeOK, Typed
<1>2. fence = Len(drawing) \/ (drawing = <<>> /\ fence = NoFence)
  BY DEF LastUse
<1>3. fence \in Fences
  BY <1>1, <1>2 DEF Fences
<1>4. Fenced(q, capturing, drawing, worker.token)
  BY <1>1, <1>2, EndReadsKeeps DEF IInv
<1>5. /\ Typed(q) /\ SameJob(pairs, q) /\ SameState(pairs, q)
      /\ \A i \in Slots : /\ q[i].poller = pairs[i].poller /\ q[i].producer = pairs[i].producer
                          /\ (q[i].reader <=> pairs[i].reader /\ i \notin S)
                          /\ q[i].consumer = IF i \in S THEN fence ELSE pairs[i].consumer
  BY <1>1, <1>3, EndReadsPairs
<1> QED BY <1>4, <1>5

LEMMA ReadsRead == \A s : Reads(s) \in SUBSET Slots /\ \A i \in Reads(s) : pairs[i].reader
BY DEF Reads

LEMMA CollectedLink ==
    ASSUME TypeOK
    PROVE  /\ Collected \in Links /\ Collected.pending = link.pending
           /\ (Collected.abandoned <=> link.abandoned) /\ (Collected.host <=> link.host)
           /\ (Collected.accepting <=> link.accepting)
<1>1. CASE link.abandoned
  BY <1>1 DEF TypeOK, Collected
<1>2. CASE ~link.abandoned
  <2>1. link \in Links /\ (link.woken \/ link.completed # {}) \in BOOLEAN
    BY DEF TypeOK, Links
  <2>2. Collected = [link EXCEPT !.completed = {}, !.woken = link.woken \/ link.completed # {}]
    BY <1>2 DEF Collected
  <2> QED BY <2>1, <2>2 DEF Links
<1> QED BY <1>1, <1>2

LEMMA WokenLink ==
    ASSUME NEW l \in Links, NEW m, m = Woken(l) \/ m = Stopped(l)
    PROVE  /\ m \in Links /\ m.pending = l.pending /\ m.completed = l.completed
           /\ (m.abandoned <=> l.abandoned) /\ (m.host <=> l.host)
           /\ (m.accepting => l.accepting)
BY DEF Links, Woken, Stopped

LEMMA CollectsTypes ==
    ASSUME TypeOK, NEW current \in BOOLEAN, Collects(current)
    PROVE  leases' \subseteq Serials /\ inputs' \subseteq Serials /\ deletions' \subseteq Serials
<1>1. \A c \in link.completed : c.serial \in Serials
  BY DEF TypeOK, Links
<1> QED BY <1>1 DEF Collects, TypeOK, sources

LEMMA SyncedFacade ==
    ASSUME TypeOK
    PROVE  /\ Synced \in Facades /\ Synced.closed = facade.closed /\ Synced.disposed = facade.disposed
           /\ Synced.cleanup = facade.cleanup /\ Synced.serial = facade.serial
<1>1. facade \in Facades /\ (facade.quarantine \/ link.abandoned) \in BOOLEAN
  BY DEF TypeOK, Facades
<1>2. Synced = [facade EXCEPT !.quarantine = facade.quarantine \/ link.abandoned]
  BY DEF Synced
<1> QED BY <1>1, <1>2 DEF Facades

LEMMA UnfadedFacade ==
    ASSUME NEW f \in Facades, NEW g, g = Unfaded(f)
    PROVE  /\ g \in Facades /\ g.closed = f.closed /\ g.disposed = f.disposed
           /\ g.cleanup = f.cleanup /\ g.serial = f.serial
<1>1. 0 \in 0 .. MaxSerial /\ 0 \in 0 .. FadeFrames
  BY ReflectionBounds
<1> QED BY <1>1 DEF Unfaded, Facades

-----------------------------------------------------------------------------
(* The frames of the render thread.                                        *)

LEMMA FirstPollable ==
    ASSUME NEW S \in SUBSET Slots, S # {}, NEW i, i = CHOOSE j \in Slots : IsFirst(j, S)
    PROVE  i \in Slots /\ i \in S /\ IsFirst(i, S)
<1>1. \E j \in Slots : IsFirst(j, S)
  <2>1. CASE 1 \in S
    BY <2>1 DEF IsFirst, Slots
  <2>2. CASE 1 \notin S
    <3>1. \A x \in S : x = 2
      BY <2>2 DEF Slots
    <3>2. 2 \in S
      BY <3>1
    <3> QED BY <3>1, <3>2 DEF IsFirst, Slots
  <2> QED BY <2>1, <2>2
<1>2. i \in Slots /\ IsFirst(i, S)
  BY <1>1
<1> QED BY <1>2 DEF IsFirst

LEMMA BegunFrame ==
    ASSUME IInv, NEW polls \in BOOLEAN, NEW otherwise \in {"draw", "idle"},
           FrameBegins(polls, otherwise)
    PROVE  /\ main' \in Mains /\ main'.pc \in {"poll", "draw", "idle"}
           /\ main'.pc = "poll" => /\ polls /\ main'.use \in Slots
                                   /\ main'.use \in Pollable /\ IsFirst(main'.use, Pollable)
           /\ ~facade.closed /\ ~facade.disposed /\ ~facade.cleanup /\ ~link.host
           /\ Collects(TRUE) /\ UNCHANGED <<gpu, worker, faults>>
<1>1. /\ TypeOK /\ Framed /\ main \in Mains /\ ~facade.closed /\ ~facade.disposed
      /\ Collects(TRUE) /\ UNCHANGED <<gpu, worker, faults>>
  BY DEF IInv, TypeOK, FrameBegins
<1>2. ~facade.cleanup /\ ~link.host
  BY <1>1 DEF Framed
<1>3. CASE polls /\ Pollable # {}
  <2>1. PICK i : /\ i = CHOOSE j \in Slots : IsFirst(j, Pollable)
                 /\ main' = [main EXCEPT !.pc = "poll", !.use = i]
    BY <1>3 DEF FrameBegins
  <2>2. Pollable \in SUBSET Slots
    BY DEF Pollable, In
  <2>3. i \in Slots /\ i \in Pollable /\ IsFirst(i, Pollable)
    BY <1>3, <2>1, <2>2, FirstPollable
  <2>4. i \in 0 .. 2 /\ "poll" \in MainSteps
    BY <2>3 DEF Slots, MainSteps
  <2>5. main' \in Mains /\ main'.pc = "poll" /\ main'.use = i
    BY <1>1, <2>1, <2>4 DEF Mains
  <2> QED BY <1>1, <1>2, <1>3, <2>3, <2>5
<1>4. CASE ~(polls /\ Pollable # {})
  <2>1. main' = [main EXCEPT !.pc = otherwise] /\ otherwise \in MainSteps
    BY <1>4 DEF FrameBegins, MainSteps
  <2>2. main' \in Mains /\ main'.pc = otherwise
    BY <1>1, <2>1 DEF Mains
  <2> QED BY <1>1, <1>2, <2>2
<1> QED BY <1>3, <1>4

\* What every frame has: the pairs as some q, and what was acknowledged collected.
LEMMA FrameStep ==
    ASSUME IInv, NEW polls \in BOOLEAN, NEW otherwise \in {"draw", "idle"},
           FrameBegins(polls, otherwise),
           Shows(pairs, pairs'), Fenced(pairs', capturing, drawing, worker.token),
           main'.pc = "poll" => pairs'[main'.use].poller,
           front' = front, front # 0 => pairs'[front].state = "displayed",
           generation' \in Nat, closed' = closed,
           link' \in Links, link'.pending = Collected.pending,
           link'.completed = Collected.completed, link'.abandoned <=> Collected.abandoned,
           link'.host <=> Collected.host, link'.accepting => Collected.accepting,
           facade' \in Facades, SameFacade
    PROVE  IInv'
<1>1. /\ main' \in Mains /\ main'.pc \in {"poll", "draw", "idle"}
      /\ main'.pc = "poll" => main'.use \in Slots
      /\ ~facade.closed /\ ~facade.disposed /\ ~facade.cleanup /\ ~link.host
      /\ Collects(TRUE) /\ UNCHANGED <<gpu, worker, faults>>
  BY BegunFrame
<1>2. TypeOK /\ Framed /\ Ledger
  BY DEF IInv
<1>3. /\ Collected.pending = link.pending /\ (Collected.abandoned <=> link.abandoned)
      /\ (Collected.host <=> link.host) /\ (Collected.accepting <=> link.accepting)
  BY <1>2, CollectedLink
<1>4. leases' \subseteq Serials /\ inputs' \subseteq Serials /\ deletions' \subseteq Serials
  BY <1>1, <1>2, CollectsTypes, TRUE \in BOOLEAN
<1>5. Framed'
  <2>1. main'.pc = "poll" => main'.use # 0
    BY <1>1 DEF Slots
  <2> QED BY <1>1, <1>3, <2>1 DEF Framed, SameFacade
<1>6. ASSUME SameBusy, SameWork PROVE Ledger'
  <2>1. \A i \in Slots : pairs[i].kept => InUse(i)
    BY DEF IInv, Fenced, Sane, InUse
  <2>2. SameCalls
    BY <1>2, <1>3 DEF SameCalls, Ledger, Owned
  <2> QED BY <1>1, <1>2, <1>6, <2>1, <2>2, CollectedLedger, TRUE \in BOOLEAN DEF SameFacade
<1>7. /\ capturing' = capturing /\ drawing' = drawing
      /\ capturing' \in Seq(Slots) /\ drawing' \in Seq(SUBSET Slots)
      /\ \A i \in Slots : (Capturing(i)' => Capturing(i)) /\ (Drawing(i)' => Drawing(i))
  BY <1>1, <1>2, SameQueues
<1>8. front' \in {0} \cup Slots /\ closed' \in BOOLEAN /\ faults' \in 0 .. MaxFault
  BY <1>1, <1>2 DEF TypeOK
<1> QED BY <1>1, <1>3, <1>4, <1>5, <1>6, <1>7, <1>8, RenderStep

LEMMA SameSceneKeeps == ASSUME IInv, SameScene PROVE IInv'
<1>1. PICK expired \in {FALSE, facade.fading # 0}, fence \in LastUse :
        LET polls == facade.fading = 0 \/ expired
            ended == EndReads(pairs, IF expired THEN Fading(link.abandoned) ELSE {}, fence)
        IN  /\ FrameBegins(polls, "draw")
            /\ pairs' = IF polls THEN PollBegun(ended, Pollable) ELSE ended
            /\ facade' = [IF expired THEN Unfaded(Synced) ELSE Synced EXCEPT !.due = FALSE]
            /\ link' = IF expired THEN Woken(Collected) ELSE Collected
            /\ UNCHANGED <<front, generation, closed>>
  BY DEF SameScene
<1> DEFINE polls == facade.fading = 0 \/ expired
           S == IF expired THEN Fading(link.abandoned) ELSE {}
           ended == EndReads(pairs, S, fence)
<1>2. TypeOK /\ Framed /\ polls \in BOOLEAN
  BY DEF IInv
<1>3. S \in SUBSET Slots /\ \A i \in S : pairs[i].reader
  BY ReadsRead DEF Fading
<1>4. /\ FrameBegins(polls, "draw")
      /\ pairs' = IF polls THEN PollBegun(ended, Pollable) ELSE ended
      /\ UNCHANGED <<front, generation, closed>>
  BY <1>1
<1>5. /\ facade' = [IF expired THEN Unfaded(Synced) ELSE Synced EXCEPT !.due = FALSE]
      /\ link' = IF expired THEN Woken(Collected) ELSE Collected
  BY <1>1
<1>6. \E q : q = ended
  OBVIOUS
<1> HIDE DEF polls, S
<1>7. PICK q : q = ended
  BY <1>6
<1>8. /\ Typed(q) /\ SameJob(pairs, q) /\ SameState(pairs, q)
      /\ Fenced(q, capturing, drawing, worker.token)
  BY <1>3, <1>7, EndedReads
<1> HIDE DEF ended
<1>9. /\ Typed(pairs') /\ SameJob(pairs, pairs') /\ SameState(pairs, pairs')
      /\ Fenced(pairs', capturing, drawing, worker.token)
      /\ polls => \A i \in Slots : IsFirst(i, Pollable) => pairs'[i].poller
  <2>1. CASE ~polls
    BY <1>4, <1>7, <1>8, <2>1
  <2>2. CASE polls
    <3>1. Pollable \in SUBSET Slots /\ \A i \in Pollable : q[i].state = "ready"
      BY <1>8 DEF Pollable, In, SameState
    <3>2. pairs' = PollBegun(q, Pollable)
      BY <1>4, <1>7, <2>2
    <3>3. Fenced(pairs', capturing, drawing, worker.token)
      BY <1>8, <3>1, <3>2, PollBegunKeeps
    <3>4. /\ Typed(pairs') /\ SameJob(q, pairs') /\ SameState(q, pairs')
          /\ \A i \in Slots : (pairs'[i].poller <=> q[i].poller \/ IsFirst(i, Pollable))
      BY <1>8, <3>1, <3>2, PollBegunPairs
    <3> QED BY <1>8, <3>3, <3>4 DEF SameJob, SameState
  <2> QED BY <2>1, <2>2
<1>10. Shows(pairs, pairs')
  BY <1>9 DEF Shows, SameState
<1>11. main'.pc = "poll" => pairs'[main'.use].poller
  BY <1>2, <1>4, <1>9, BegunFrame
<1>12. front # 0 => pairs'[front].state = "displayed"
  BY <1>2, <1>9 DEF Framed, SameState, TypeOK
<1>13. /\ link' \in Links /\ link'.pending = Collected.pending
       /\ link'.completed = Collected.completed /\ (link'.abandoned <=> Collected.abandoned)
       /\ (link'.host <=> Collected.host) /\ (link'.accepting => Collected.accepting)
  <2>1. Collected \in Links
    BY <1>2, CollectedLink
  <2>2. CASE expired
    BY <1>5, <2>1, <2>2, WokenLink
  <2>3. CASE ~expired
    BY <1>5, <2>1, <2>3
  <2> QED BY <2>2, <2>3
<1>14. facade' \in Facades /\ SameFacade
  <2>1. PICK f : f = IF expired THEN Unfaded(Synced) ELSE Synced
    OBVIOUS
  <2>2. /\ f \in Facades /\ f.closed = facade.closed /\ f.disposed = facade.disposed
        /\ f.cleanup = facade.cleanup /\ f.serial = facade.serial
    <3>1. CASE expired
      BY <1>2, <2>1, <3>1, SyncedFacade, UnfadedFacade
    <3>2. CASE ~expired
      BY <1>2, <2>1, <3>2, SyncedFacade
    <3> QED BY <3>1, <3>2
  <2>3. facade' = [f EXCEPT !.due = FALSE]
    BY <1>5, <2>1
  <2> QED BY <2>2, <2>3 DEF Facades, SameFacade
<1>15. generation' \in Nat /\ closed' = closed /\ front' = front
  BY <1>2, <1>4 DEF TypeOK
<1> QED BY <1>2, <1>4, <1>9, <1>10, <1>11, <1>12, <1>13, <1>14, <1>15, FrameStep

\* A new generation seals what is ready and leaves what is shown.
LEMMA ChangedPairs ==
    ASSUME IInv, NEW S \in SUBSET Slots, \A i \in S : pairs[i].reader, NEW fence \in LastUse,
           ChangeGeneration(EndReads(pairs, S, fence))
    PROVE  /\ Shows(pairs, pairs') /\ Fenced(pairs', capturing, drawing, worker.token)
           /\ generation' \in Nat /\ closed' = closed /\ front' = front
           /\ front # 0 => pairs'[front].state = "displayed"
<1>1. PICK q : q = EndReads(pairs, S, fence)
  OBVIOUS
<1>2. TypeOK /\ Framed
  BY DEF IInv
<1>3. /\ Typed(q) /\ SameJob(pairs, q) /\ SameState(pairs, q)
      /\ Fenced(q, capturing, drawing, worker.token)
  BY <1>1, EndedReads
<1>4. ChangeGeneration(q)
  BY <1>1
<1>5. /\ Shows(pairs, pairs') /\ Fenced(pairs', capturing, drawing, worker.token)
      /\ generation' \in Nat /\ closed' = closed /\ front' = front
      /\ \A i \in Slots : pairs[i].state = "displayed" => pairs'[i].state = "displayed"
  <2>1. CASE closed
    BY <1>2, <1>3, <1>4, <2>1 DEF ChangeGeneration, Shows, SameState, TypeOK
  <2>2. CASE ~closed
    <3>1. pairs' = Sealed(q, {"ready"}) /\ generation' = generation + 1 /\ UNCHANGED <<front, closed>>
      BY <1>4, <2>2 DEF ChangeGeneration
    <3>2. Fenced(pairs', capturing, drawing, worker.token)
      BY <1>3, <3>1, SealKeeps
    <3>3. /\ Typed(pairs') /\ SameJob(q, pairs')
          /\ \A i \in Slots : pairs'[i].state = IF q[i].state \in {"ready"} THEN "sealed" ELSE q[i].state
      BY <1>3, <3>1, SealedPairs
    <3>4. Shows(pairs, pairs')
      BY <1>3, <3>3 DEF Shows, SameState, SameJob
    <3> QED BY <1>2, <1>3, <3>1, <3>2, <3>3, <3>4 DEF SameState, TypeOK
  <2> QED BY <2>1, <2>2
<1>6. front # 0 => pairs'[front].state = "displayed"
  BY <1>2, <1>5 DEF Framed, TypeOK
<1> QED BY <1>5, <1>6

LEMMA ChangesSceneKeeps == ASSUME IInv, ChangesScene PROVE IInv'
<1>1. PICK fence \in LastUse :
          /\ FrameBegins(FALSE, "draw")
          /\ ChangeGeneration(EndReads(pairs, Fading(link.abandoned), fence))
          /\ facade' = [Unfaded(Synced) EXCEPT !.due = FALSE, !.busy = FALSE, !.current = FALSE]
  BY DEF ChangesScene
<1>2. TypeOK
  BY DEF IInv
<1>3. PICK S : S = Fading(link.abandoned)
  OBVIOUS
<1>4. S \in SUBSET Slots /\ \A i \in S : pairs[i].reader
  BY <1>3, ReadsRead DEF Fading
<1>5. /\ Shows(pairs, pairs') /\ Fenced(pairs', capturing, drawing, worker.token)
      /\ generation' \in Nat /\ closed' = closed /\ front' = front
      /\ front # 0 => pairs'[front].state = "displayed"
  BY <1>1, <1>3, <1>4, ChangedPairs
<1>6. main'.pc # "poll"
  BY <1>1, BegunFrame, FALSE \in BOOLEAN
<1>7. /\ link' \in Links /\ link'.pending = Collected.pending
      /\ link'.completed = Collected.completed /\ (link'.abandoned <=> Collected.abandoned)
      /\ (link'.host <=> Collected.host) /\ (link'.accepting => Collected.accepting)
  <2>1. Collected \in Links /\ link' = Woken(Collected)
    BY <1>2, CollectedLink DEF ChangesScene
  <2> QED BY <2>1, WokenLink
<1>8. facade' \in Facades /\ SameFacade
  <2>1. PICK f : f = Unfaded(Synced)
    OBVIOUS
  <2>2. /\ f \in Facades /\ f.closed = facade.closed /\ f.disposed = facade.disposed
        /\ f.cleanup = facade.cleanup /\ f.serial = facade.serial
    BY <1>2, <2>1, SyncedFacade, UnfadedFacade
  <2>3. facade' = [f EXCEPT !.due = FALSE, !.busy = FALSE, !.current = FALSE]
    BY <1>1, <2>1
  <2> QED BY <2>2, <2>3 DEF Facades, SameFacade
<1> QED BY <1>1, <1>5, <1>6, <1>7, <1>8, FrameStep, FALSE \in BOOLEAN

\* A step of a frame in which nothing is acknowledged or submitted.
LEMMA ShowStep ==
    ASSUME IInv, UNCHANGED <<worker, capturing, generation, closed, sources>>,
           Shows(pairs, pairs'), Fenced(pairs', capturing, drawing', worker.token),
           front' \in {0} \cup Slots, drawing' \in Seq(SUBSET Slots),
           \A i \in Slots : pairs[i].state = "draining" /\ Drawing(i)' => Drawing(i),
           link' \in Links, SameLink, main' \in Mains, facade' \in Facades,
           facade'.serial = facade.serial, faults' \in 0 .. MaxFault, Framed'
    PROVE  IInv'
<1>1. TypeOK
  BY DEF IInv
<1>2. \A i \in Slots : Capturing(i)' => Capturing(i)
  BY DEF Capturing
<1>3. SameBusy /\ SameWork => Ledger'
  BY <1>1, LedgerStays DEF IInv, SameLink
<1>4. link.abandoned => link'.abandoned
  BY DEF SameLink, SameCalls
<1>5. /\ capturing' \in Seq(Slots) /\ generation' \in Nat /\ closed' \in BOOLEAN
      /\ leases' \subseteq Serials /\ inputs' \subseteq Serials /\ deletions' \subseteq Serials
  BY <1>1 DEF TypeOK, sources
<1> QED BY <1>2, <1>3, <1>4, <1>5, RenderStep

LEMMA WokenSame ==
    ASSUME IInv, link' = Woken(link) \/ link' = Stopped(link)
    PROVE  link' \in Links /\ SameLink
<1>1. link \in Links
  BY DEF IInv, TypeOK
<1>2. /\ link' \in Links /\ link'.pending = link.pending /\ link'.completed = link.completed
      /\ (link'.abandoned <=> link.abandoned) /\ (link'.host <=> link.host)
      /\ (link'.accepting => link.accepting)
  BY <1>1, WokenLink
<1> QED BY <1>2 DEF SameLink, SameCalls, IInv, Ledger, Owned

LEMMA DefersKeeps == ASSUME IInv, Defers PROVE IInv'
<1>1. /\ ~facade.closed /\ ~facade.disposed /\ main' = [main EXCEPT !.pc = "draw"]
      /\ facade' = [Unfaded(facade) EXCEPT !.due = TRUE, !.busy = FALSE]
      /\ link' = Woken(link) /\ UNCHANGED <<gpu, worker, sources, faults>>
  BY DEF Defers, IInv, Framed
<1>2. TypeOK /\ Framed
  BY DEF IInv
<1>3. PICK fence \in LastUse : ChangeGeneration(EndReads(pairs, Fading(facade.quarantine), fence))
  BY DEF Defers
<1>4. PICK S : S = Fading(facade.quarantine)
  OBVIOUS
<1>5. S \in SUBSET Slots /\ \A i \in S : pairs[i].reader
  BY <1>4, ReadsRead DEF Fading
<1>6. /\ Shows(pairs, pairs') /\ Fenced(pairs', capturing, drawing, worker.token)
      /\ generation' \in Nat /\ closed' = closed /\ front' = front
      /\ front # 0 => pairs'[front].state = "displayed"
  BY <1>3, <1>4, <1>5, ChangedPairs
<1>7. link' \in Links /\ SameLink
  BY <1>1, WokenSame
<1>8. facade' \in Facades /\ SameFacade
  <2>1. PICK f : f = Unfaded(facade)
    OBVIOUS
  <2>2. /\ f \in Facades /\ f.closed = facade.closed /\ f.disposed = facade.disposed
        /\ f.cleanup = facade.cleanup /\ f.serial = facade.serial
    BY <1>2, <2>1, UnfadedFacade DEF TypeOK
  <2>3. facade' = [f EXCEPT !.due = TRUE, !.busy = FALSE]
    BY <1>1, <2>1
  <2> QED BY <2>2, <2>3 DEF Facades, SameFacade
<1>9. main' \in Mains /\ main'.pc = "draw"
  BY <1>1, <1>2 DEF TypeOK, Mains, MainSteps
<1>10. Framed'
  BY <1>1, <1>2, <1>6, <1>7, <1>8, <1>9 DEF Framed, SameFacade, SameLink
<1>11. /\ capturing' = capturing /\ drawing' = drawing
       /\ capturing' \in Seq(Slots) /\ drawing' \in Seq(SUBSET Slots)
       /\ \A i \in Slots : (Capturing(i)' => Capturing(i)) /\ (Drawing(i)' => Drawing(i))
  BY <1>1, <1>2, SameQueues
<1>12. SameBusy /\ SameWork => Ledger'
  BY <1>1, <1>2, <1>7, <1>8, LedgerStays DEF IInv, SameLink, SameFacade
<1>13. /\ front' \in {0} \cup Slots /\ closed' \in BOOLEAN /\ faults' \in 0 .. MaxFault
       /\ leases' \subseteq Serials /\ inputs' \subseteq Serials /\ deletions' \subseteq Serials
  BY <1>1, <1>2, <1>6 DEF TypeOK, sources
<1>14. (link.abandoned => link'.abandoned) /\ (closed => closed') /\ UNCHANGED <<worker>>
  BY <1>1, <1>6, <1>7 DEF SameLink, SameCalls
<1> QED BY <1>6, <1>7, <1>8, <1>9, <1>10, <1>11, <1>12, <1>13, <1>14, RenderStep

LEMMA ReadFront ==
    ASSUME IInv, Readable, NEW q, q = ReadBegun(pairs, front)
    PROVE  /\ front \in Slots /\ Typed(q) /\ SameJob(pairs, q) /\ SameState(pairs, q)
           /\ Shows(pairs, q) /\ Fenced(q, capturing, drawing, worker.token)
           /\ \A i \in Slots : /\ q[i].poller = pairs[i].poller /\ q[i].producer = pairs[i].producer
                               /\ (q[i].reader <=> pairs[i].reader \/ i = front)
<1>1. front \in Slots /\ pairs[front].state = "displayed" /\ Typed(pairs)
  BY DEF IInv, TypeOK, Typed, Readable
<1>2. /\ Only(front, pairs, q) /\ SameJob(pairs, q) /\ SameFences(pairs, q) /\ SameState(pairs, q)
      /\ q[front].reader /\ q[front].poller = pairs[front].poller
  BY <1>1, ReadBegunPairs
<1>3. Fenced(q, capturing, drawing, worker.token)
  BY <1>1, ReadBegunKeeps DEF IInv
<1> QED BY <1>1, <1>2, <1>3 DEF Only, SameFences, SameState, Shows

LEMMA AsksFenceKeeps == ASSUME IInv, AsksFence PROVE IInv'
<1>1. /\ TypeOK /\ Framed /\ Typed(pairs) /\ main.pc = "poll" /\ main.use \in Slots
      /\ pairs[main.use].poller /\ main \in Mains
      /\ UNCHANGED <<front, generation, closed, gpu, link, worker, facade, sources>>
  BY DEF IInv, AsksFence, Typed, TypeOK, Framed, Mains, Slots
<1>2. \E acquires \in BOOLEAN :
        /\ pairs' = IF acquires THEN ReadBegun(pairs, front) ELSE pairs
        /\ acquires => Readable
        /\ \E complete, raised \in BOOLEAN, previous \in 0 .. MaxSerial :
             /\ main' = [main EXCEPT !.pc = "polled", !.complete = complete,
                                     !.raised = raised, !.previous = previous]
             /\ complete => pairs[main.use].producer <= 0
        /\ faults' \in 0 .. MaxFault
  <2>1. main = [main EXCEPT !.raised = main.raised, !.previous = main.previous]
    BY <1>1 DEF Mains
  <2>2. facade.shown \in 0 .. MaxSerial /\ 0 \in 0 .. MaxSerial /\ main.raised \in BOOLEAN
        /\ main.previous \in 0 .. MaxSerial /\ faults \in 0 .. MaxFault
    BY <1>1, ReflectionBounds DEF Mains, TypeOK, Facades
  <2>3. CASE /\ pairs[main.use].producer <= 0
             /\ \E fades \in {FALSE, facade.shown # 0 /\ facade.current} :
                  LET acquires == fades /\ ~facade.quarantine /\ Readable
                  IN  /\ pairs' = IF acquires THEN ReadBegun(pairs, front) ELSE pairs
                      /\ main' = [main EXCEPT !.pc = "polled",
                                              !.complete = ~fades \/ acquires,
                                              !.raised = fades /\ ~acquires,
                                              !.previous = IF acquires THEN facade.shown ELSE 0]
             /\ UNCHANGED faults
    <3>1. PICK fades \in {FALSE, facade.shown # 0 /\ facade.current}, acquires \in BOOLEAN :
             /\ acquires = (fades /\ ~facade.quarantine /\ Readable)
             /\ pairs' = IF acquires THEN ReadBegun(pairs, front) ELSE pairs
             /\ main' = [main EXCEPT !.pc = "polled", !.complete = ~fades \/ acquires,
                                     !.raised = fades /\ ~acquires,
                                     !.previous = IF acquires THEN facade.shown ELSE 0]
      BY <2>3
    <3>2. /\ (~fades \/ acquires) \in BOOLEAN /\ (fades /\ ~acquires) \in BOOLEAN
          /\ (IF acquires THEN facade.shown ELSE 0) \in 0 .. MaxSerial
      BY <2>2
    <3> QED BY <2>2, <2>3, <3>1, <3>2
  <2>4. CASE /\ pairs[main.use].producer > 0
             /\ main' = [main EXCEPT !.pc = "polled", !.complete = FALSE]
             /\ UNCHANGED <<pairs, faults>>
    <3>1. main' = [main EXCEPT !.pc = "polled", !.complete = FALSE,
                               !.raised = main.raised, !.previous = main.previous]
      BY <1>1, <2>4 DEF Mains
    <3> QED BY <2>2, <2>4, <3>1
  <2>5. CASE /\ Fault
             /\ main' = [main EXCEPT !.pc = "polled", !.complete = FALSE, !.raised = TRUE]
             /\ UNCHANGED pairs
    <3>1. main' = [main EXCEPT !.pc = "polled", !.complete = FALSE,
                               !.raised = TRUE, !.previous = main.previous]
      BY <1>1, <2>5 DEF Mains
    <3>2. faults' \in 0 .. MaxFault
      BY <1>1, <2>5, FaultType
    <3> QED BY <2>2, <2>5, <3>1, <3>2
  <2> QED BY <2>3, <2>4, <2>5 DEF AsksFence
<1>3. PICK acquires \in BOOLEAN, complete \in BOOLEAN, raised \in BOOLEAN, previous \in 0 .. MaxSerial :
        /\ pairs' = IF acquires THEN ReadBegun(pairs, front) ELSE pairs
        /\ acquires => Readable
        /\ main' = [main EXCEPT !.pc = "polled", !.complete = complete,
                                !.raised = raised, !.previous = previous]
        /\ complete => pairs[main.use].producer <= 0
        /\ faults' \in 0 .. MaxFault
  BY <1>2
<1>4. /\ main' \in Mains /\ main'.pc = "polled" /\ main'.use = main.use
      /\ (main'.complete => pairs[main.use].producer <= 0)
  <2>1. "polled" \in MainSteps
    BY DEF MainSteps
  <2>2. main' \in Mains
    BY <1>1, <1>3, <2>1 DEF Mains
  <2> QED BY <1>1, <1>3, <2>2 DEF Mains
<1>5. /\ Shows(pairs, pairs') /\ Fenced(pairs', capturing, drawing, worker.token)
      /\ \A i \in Slots : /\ pairs'[i].poller = pairs[i].poller
                          /\ pairs'[i].producer = pairs[i].producer
                          /\ pairs'[i].state = pairs[i].state
  <2>1. CASE acquires
    BY <1>3, <2>1, ReadFront DEF SameState
  <2>2. CASE ~acquires
    <3>1. pairs' = pairs
      BY <1>3, <2>2
    <3> QED BY <1>1, <3>1 DEF Shows, SameJob, IInv
  <2> QED BY <2>1, <2>2
<1>6. Framed'
  <2>1. front # 0 => front \in Slots
    BY <1>1 DEF TypeOK
  <2> QED BY <1>1, <1>4, <1>5, <2>1 DEF Framed, Slots, gpu
<1>7. link' \in Links /\ SameLink /\ facade' \in Facades /\ facade'.serial = facade.serial
  BY <1>1, LinkSame, FacadeSame DEF SameFacade
<1>8. /\ capturing' = capturing /\ drawing' = drawing /\ drawing' \in Seq(SUBSET Slots)
      /\ \A i \in Slots : Drawing(i)' => Drawing(i)
  BY <1>1, SameQueues
<1>9. front' \in {0} \cup Slots
  BY <1>1 DEF TypeOK
<1> QED BY <1>1, <1>3, <1>4, <1>5, <1>6, <1>7, <1>8, <1>9, ShowStep

\* The next place of a frame, its poll being over.
LEMMA PolledMain ==
    ASSUME main \in Mains, NEW pc \in MainSteps, NEW m, m = Polled(pc)
    PROVE  m \in Mains /\ m.pc = pc
<1>1. 0 \in 0 .. MaxSerial /\ 0 \in 0 .. 2
  BY ReflectionBounds
<1> QED BY <1>1 DEF Polled, Mains

LEMMA AdoptKeeps == ASSUME IInv, Adopt PROVE IInv'
<1>1. /\ TypeOK /\ Framed /\ Placed /\ Ledger /\ Typed(pairs) /\ main.pc = "polled"
      /\ Fenced(pairs, capturing, drawing, worker.token)
      /\ main \in Mains /\ main.use \in Slots /\ pairs[main.use].state = "ready"
      /\ pairs[main.use].producer <= 0 /\ capturing \in Seq(Slots) /\ drawing \in Seq(SUBSET Slots)
  BY DEF IInv, Adopt, Adopts, Typed, TypeOK, Framed, Mains, Slots
<1> DEFINE i == main.use
<1>2. /\ pairs' = Adopted(pairs, i) /\ front' = i /\ link' = Woken(link)
      /\ UNCHANGED <<generation, closed, capturing, drawing, worker, sources, faults>>
  BY DEF Adopt, gpu
<1>3. i # worker.token
  BY <1>1 DEF Placed, Slots
<1> HIDE DEF i
<1>4. i \in Slots /\ pairs[i].state = "ready" /\ pairs[i].producer <= 0
  BY <1>1 DEF i
<1>5. Fenced(pairs', capturing, drawing, worker.token)
  BY <1>1, <1>2, <1>3, <1>4, AdoptedKeeps
<1>6. /\ Typed(pairs') /\ SameJob(pairs, pairs') /\ pairs'[i].state = "displayed"
      /\ \A j \in Slots \ {i} : pairs'[j].state = IF j = front THEN "sealed" ELSE pairs[j].state
  BY <1>1, <1>2, <1>4, AdoptedPairs
<1>7. Shows(pairs, pairs')
  BY <1>1, <1>4, <1>6 DEF Shows, Framed, Slots
<1>8. link' \in Links /\ SameLink
  BY <1>2, WokenSame
<1>9. main' \in Mains /\ main'.pc = "draw"
  BY <1>1, PolledMain DEF Adopt, MainSteps
<1>10. /\ facade' \in Facades /\ SameFacade
  <2>1. facade' = [facade EXCEPT !.shown = pairs[i].job, !.current = TRUE,
                                 !.busy = pairs[i].job # facade.serial,
                                 !.fading = main.previous, !.fade = 0]
    BY DEF Adopt, i
  <2>2. facade \in Facades /\ pairs[i].job \in 0 .. MaxSerial /\ main.previous \in 0 .. MaxSerial
        /\ 0 \in 0 .. FadeFrames /\ (pairs[i].job # facade.serial) \in BOOLEAN
    <3>1. pairs[i].job \in Nat /\ pairs[i].job <= facade.serial /\ facade.serial \in 0 .. MaxSerial
      BY <1>1, <1>4 DEF TypeOK, Pairs, Facades, Ledger, Apart
    <3> QED BY <1>1, <3>1, ReflectionBounds DEF TypeOK, Mains
  <2> QED BY <2>1, <2>2 DEF Facades, SameFacade
<1>11. Framed'
  BY <1>1, <1>2, <1>6, <1>8, <1>9, <1>10 DEF Framed, SameFacade, SameLink
<1>12. \A j \in Slots : Drawing(j)' => Drawing(j)
  BY <1>2 DEF Drawing
<1>13. faults' \in 0 .. MaxFault /\ drawing' \in Seq(SUBSET Slots) /\ front' \in {0} \cup Slots
  BY <1>1, <1>2, <1>4 DEF TypeOK
<1> QED BY <1>2, <1>5, <1>7, <1>8, <1>9, <1>10, <1>11, <1>12, <1>13, ShowStep DEF SameFacade

LEMMA KeepsWaitingKeeps == ASSUME IInv, KeepsWaiting PROVE IInv'
<1>1. /\ TypeOK /\ Framed /\ Typed(pairs) /\ main.pc = "polled" /\ main \in Mains /\ main.use \in Slots
      /\ Fenced(pairs, capturing, drawing, worker.token) /\ drawing \in Seq(SUBSET Slots)
      /\ UNCHANGED <<front, generation, closed, gpu, worker, sources, faults>>
  BY DEF IInv, KeepsWaiting, Typed, TypeOK, Framed, Mains, Slots
<1>2. PICK fence \in LastUse :
         pairs' = EndReads(PollEnded(pairs, main.use),
                           IF facade.quarantine THEN {} ELSE Reads(main.previous), fence)
  BY DEF KeepsWaiting
<1>3. PICK S, q : S = (IF facade.quarantine THEN {} ELSE Reads(main.previous))
                  /\ q = PollEnded(pairs, main.use)
  OBVIOUS
<1>4. S \in SUBSET Slots /\ \A i \in S : pairs[i].reader
  BY <1>3, ReadsRead
<1>5. /\ Only(main.use, pairs, q) /\ SameJob(pairs, q) /\ SameFences(pairs, q) /\ SameState(pairs, q)
      /\ q[main.use].reader = pairs[main.use].reader
  BY <1>1, <1>3, PollEndedPairs
<1>6. Typed(q) /\ Fenced(q, capturing, drawing, worker.token) /\ \A i \in S : q[i].reader
  BY <1>1, <1>3, <1>4, <1>5, PollEndedKeeps DEF Only
<1>7. fence = Len(drawing) \/ (drawing = <<>> /\ fence = NoFence)
  BY DEF LastUse
<1>8. fence \in Fences
  BY <1>1, <1>7 DEF Fences
<1>9. pairs' = EndReads(q, S, fence)
  BY <1>2, <1>3
<1>10. Fenced(pairs', capturing, drawing, worker.token)
  BY <1>1, <1>4, <1>6, <1>7, <1>9, EndReadsKeeps
<1>11. /\ Typed(pairs') /\ SameJob(q, pairs') /\ SameState(q, pairs')
       /\ \A i \in Slots :
             /\ pairs'[i].poller = q[i].poller /\ pairs'[i].producer = q[i].producer
             /\ (pairs'[i].reader <=> q[i].reader /\ i \notin S)
             /\ pairs'[i].consumer = IF i \in S THEN fence ELSE q[i].consumer
  BY <1>4, <1>6, <1>8, <1>9, EndReadsPairs
<1>12. Shows(pairs, pairs') /\ (front # 0 => pairs'[front].state = "displayed")
  BY <1>1, <1>5, <1>11 DEF Shows, SameJob, SameState, Framed, TypeOK
<1>13. link' \in Links /\ SameLink
  BY WokenSame DEF KeepsWaiting
<1>14. /\ main' \in Mains /\ facade' \in Facades /\ facade'.serial = facade.serial
       /\ main'.pc = "draw" \/ (main'.pc = "closing" /\ facade'.closed)
       /\ facade'.disposed = facade.disposed /\ facade'.cleanup = facade.cleanup
       /\ (facade'.closed <=> facade.closed \/ main'.pc = "closing")
  <2>1. CASE main.raised
    <3>1. PICK m : m = Polled("closing")
      OBVIOUS
    <3>2. m \in Mains /\ m.pc = "closing"
      BY <1>1, <3>1, PolledMain DEF MainSteps
    <3>3. main' = [m EXCEPT !.then = "idle"] /\ facade' = [facade EXCEPT !.closed = TRUE, !.busy = FALSE]
      BY <2>1, <3>1 DEF KeepsWaiting
    <3>4. main' \in Mains /\ main'.pc = "closing"
      BY <3>2, <3>3 DEF Mains
    <3>5. /\ facade' \in Facades /\ facade'.closed /\ facade'.serial = facade.serial
          /\ facade'.disposed = facade.disposed /\ facade'.cleanup = facade.cleanup
      BY <1>1, <3>3 DEF TypeOK, Facades
    <3> QED BY <3>4, <3>5
  <2>2. CASE ~main.raised
    <3>1. main' = Polled("draw") /\ facade' = [facade EXCEPT !.arrived = TRUE]
      BY <2>2 DEF KeepsWaiting
    <3>2. main' \in Mains /\ main'.pc = "draw"
      BY <1>1, <3>1, PolledMain DEF MainSteps
    <3>3. /\ facade' \in Facades /\ facade'.closed = facade.closed /\ facade'.serial = facade.serial
          /\ facade'.disposed = facade.disposed /\ facade'.cleanup = facade.cleanup
      BY <1>1, <3>1 DEF TypeOK, Facades
    <3> QED BY <3>2, <3>3
  <2> QED BY <2>1, <2>2
<1>15. Framed'
  BY <1>1, <1>12, <1>13, <1>14 DEF Framed, SameLink, gpu
<1>16. /\ capturing' = capturing /\ drawing' = drawing /\ drawing' \in Seq(SUBSET Slots)
       /\ \A i \in Slots : Drawing(i)' => Drawing(i)
  BY <1>1, SameQueues
<1>17. faults' \in 0 .. MaxFault /\ front' \in {0} \cup Slots
  BY <1>1 DEF TypeOK
<1> QED BY <1>1, <1>10, <1>12, <1>13, <1>14, <1>15, <1>16, <1>17, ShowStep

LEMMA SubmitsKeeps == ASSUME IInv, Submits PROVE IInv'
<1> DEFINE job == facade.serial + 1
<1>1. /\ TypeOK /\ Framed /\ Ledger /\ Placed /\ link.accepting /\ ~link.abandoned
      /\ facade \in Facades /\ link \in Links /\ generation \in Nat /\ main.pc = "draw"
      /\ UNCHANGED <<mailbox, gpu, worker, main, deletions, faults>>
  BY DEF IInv, Submits, TypeOK, Ledger, Owned
<1>2. /\ job \in Serials /\ job \in 0 .. MaxSerial /\ facade.serial \in Nat /\ job = facade.serial + 1
  BY <1>1, ReflectionBounds DEF Submits, Facades, Serials
<1>3. /\ leases' = (leases \ {link.pending}) \cup {job}
      /\ inputs' = (inputs \ {link.pending}) \cup {job}
      /\ link' = [Woken(link) EXCEPT !.pending = job, !.generation = generation]
      /\ facade' = [facade EXCEPT !.serial = job, !.busy = TRUE]
  BY DEF Submits
<1> HIDE DEF job
<1>4. /\ link' \in Links /\ link'.pending = job /\ link'.completed = link.completed
      /\ ~link'.abandoned /\ (link'.host <=> link.host)
  <2>1. PICK m : m = Woken(link)
    OBVIOUS
  <2>2. /\ m \in Links /\ m.completed = link.completed
        /\ (m.abandoned <=> link.abandoned) /\ (m.host <=> link.host)
    BY <1>1, <2>1, WokenLink
  <2>3. link' = [m EXCEPT !.pending = job, !.generation = generation]
    BY <1>3, <2>1
  <2> QED BY <1>1, <1>2, <2>2, <2>3 DEF Links
<1>5. /\ facade' \in Facades /\ facade'.serial = job /\ facade'.closed = facade.closed
      /\ facade'.disposed = facade.disposed /\ facade'.cleanup = facade.cleanup
  BY <1>1, <1>2, <1>3 DEF Facades
<1>6. pairs' = pairs /\ worker' = worker /\ main' = main /\ front' = front /\ drawing' = drawing
      /\ deletions' = deletions
  BY <1>1 DEF mailbox, gpu
<1>7. Framed'
  BY <1>1, <1>4, <1>5, <1>6 DEF Framed
<1>8. Done' = Done /\ Kept' = Kept /\ (\A i : InUse(i)' <=> InUse(i)) /\ Kept \subseteq Done
  BY <1>4, <1>6 DEF Done, Kept, InUse
<1>9. worker.job \in Nat /\ \A i \in Slots : pairs[i].job \in Nat
  BY <1>1, ReflectionBounds DEF TypeOK, Workers, Pairs
<1>10. /\ job \notin Done \cup deletions \cup leases \cup inputs /\ job # worker.job /\ job # 0
       /\ job # link.pending /\ \A i \in Slots : pairs[i].job # job
  <2>1. link.pending <= facade.serial /\ worker.job <= facade.serial
        /\ (\A i \in Slots : pairs[i].job <= facade.serial)
        /\ \A s \in leases \cup inputs \cup deletions \cup Done : s <= facade.serial
    BY <1>1 DEF Ledger, Apart
  <2>2. link.pending \in Nat
    BY <1>1, ReflectionBounds DEF Links
  <2> QED BY <1>2, <1>9, <2>1, <2>2
<1>11. Apart'
  <2> USE <1>1, <1>2, <1>3, <1>4, <1>5, <1>6, <1>8, <1>10 DEF Ledger
  <2>1. link'.pending # 0 => /\ link'.pending \notin Done' \cup deletions' /\ link'.pending # worker'.job
                             /\ \A i \in Slots : InUse(i)' => pairs'[i].job # link'.pending
    OBVIOUS
  <2>2. \A i \in Slots : InUse(i)' =>
          /\ pairs'[i].job # 0 /\ pairs'[i].job \notin Done' \cup deletions'
          /\ \A j \in Slots \ {i} : InUse(j)' => pairs'[i].job # pairs'[j].job
    BY DEF Apart
  <2>3. worker'.job # 0 =>
          /\ worker'.job \notin Done' \cup deletions'
          /\ \A i \in Slots : InUse(i)' => (pairs'[i].job = worker'.job <=> i = worker'.token)
    BY DEF Apart
  <2>4. worker'.token # 0 => pairs'[worker'.token].job = worker'.job
    BY DEF Apart
  <2>5. worker'.job <= facade'.serial /\ \A i \in Slots : pairs'[i].job <= facade'.serial
    BY <1>9 DEF Apart
  <2>6. \A s \in leases' \cup inputs' \cup deletions' \cup Done' : s <= facade'.serial
    <3>1. \A s \in leases \cup inputs \cup deletions \cup Done : s \in Nat
      <4>1. Done \subseteq Serials
        BY DEF Done, Links
      <4> QED BY <4>1, ReflectionBounds DEF TypeOK, Serials
    <3> QED BY <3>1 DEF Apart
  <2>7. Done' \cap deletions' = {} /\ link'.pending <= facade'.serial
    BY DEF Apart
  <2> QED BY <2>1, <2>2, <2>3, <2>4, <2>5, <2>6, <2>7 DEF Apart
<1>12. Owned'
  <2>1. Held' \subseteq leases'
    <3>1. ASSUME NEW s \in Held' PROVE s \in leases'
      <4>1. s = job \/ (s \in Held /\ s # link.pending)
        <5>1. CASE s = worker.job /\ s # 0
          BY <1>1, <5>1 DEF Held, Ledger, Apart
        <5>2. CASE s # 0 /\ \E i \in Slots \ In("free") : pairs[i].job = s
          BY <1>1, <5>2 DEF Held, Ledger, Apart, InUse, In
        <5> QED BY <3>1, <1>4, <1>6, <5>1, <5>2 DEF Held, In
      <4> QED BY <1>1, <1>3, <4>1 DEF Ledger, Owned
    <3> QED BY <3>1
  <2>2. ASSUME NEW s \in Serials
        PROVE  s \in inputs' <=>
                 \/ s = link'.pending \/ (worker'.kept /\ s = worker'.job)
                 \/ s \in Kept' \/ s \in deletions'
                 \/ \E i \in Slots : pairs'[i].kept /\ pairs'[i].job = s
    <3>1. s \in inputs <=>
            \/ s = link.pending \/ (worker.kept /\ s = worker.job) \/ s \in Kept \/ s \in deletions
            \/ \E i \in Slots : pairs[i].kept /\ pairs[i].job = s
      BY <1>1 DEF Ledger, Owned
    <3>2. s # 0
      BY DEF Serials
    <3>3. \A i \in Slots : pairs[i].kept => InUse(i)
      BY DEF IInv, Fenced, Sane, InUse
    <3>4. s = link.pending =>
            ~ \/ (worker.kept /\ s = worker.job) \/ s \in Kept \/ s \in deletions
              \/ \E i \in Slots : pairs[i].kept /\ pairs[i].job = s
      BY <1>1, <1>8, <3>2, <3>3 DEF Ledger, Apart
    <3> QED BY <1>3, <1>4, <1>6, <1>8, <1>10, <3>1, <3>4
  <2> QED BY <1>4, <2>1, <2>2 DEF Owned
<1>13. /\ capturing' = capturing /\ drawing' = drawing
       /\ capturing' \in Seq(Slots) /\ drawing' \in Seq(SUBSET Slots)
       /\ \A i \in Slots : (Capturing(i)' => Capturing(i)) /\ (Drawing(i)' => Drawing(i))
  BY <1>1, SameQueues
<1>14. Shows(pairs, pairs') /\ Fenced(pairs', capturing', drawing', worker.token)
  BY <1>1, <1>6, <1>13 DEF Shows, Typed, SameJob, TypeOK, IInv
<1>15. /\ front' \in {0} \cup Slots /\ generation' \in Nat /\ closed' \in BOOLEAN /\ closed' = closed
       /\ leases' \subseteq Serials /\ inputs' \subseteq Serials /\ deletions' \subseteq Serials
       /\ faults' \in 0 .. MaxFault /\ main' \in Mains
  BY <1>1, <1>2, <1>3 DEF TypeOK, mailbox
<1> QED BY <1>1, <1>4, <1>5, <1>6, <1>7, <1>11, <1>12, <1>13, <1>14, <1>15, RenderStep DEF Ledger

LEMMA CommittedFacade ==
    ASSUME TypeOK
    PROVE  Committed \in Facades /\ Committed.closed = facade.closed
           /\ Committed.disposed = facade.disposed /\ Committed.cleanup = facade.cleanup
           /\ Committed.serial = facade.serial
<1>1. facade \in Facades
  BY DEF TypeOK
<1>2. CASE facade.fading = 0
  BY <1>1, <1>2 DEF Committed, FadeEnds
<1>3. CASE facade.fading # 0 /\ FadeEnds
  <2>1. PICK f : f = Unfaded(facade)
    OBVIOUS
  <2>2. /\ f \in Facades /\ f.closed = facade.closed /\ f.disposed = facade.disposed
        /\ f.cleanup = facade.cleanup /\ f.serial = facade.serial
    BY <1>1, <2>1, UnfadedFacade
  <2>3. Committed = [f EXCEPT !.due = TRUE]
    BY <1>3, <2>1 DEF Committed
  <2> QED BY <2>2, <2>3 DEF Facades
<1>4. CASE facade.fading # 0 /\ ~FadeEnds
  <2>1. Committed = [facade EXCEPT !.fade = @ + 1, !.due = TRUE]
    BY <1>4 DEF Committed
  <2>2. facade.fade + 1 \in 0 .. FadeFrames
    BY <1>1, <1>4, ReflectionBounds DEF FadeEnds, Facades
  <2> QED BY <1>1, <2>1, <2>2 DEF Facades
<1> QED BY <1>2, <1>3, <1>4

\* The end of a frame's draw: some reads end, and the frame is committed.
LEMMA CommitStep ==
    ASSUME IInv, UNCHANGED <<front, generation, closed, gpu, worker, sources, faults>>,
           NEW S \in SUBSET Slots, \A i \in S : pairs[i].reader, NEW fence \in LastUse,
           pairs' = EndReads(pairs, S, fence), link' = link \/ link' = Woken(link),
           facade' = Committed, main' = [main EXCEPT !.pc = "idle"]
    PROVE  IInv'
<1>1. TypeOK /\ Framed
  BY DEF IInv
<1>2. /\ Typed(pairs') /\ SameJob(pairs, pairs') /\ SameState(pairs, pairs')
      /\ Fenced(pairs', capturing, drawing, worker.token)
  BY EndedReads
<1>3. Shows(pairs, pairs') /\ (front # 0 => pairs'[front].state = "displayed")
  BY <1>1, <1>2 DEF Shows, SameState, Framed, TypeOK
<1>4. link' \in Links /\ SameLink
  BY <1>1, LinkSame, WokenSame
<1>5. main' \in Mains /\ main'.pc = "idle"
  BY <1>1 DEF TypeOK, Mains, MainSteps
<1>6. /\ facade' \in Facades /\ facade'.serial = facade.serial /\ facade'.closed = facade.closed
      /\ facade'.disposed = facade.disposed /\ facade'.cleanup = facade.cleanup
  BY <1>1, CommittedFacade
<1>7. Framed'
  BY <1>1, <1>3, <1>4, <1>5, <1>6 DEF Framed, SameLink, gpu
<1>8. /\ capturing' = capturing /\ drawing' = drawing /\ drawing' \in Seq(SUBSET Slots)
      /\ \A i \in Slots : Drawing(i)' => Drawing(i)
  BY <1>1, SameQueues
<1>9. faults' \in 0 .. MaxFault /\ front' \in {0} \cup Slots
  BY <1>1 DEF TypeOK
<1> QED BY <1>2, <1>3, <1>4, <1>5, <1>6, <1>7, <1>8, <1>9, ShowStep

LEMMA FadingReads ==
    \A quarantine : Fading(quarantine) \in SUBSET Slots /\ \A i \in Fading(quarantine) : pairs[i].reader
BY ReadsRead DEF Fading

LEMMA DrawsCachedKeeps == ASSUME IInv, DrawsCached PROVE IInv'
<1>1. PICK fence \in LastUse :
          pairs' = IF FadeEnds THEN EndReads(pairs, Fading(facade.quarantine), fence) ELSE pairs
  BY DEF DrawsCached
<1>2. PICK S : S = IF FadeEnds THEN Fading(facade.quarantine) ELSE {}
  OBVIOUS
<1>3. S \in SUBSET Slots /\ \A i \in S : pairs[i].reader
  BY <1>2, FadingReads
<1>4. pairs' = EndReads(pairs, S, fence)
  <2>1. EndReads(pairs, {}, fence) = pairs
    BY DEF EndReads, IInv, TypeOK
  <2> QED BY <1>1, <1>2, <2>1
<1>5. link' = link \/ link' = Woken(link)
  BY DEF DrawsCached
<1> QED BY <1>3, <1>4, <1>5, CommitStep DEF DrawsCached

LEMMA EndsDrawKeeps == ASSUME IInv, EndsDraw PROVE IInv'
<1>1. PICK fence \in LastUse :
          pairs' = EndReads(pairs, Reads(facade.shown)
                                   \cup IF FadeEnds THEN Fading(facade.quarantine) ELSE {}, fence)
  BY DEF EndsDraw
<1>2. PICK S : S = Reads(facade.shown) \cup IF FadeEnds THEN Fading(facade.quarantine) ELSE {}
  OBVIOUS
<1>3. S \in SUBSET Slots /\ \A i \in S : pairs[i].reader
  BY <1>2, FadingReads, ReadsRead
<1> QED BY <1>1, <1>2, <1>3, CommitStep DEF EndsDraw

LEMMA DrawsKeeps == ASSUME IInv, Draws PROVE IInv'
<1>1. /\ TypeOK /\ Framed /\ main.pc = "draw" /\ drawing \in Seq(SUBSET Slots)
      /\ UNCHANGED <<front, generation, closed, capturing, link, worker, sources, faults>>
  BY DEF IInv, Draws, TypeOK
<1>2. link' \in Links /\ SameLink
  BY <1>1, LinkSame
<1>3. faults' \in 0 .. MaxFault /\ front' \in {0} \cup Slots
  BY <1>1 DEF TypeOK
<1>4. CASE Readable /\ ~facade.quarantine /\ pairs[front].job = facade.shown
  <2>1. /\ pairs' = ReadBegun(pairs, front) /\ main' = [main EXCEPT !.pc = "drawing"]
        /\ drawing' = Append(drawing, {front} \cup Reads(facade.fading)) /\ facade' = facade
    BY <1>4 DEF Draws
  <2>2. /\ front \in Slots /\ Typed(pairs') /\ SameState(pairs, pairs')
        /\ Shows(pairs, pairs') /\ Fenced(pairs', capturing, drawing, worker.token)
        /\ \A i \in Slots : (pairs'[i].reader <=> pairs[i].reader \/ i = front)
    BY <1>4, <2>1, ReadFront
  <2>3. PICK S : S = {front} \cup Reads(facade.fading)
    OBVIOUS
  <2>4. S \in SUBSET Slots /\ \A i \in S : pairs'[i].reader /\ (i = front \/ pairs[i].reader)
    BY <2>2, <2>3, ReadsRead
  <2>5. Fenced(pairs', capturing, Append(drawing, S), worker.token)
    BY <1>1, <2>2, <2>4, SampleKeeps
  <2>6. drawing' = Append(drawing, S) /\ drawing' \in Seq(SUBSET Slots)
    BY <1>1, <2>1, <2>3, <2>4
  <2>7. ASSUME NEW i \in Slots, pairs[i].state = "draining", Drawing(i)' PROVE Drawing(i)
    <3>1. i \notin S
      <4>1. pairs[i].state \notin {"displayed"} /\ ~pairs[i].reader
        BY <2>7 DEF IInv, Fenced, Sane
      <4> QED BY <1>4, <2>4, <4>1 DEF Readable
    <3>2. /\ Len(Append(drawing, S)) = Len(drawing) + 1 /\ Len(drawing) \in Nat
          /\ \A k \in 1 .. Len(drawing) : Append(drawing, S)[k] = drawing[k]
          /\ Append(drawing, S)[Len(drawing) + 1] = S
      BY <1>1, <2>4
    <3> QED BY <2>6, <2>7, <3>1, <3>2 DEF Drawing
  <2>8. main' \in Mains /\ main'.pc = "drawing"
    BY <1>1, <2>1 DEF TypeOK, Mains, MainSteps
  <2>9. Framed'
    BY <1>1, <2>1, <2>2, <2>8 DEF Framed, SameState
  <2> QED BY <1>1, <1>2, <1>3, <2>1, <2>2, <2>5, <2>6, <2>7, <2>8, <2>9, ShowStep DEF TypeOK
<1>5. CASE ~(Readable /\ ~facade.quarantine /\ pairs[front].job = facade.shown)
  <2>1. /\ facade' = [facade EXCEPT !.failed = TRUE] /\ main' = [main EXCEPT !.pc = "idle"]
        /\ UNCHANGED <<pairs, drawing>>
    BY <1>5 DEF Draws
  <2>2. /\ facade' \in Facades /\ SameFacade
    BY <1>1, <2>1 DEF TypeOK, Facades, SameFacade
  <2>3. main' \in Mains /\ main'.pc = "idle"
    BY <1>1, <2>1 DEF TypeOK, Mains, MainSteps
  <2>4. Framed'
    BY <1>1, <2>1, <2>2, <2>3 DEF Framed, SameFacade
  <2>5. Shows(pairs, pairs') /\ Fenced(pairs', capturing, drawing', worker.token)
    BY <1>1, <2>1 DEF Shows, Typed, SameJob, TypeOK, IInv
  <2>6. \A i \in Slots : Drawing(i)' => Drawing(i)
    BY <2>1 DEF Drawing
  <2> QED BY <1>1, <1>2, <1>3, <2>1, <2>2, <2>3, <2>4, <2>5, <2>6, ShowStep DEF SameFacade
<1> QED BY <1>4, <1>5

-----------------------------------------------------------------------------
(* Closing, cleaning up and the end.                                       *)

\* What becomes of the sources: nothing, or what was acknowledged is collected.
SourcesStay ==
    \/ UNCHANGED sources /\ link'.completed = link.completed
    \/ \E current \in BOOLEAN : Collects(current) /\ link'.completed = Collected.completed

LEMMA SourcesKept ==
    ASSUME IInv, SourcesStay, SameCalls, facade'.serial = facade.serial
    PROVE  /\ leases' \subseteq Serials /\ inputs' \subseteq Serials /\ deletions' \subseteq Serials
           /\ SameBusy /\ SameWork => Ledger'
<1>1. TypeOK /\ Ledger /\ \A i \in Slots : pairs[i].kept => InUse(i)
  BY DEF IInv, Fenced, Sane, InUse
<1>2. CASE UNCHANGED sources /\ link'.completed = link.completed
  BY <1>1, <1>2, LedgerStays DEF sources, TypeOK
<1>3. ASSUME NEW current \in BOOLEAN, Collects(current), link'.completed = Collected.completed
      PROVE  /\ leases' \subseteq Serials /\ inputs' \subseteq Serials /\ deletions' \subseteq Serials
             /\ SameBusy /\ SameWork => Ledger'
  BY <1>1, <1>3, CollectsTypes, CollectedLedger
<1> QED BY <1>2, <1>3 DEF SourcesStay

\* The mailbox and the GPU's queues are left alone.
LEMMA StillStep ==
    ASSUME IInv, UNCHANGED <<mailbox, gpu, worker>>, SourcesStay, SameCalls,
           link' \in Links, main' \in Mains, facade' \in Facades,
           facade'.serial = facade.serial, faults' \in 0 .. MaxFault, Framed'
    PROVE  IInv'
<1>1. TypeOK
  BY DEF IInv
<1>2. /\ capturing' = capturing /\ drawing' = drawing
      /\ capturing' \in Seq(Slots) /\ drawing' \in Seq(SUBSET Slots)
      /\ \A i \in Slots : (Capturing(i)' => Capturing(i)) /\ (Drawing(i)' => Drawing(i))
  BY <1>1, SameQueues
<1>3. Shows(pairs, pairs') /\ Fenced(pairs', capturing', drawing', worker.token)
  BY <1>1, <1>2 DEF Shows, Typed, SameJob, TypeOK, IInv, mailbox
<1>4. front' \in {0} \cup Slots /\ generation' \in Nat /\ closed' \in BOOLEAN /\ closed' = closed
  BY <1>1 DEF TypeOK, mailbox
<1>5. /\ leases' \subseteq Serials /\ inputs' \subseteq Serials /\ deletions' \subseteq Serials
      /\ SameBusy /\ SameWork => Ledger'
  BY SourcesKept
<1> QED BY <1>2, <1>3, <1>4, <1>5, RenderStep DEF SameCalls

\* The mailbox is closed.
LEMMA ClosingStep ==
    ASSUME IInv, UNCHANGED <<gpu, worker, sources>>, Close, SameLink,
           link' \in Links, main' \in Mains, facade' \in Facades,
           facade'.serial = facade.serial, faults' \in 0 .. MaxFault,
           (front' # 0 => pairs'[front'].state = "displayed") => Framed'
    PROVE  IInv'
<1>1. TypeOK /\ Framed /\ Fenced(pairs, capturing, drawing, worker.token)
  BY DEF IInv
<1>2. /\ Fenced(pairs', capturing, drawing, worker.token) /\ Shows(pairs, pairs')
      /\ closed' /\ generation' \in Nat /\ front' \in {0, front}
      /\ front' # 0 => pairs'[front'].state = "displayed"
  BY <1>1, CloseKeeps
<1>3. /\ capturing' = capturing /\ drawing' = drawing
      /\ capturing' \in Seq(Slots) /\ drawing' \in Seq(SUBSET Slots)
      /\ \A i \in Slots : (Capturing(i)' => Capturing(i)) /\ (Drawing(i)' => Drawing(i))
  BY <1>1, SameQueues
<1>4. front' \in {0} \cup Slots /\ closed' \in BOOLEAN
  <2>1. closed' \in BOOLEAN
    BY <1>1 DEF Close, TypeOK, mailbox
  <2> QED BY <1>1, <1>2, <2>1 DEF TypeOK
<1>5. /\ leases' \subseteq Serials /\ inputs' \subseteq Serials /\ deletions' \subseteq Serials
      /\ SameBusy /\ SameWork => Ledger'
  BY SourcesKept DEF SourcesStay, SameLink
<1> QED BY <1>2, <1>3, <1>4, <1>5, RenderStep DEF SameLink, SameCalls

\* Every draw is done, and the reads that are not held end.
LEMMA FinishingStep ==
    ASSUME IInv, UNCHANGED <<front, generation, closed, capturing, worker, faults>>, FinishesMain,
           main' \in Mains, facade' \in Facades, facade'.serial = facade.serial,
           (front' # 0 => pairs'[front'].state = "displayed") => Framed'
    PROVE  IInv'
<1>1. TypeOK /\ Framed /\ Fenced(pairs, capturing, drawing, worker.token) /\ Typed(pairs)
  BY DEF IInv, Typed, TypeOK
<1>2. PICK p : p = [i \in Slots |-> [pairs[i] EXCEPT !.consumer = IF @ > 0 THEN 0 ELSE @]]
  OBVIOUS
<1>3. /\ drawing' = <<>> /\ pairs' = EndReads(p, Unheld, NoFence)
      /\ link' = [Woken(Collected) EXCEPT !.host = \A i \in Slots : pairs[i].reader => i \in Unheld]
      /\ Collects(TRUE)
  BY <1>2 DEF FinishesMain
<1>4. AllDrawn(pairs, p) /\ Len(drawing) \in Nat
  BY <1>1, <1>2 DEF AllDrawn, TypeOK
<1>5. /\ Fenced(p, capturing, <<>>, worker.token) /\ Typed(p) /\ SameJob(pairs, p)
      /\ SameState(pairs, p) /\ SameUse(pairs, p)
  BY <1>1, <1>4, FinishedKeeps
<1>6. Unheld \in SUBSET Slots /\ \A i \in Unheld : p[i].reader
  BY <1>5 DEF Unheld, SameUse
<1>7. Fenced(pairs', capturing, <<>>, worker.token)
  <2>1. PICK d : d = <<>>
    OBVIOUS
  <2>2. d \in Seq(SUBSET Slots) /\ Fenced(p, capturing, d, worker.token)
    BY <1>5, <2>1
  <2>3. Fenced(pairs', capturing, d, worker.token)
    BY <1>3, <1>5, <1>6, <2>1, <2>2, EndReadsKeeps
  <2> QED BY <2>1, <2>3
<1>8. NoFence \in Fences
  BY DEF Fences
<1>9. /\ Typed(pairs') /\ SameJob(p, pairs') /\ SameState(p, pairs')
      /\ \A i \in Slots :
            /\ pairs'[i].poller = p[i].poller /\ pairs'[i].producer = p[i].producer
            /\ (pairs'[i].reader <=> p[i].reader /\ i \notin Unheld)
            /\ pairs'[i].consumer = IF i \in Unheld THEN NoFence ELSE p[i].consumer
  BY <1>3, <1>5, <1>6, <1>8, EndReadsPairs
<1>10. Shows(pairs, pairs') /\ (front' # 0 => pairs'[front'].state = "displayed")
  BY <1>1, <1>5, <1>9 DEF Shows, SameJob, SameState, Framed, TypeOK
<1>11. /\ link' \in Links /\ link'.pending = link.pending /\ link'.completed = Collected.completed
       /\ (link'.abandoned <=> link.abandoned) /\ (link'.accepting => link.accepting)
  <2>1. PICK m : m = Woken(Collected)
    OBVIOUS
  <2>2. /\ m \in Links /\ m.pending = link.pending /\ m.completed = Collected.completed
        /\ (m.abandoned <=> link.abandoned) /\ (m.accepting => link.accepting)
    BY <1>1, <2>1, CollectedLink, WokenLink
  <2>3. PICK host \in BOOLEAN : link' = [m EXCEPT !.host = host]
    BY <1>3, <2>1
  <2> QED BY <2>2, <2>3 DEF Links
<1>12. SameCalls
  BY <1>11 DEF SameCalls, IInv, Ledger, Owned
<1>13. /\ leases' \subseteq Serials /\ inputs' \subseteq Serials /\ deletions' \subseteq Serials
       /\ SameBusy /\ SameWork => Ledger'
  <2>1. SourcesStay
    BY <1>3, <1>11, TRUE \in BOOLEAN DEF SourcesStay
  <2> QED BY <1>12, <2>1, SourcesKept
<1>14. /\ drawing' \in Seq(SUBSET Slots) /\ capturing' \in Seq(Slots)
       /\ \A i \in Slots : (Capturing(i)' => Capturing(i)) /\ (Drawing(i)' => Drawing(i))
  BY <1>1, <1>3 DEF TypeOK, Capturing, Drawing
<1>15. /\ front' \in {0} \cup Slots /\ generation' \in Nat /\ closed' \in BOOLEAN
       /\ faults' \in 0 .. MaxFault
  BY <1>1 DEF TypeOK
<1>16. Framed'
  BY <1>3, <1>10
<1> QED BY <1>3, <1>7, <1>10, <1>11, <1>13, <1>14, <1>15, <1>16, RenderStep

LEMMA CleaningFacade ==
    ASSUME NEW f \in Facades, NEW g, g = Cleaning(f)
    PROVE  /\ g \in Facades /\ g.closed = f.closed /\ g.disposed = f.disposed /\ g.serial = f.serial
<1>1. (f.cleanup \/ (~f.retired /\ ~f.quarantine)) \in BOOLEAN
  OBVIOUS
<1> QED BY <1>1 DEF Cleaning, Facades

LEMMA WithdrawnFacade ==
    ASSUME NEW f \in Facades, NEW g, g = Withdrawn(f)
    PROVE  /\ g \in Facades /\ g.closed /\ g.disposed = f.disposed /\ g.serial = f.serial
<1>1. PICK u : u = Unfaded(f)
  OBVIOUS
<1>2. /\ u \in Facades /\ u.disposed = f.disposed /\ u.serial = f.serial
  BY <1>1, UnfadedFacade
<1>3. PICK cleanup \in BOOLEAN :
         g = [u EXCEPT !.closed = TRUE, !.busy = FALSE, !.arrived = FALSE, !.cleanup = cleanup]
  <2>1. (u.cleanup \/ (Reads(facade.fading) # {} /\ ~f.retired /\ ~f.quarantine)) \in BOOLEAN
    OBVIOUS
  <2> QED BY <1>1, <2>1 DEF Withdrawn
<1> QED BY <1>2, <1>3 DEF Facades

LEMMA ClosingMain ==
    ASSUME main \in Mains, NEW then \in {"idle", "cleanup", "quit", "lost"}, NEW m, m = Closing(then)
    PROVE  m \in Mains /\ m.pc = "closing"
BY DEF Mains, MainSteps, Closing

LEMMA StoppedSame ==
    ASSUME TypeOK, Ledger, link' = Stopped(Collected) \/ link' = Collected
    PROVE  /\ link' \in Links /\ SameCalls /\ link'.completed = Collected.completed
           /\ (link'.host <=> link.host)
<1>1. /\ Collected \in Links /\ Collected.pending = link.pending
      /\ (Collected.abandoned <=> link.abandoned) /\ (Collected.host <=> link.host)
      /\ (Collected.accepting <=> link.accepting)
  BY CollectedLink
<1>2. PICK l : l = Collected
  OBVIOUS
<1>3. /\ link' \in Links /\ link'.pending = l.pending /\ link'.completed = l.completed
      /\ (link'.abandoned <=> l.abandoned) /\ (link'.host <=> l.host)
      /\ (link'.accepting => l.accepting)
  BY <1>1, <1>2, WokenLink
<1> QED BY <1>1, <1>2, <1>3 DEF SameCalls, Ledger, Owned

LEMMA DisablesKeeps == ASSUME IInv, Disables PROVE IInv'
<1>1. /\ TypeOK /\ Framed /\ main \in Mains /\ facade \in Facades /\ main.pc = "idle"
      /\ UNCHANGED <<mailbox, gpu, worker, sources, faults>>
  BY DEF IInv, TypeOK, Disables
<1>2. link' \in Links /\ SameLink
  BY WokenSame DEF Disables
<1>3. main' \in Mains /\ main'.pc = "closing"
  BY <1>1, ClosingMain DEF Disables
<1>4. /\ facade' \in Facades /\ facade'.closed /\ facade'.disposed = facade.disposed
      /\ facade'.serial = facade.serial
  <2>1. PICK g : g = Withdrawn(facade)
    OBVIOUS
  <2>2. /\ g \in Facades /\ g.closed /\ g.disposed = facade.disposed /\ g.serial = facade.serial
    BY <1>1, <2>1, WithdrawnFacade
  <2>3. facade' = [g EXCEPT !.arrived = facade.arrived] /\ facade.arrived \in BOOLEAN
    BY <1>1, <2>1 DEF Disables, Facades
  <2> QED BY <2>2, <2>3 DEF Facades
<1>5. Framed'
  BY <1>1, <1>2, <1>3, <1>4 DEF Framed, SameLink, mailbox, gpu
<1>6. faults' \in 0 .. MaxFault
  BY <1>1 DEF TypeOK
<1> QED BY <1>1, <1>2, <1>3, <1>4, <1>5, <1>6, StillStep DEF SameLink, SourcesStay

LEMMA ClosesMailboxKeeps == ASSUME IInv, ClosesMailbox PROVE IInv'
<1>1. /\ TypeOK /\ Framed /\ main \in Mains /\ facade \in Facades /\ facade.closed
      /\ Close /\ UNCHANGED <<gpu, link, worker, sources, faults>>
  BY DEF IInv, TypeOK, ClosesMailbox, Framed
<1>2. link' \in Links /\ SameLink
  BY <1>1, LinkSame
<1>3. main' \in Mains /\ main'.pc \in {"finish", "idle"}
  BY <1>1 DEF ClosesMailbox, Mains, MainSteps
<1>4. /\ facade' \in Facades /\ facade'.closed /\ facade'.disposed = facade.disposed
      /\ facade'.serial = facade.serial
  <2>1. CASE facade' = facade
    BY <1>1, <2>1
  <2>2. CASE facade' = Cleaning(facade)
    BY <1>1, <2>2, CleaningFacade
  <2> QED BY <2>1, <2>2 DEF ClosesMailbox
<1>5. (front' # 0 => pairs'[front'].state = "displayed") => Framed'
  BY <1>1, <1>2, <1>3, <1>4 DEF Framed, SameLink, gpu
<1>6. faults' \in 0 .. MaxFault
  BY <1>1 DEF TypeOK
<1> QED BY <1>1, <1>2, <1>3, <1>4, <1>5, <1>6, ClosingStep

LEMMA ArrivesKeeps == ASSUME IInv, Arrives PROVE IInv'
<1>1. /\ TypeOK /\ Framed /\ Ledger /\ main \in Mains /\ facade \in Facades /\ main.pc = "idle"
      /\ Collects(FALSE) /\ UNCHANGED <<mailbox, gpu, worker, faults>>
  BY DEF IInv, TypeOK, Arrives
<1>2. PICK left : left = [Synced EXCEPT !.arrived = FALSE]
  OBVIOUS
<1>3. /\ left \in Facades /\ left.closed = facade.closed /\ left.disposed = facade.disposed
      /\ left.cleanup = facade.cleanup /\ left.serial = facade.serial
  <2>1. PICK f : f = Synced
    OBVIOUS
  <2>2. /\ f \in Facades /\ f.closed = facade.closed /\ f.disposed = facade.disposed
        /\ f.cleanup = facade.cleanup /\ f.serial = facade.serial
    BY <1>1, <2>1, SyncedFacade
  <2> QED BY <1>2, <2>1, <2>2 DEF Facades
<1>4. \/ /\ ~link.failure /\ facade' = [left EXCEPT !.due = @ \/ ~facade.closed]
         /\ link' = Collected /\ main' = main
      \/ /\ link.failure /\ facade.closed /\ facade' = Cleaning(left)
         /\ link' = Collected /\ main' = main
      \/ /\ facade' = Withdrawn(left) /\ link' = Stopped(Collected) /\ main' = Closing("cleanup")
  BY <1>2 DEF Arrives
<1>5. /\ link' \in Links /\ SameCalls /\ link'.completed = Collected.completed
      /\ (link'.host <=> link.host)
  BY <1>1, <1>4, StoppedSame
<1>6. /\ facade' \in Facades /\ facade'.serial = facade.serial /\ main' \in Mains
      /\ facade'.disposed = facade.disposed
      /\ \/ main' = main /\ facade'.closed = facade.closed /\ facade'.cleanup = facade.cleanup
         \/ main' = main /\ facade.closed /\ facade'.closed
         \/ main'.pc = "closing" /\ facade'.closed
  <2>1. CASE /\ facade' = [left EXCEPT !.due = @ \/ ~facade.closed] /\ main' = main
    <3>1. PICK due \in BOOLEAN : facade' = [left EXCEPT !.due = due]
      <4>1. (left.due \/ ~facade.closed) \in BOOLEAN
        OBVIOUS
      <4> QED BY <2>1, <4>1
    <3> QED BY <1>1, <1>3, <2>1, <3>1 DEF Facades
  <2>2. CASE facade.closed /\ facade' = Cleaning(left) /\ main' = main
    BY <1>1, <1>3, <2>2, CleaningFacade
  <2>3. CASE facade' = Withdrawn(left) /\ main' = Closing("cleanup")
    BY <1>1, <1>3, <2>3, WithdrawnFacade, ClosingMain
  <2> QED BY <1>4, <2>1, <2>2, <2>3
<1>7. Framed'
  BY <1>1, <1>5, <1>6 DEF Framed, mailbox, gpu
<1>8. faults' \in 0 .. MaxFault /\ SourcesStay
  BY <1>1, <1>5, FALSE \in BOOLEAN DEF TypeOK, SourcesStay
<1> QED BY <1>1, <1>5, <1>6, <1>7, <1>8, StillStep

LEMMA AbandonedLink ==
    ASSUME TypeOK, Ledger, link' = Abandoned(link)
    PROVE  link' \in Links /\ SameLink
BY DEF TypeOK, Abandoned, Stopped, Links, SameLink, SameCalls, Ledger, Owned

LEMMA CleansUpKeeps == ASSUME IInv, CleansUp PROVE IInv'
<1>1. /\ TypeOK /\ Framed /\ Ledger /\ main \in Mains /\ facade \in Facades /\ main.pc = "idle"
      /\ (facade.closed \/ facade.disposed) /\ UNCHANGED <<capturing, worker, main>>
  BY DEF IInv, TypeOK, CleansUp, Framed
<1>2. main' \in Mains
  BY <1>1
<1>3. CASE /\ facade' = [Synced EXCEPT !.cleanup = FALSE]
           /\ UNCHANGED <<mailbox, drawing, link, sources, faults>>
  <2>1. PICK f : f = Synced
    OBVIOUS
  <2>2. /\ f \in Facades /\ f.closed = facade.closed /\ f.disposed = facade.disposed
        /\ f.serial = facade.serial
    BY <1>1, <2>1, SyncedFacade
  <2>3. /\ facade' \in Facades /\ facade'.closed = facade.closed /\ facade'.disposed = facade.disposed
        /\ facade'.serial = facade.serial /\ ~facade'.cleanup
    BY <1>3, <2>1, <2>2 DEF Facades
  <2>4. link' \in Links /\ SameLink
    BY <1>1, <1>3, LinkSame
  <2>5. Framed'
    BY <1>1, <1>3, <2>3 DEF Framed, mailbox
  <2>6. faults' \in 0 .. MaxFault
    BY <1>1, <1>3 DEF TypeOK
  <2> QED BY <1>1, <1>2, <1>3, <2>3, <2>4, <2>5, <2>6, StillStep DEF SameLink, SourcesStay, gpu
<1>4. CASE /\ FinishesMain /\ facade' = [facade EXCEPT !.cleanup = FALSE]
           /\ UNCHANGED <<front, generation, closed, faults>>
  <2>1. /\ facade' \in Facades /\ facade'.closed = facade.closed /\ facade'.disposed = facade.disposed
        /\ facade'.serial = facade.serial /\ ~facade'.cleanup
    BY <1>1, <1>4 DEF Facades
  <2>2. ASSUME front' # 0 => pairs'[front'].state = "displayed"
        PROVE  Framed'
    <3>1. /\ main' = main /\ main.pc = "idle" /\ (facade'.closed \/ facade'.disposed)
          /\ drawing' = <<>>
      BY <1>1, <1>4, <2>1 DEF FinishesMain
    <3> QED BY <2>1, <2>2, <3>1 DEF Framed
  <2>3. UNCHANGED <<front, generation, closed, capturing, worker, faults>> /\ FinishesMain
    BY <1>1, <1>4
  <2> QED BY <1>2, <2>1, <2>2, <2>3, FinishingStep
<1>5. CASE Fault /\ Abandons /\ facade' = [facade EXCEPT !.cleanup = FALSE, !.quarantine = TRUE]
  <2>1. /\ facade' \in Facades /\ facade'.closed = facade.closed /\ facade'.disposed = facade.disposed
        /\ facade'.serial = facade.serial /\ ~facade'.cleanup
    BY <1>1, <1>5 DEF Facades
  <2>2. link' \in Links /\ SameLink
    BY <1>1, <1>5, AbandonedLink DEF Abandons
  <2>3. Close /\ UNCHANGED <<drawing, sources>>
    BY <1>5 DEF Abandons
  <2>4. faults' \in 0 .. MaxFault
    BY <1>1, <1>5, FaultType
  <2>5. (front' # 0 => pairs'[front'].state = "displayed") => Framed'
    BY <1>1, <2>1, <2>2, <2>3 DEF Framed, SameLink
  <2> QED BY <1>1, <1>2, <2>1, <2>2, <2>3, <2>4, <2>5, ClosingStep DEF gpu
<1> QED BY <1>3, <1>4, <1>5 DEF CleansUp

LEMMA FinishesKeeps == ASSUME IInv, Finishes PROVE IInv'
<1>1. /\ TypeOK /\ Framed /\ Ledger /\ main \in Mains /\ facade \in Facades /\ main.pc = "idle"
      /\ Collects(FALSE) /\ link' = Collected /\ UNCHANGED <<mailbox, gpu, worker, main, faults>>
  BY DEF IInv, TypeOK, Finishes
<1>2. /\ link' \in Links /\ SameCalls /\ link'.completed = Collected.completed
      /\ (link'.host <=> link.host)
  BY <1>1, StoppedSame
<1>3. PICK f : f = Synced
  OBVIOUS
<1>4. PICK g : g = IF deletions' # {} THEN Cleaning(f) ELSE f
  OBVIOUS
<1>5. /\ f \in Facades /\ f.closed = facade.closed /\ f.disposed = facade.disposed
      /\ f.cleanup = facade.cleanup /\ f.serial = facade.serial
  BY <1>1, <1>3, SyncedFacade
<1>6. g \in Facades /\ g.serial = facade.serial
  BY <1>4, <1>5, CleaningFacade
<1>7. facade' = [g EXCEPT !.disposed = TRUE]
  BY <1>3, <1>4 DEF Finishes
<1>8. facade' \in Facades /\ facade'.serial = facade.serial /\ facade'.disposed
  BY <1>6, <1>7 DEF Facades
<1>9. facade.closed => facade'.closed
  <2>1. g.closed = f.closed
    BY <1>4, <1>5, CleaningFacade
  <2> QED BY <1>5, <1>6, <1>7, <2>1 DEF Facades
<1>10. Framed'
  BY <1>1, <1>2, <1>8, <1>9 DEF Framed, mailbox, gpu
<1>11. faults' \in 0 .. MaxFault /\ SourcesStay /\ main' \in Mains
  BY <1>1, <1>2, FALSE \in BOOLEAN DEF TypeOK, SourcesStay
<1> QED BY <1>1, <1>2, <1>8, <1>10, <1>11, StillStep

LEMMA TearsDownKeeps == ASSUME IInv, TearsDown PROVE IInv'
<1>1. /\ TypeOK /\ Framed /\ main \in Mains /\ facade \in Facades /\ main.pc = "idle"
      /\ UNCHANGED <<mailbox, gpu, worker, sources, faults>>
  BY DEF IInv, TypeOK, TearsDown
<1>2. PICK then \in {"quit", "lost"} :
          IF facade.closed
          THEN /\ main' = [main EXCEPT !.pc = "finish", !.then = then]
               /\ UNCHANGED <<link, facade>>
          ELSE /\ facade' = [Withdrawn(facade) EXCEPT !.arrived = facade.arrived]
               /\ link' = Stopped(link)
               /\ main' = Closing(then)
  BY DEF TearsDown
<1>3. link' \in Links /\ SameLink
  BY <1>1, <1>2, LinkSame, WokenSame
<1>4. main' \in Mains /\ main'.pc \in {"closing", "finish"}
  <2>1. CASE facade.closed
    BY <1>1, <1>2, <2>1 DEF Mains, MainSteps
  <2>2. CASE ~facade.closed
    BY <1>1, <1>2, <2>2, ClosingMain
  <2> QED BY <2>1, <2>2
<1>5. /\ facade' \in Facades /\ facade'.closed /\ facade'.disposed = facade.disposed
      /\ facade'.serial = facade.serial
  <2>1. PICK g : g = Withdrawn(facade)
    OBVIOUS
  <2>2. /\ g \in Facades /\ g.closed /\ g.disposed = facade.disposed /\ g.serial = facade.serial
    BY <1>1, <2>1, WithdrawnFacade
  <2>3. \/ facade.closed /\ facade' = facade
        \/ facade' = [g EXCEPT !.arrived = facade.arrived] /\ facade.arrived \in BOOLEAN
    BY <1>1, <1>2, <2>1 DEF Facades
  <2> QED BY <1>1, <2>2, <2>3 DEF Facades
<1>6. Framed'
  BY <1>1, <1>3, <1>4, <1>5 DEF Framed, SameLink, mailbox, gpu
<1>7. faults' \in 0 .. MaxFault
  BY <1>1 DEF TypeOK
<1> QED BY <1>1, <1>3, <1>4, <1>5, <1>6, <1>7, StillStep DEF SameLink, SourcesStay

LEMMA FinishesContextKeeps == ASSUME IInv, FinishesContext PROVE IInv'
<1>1. /\ TypeOK /\ Framed /\ Ledger /\ main \in Mains /\ facade \in Facades /\ main.pc = "finish"
      /\ facade.closed /\ UNCHANGED <<capturing, worker>>
  BY DEF IInv, TypeOK, FinishesContext, Framed
<1>2. CASE /\ FinishesMain /\ main' = [main EXCEPT !.pc = "wait"]
           /\ UNCHANGED <<front, generation, closed, facade, faults>>
  <2>1. main' \in Mains /\ main'.pc = "wait"
    BY <1>1, <1>2 DEF Mains, MainSteps
  <2>2. facade' \in Facades /\ facade' = facade
    BY <1>1, <1>2
  <2>3. ASSUME front' # 0 => pairs'[front'].state = "displayed"
        PROVE  Framed'
    <3>1. drawing' = <<>>
      BY <1>2 DEF FinishesMain
    <3> QED BY <1>1, <2>1, <2>2, <2>3, <3>1 DEF Framed
  <2>4. UNCHANGED <<front, generation, closed, capturing, worker, faults>> /\ FinishesMain
    BY <1>1, <1>2
  <2> QED BY <2>1, <2>2, <2>3, <2>4, FinishingStep
<1>3. CASE /\ IF facade.quarantine THEN UNCHANGED faults ELSE ~facade.retired /\ Fault
           /\ Abandons
           /\ facade' = [facade EXCEPT !.quarantine = TRUE, !.retired = @ \/ main.then = "lost"]
           /\ main' = [main EXCEPT !.pc = IF main.then = "quit" THEN "wait" ELSE "idle",
                                   !.then = IF @ = "quit" THEN @ ELSE "idle"]
  <2>1. main' \in Mains /\ main'.pc \in {"wait", "idle"}
    BY <1>1, <1>3 DEF Mains, MainSteps
  <2>2. /\ facade' \in Facades /\ facade'.closed /\ facade'.disposed = facade.disposed
        /\ facade'.serial = facade.serial
    <3>1. PICK retired \in BOOLEAN :
             facade' = [facade EXCEPT !.quarantine = TRUE, !.retired = retired]
      <4>1. (facade.retired \/ main.then = "lost") \in BOOLEAN
        OBVIOUS
      <4> QED BY <1>3, <4>1
    <3> QED BY <1>1, <3>1 DEF Facades
  <2>3. link' \in Links /\ SameLink
    BY <1>1, <1>3, AbandonedLink DEF Abandons
  <2>4. Close /\ UNCHANGED <<drawing, sources>>
    BY <1>3 DEF Abandons
  <2>5. faults' \in 0 .. MaxFault
    BY <1>1, <1>3, FaultType DEF TypeOK
  <2>6. (front' # 0 => pairs'[front'].state = "displayed") => Framed'
    BY <1>1, <2>1, <2>2, <2>3, <2>4 DEF Framed, SameLink
  <2> QED BY <1>1, <2>1, <2>2, <2>3, <2>4, <2>5, <2>6, ClosingStep DEF gpu
<1>4. CASE /\ main' = [main EXCEPT !.pc = "wait"]
           /\ UNCHANGED <<mailbox, drawing, link, sources, facade, faults>>
  <2>1. main' \in Mains /\ main'.pc = "wait"
    BY <1>1, <1>4 DEF Mains, MainSteps
  <2>2. link' \in Links /\ SameLink
    BY <1>1, <1>4, LinkSame
  <2>3. facade' \in Facades /\ facade' = facade
    BY <1>1, <1>4
  <2>4. Framed'
    BY <1>1, <1>4, <2>1, <2>2, <2>3 DEF Framed, mailbox
  <2>5. faults' \in 0 .. MaxFault
    BY <1>1, <1>4 DEF TypeOK
  <2> QED BY <1>1, <1>4, <2>1, <2>2, <2>3, <2>4, <2>5, StillStep DEF SameLink, SourcesStay, gpu
<1> QED BY <1>2, <1>3, <1>4 DEF FinishesContext

LEMMA JoinsKeeps == ASSUME IInv, Joins PROVE IInv'
<1>1. /\ TypeOK /\ Framed /\ Ledger /\ main \in Mains /\ facade \in Facades /\ main.pc = "wait"
      /\ facade.closed /\ Collects(~facade.retired) /\ link' = Collected
      /\ UNCHANGED <<mailbox, gpu, worker, faults>>
  BY DEF IInv, TypeOK, Joins, Framed
<1>2. /\ link' \in Links /\ SameCalls /\ link'.completed = Collected.completed
      /\ (link'.host <=> link.host)
  BY <1>1, StoppedSame
<1>3. PICK f : f = Synced
  OBVIOUS
<1>4. f \in Facades /\ f.closed = facade.closed /\ f.serial = facade.serial
  BY <1>1, <1>3, SyncedFacade
<1>5. PICK retired \in BOOLEAN, disposed \in BOOLEAN :
          facade' = [f EXCEPT !.retired = retired, !.disposed = disposed]
  <2>1. (f.retired \/ main.then = "lost") \in BOOLEAN /\ (f.disposed \/ main.then = "quit") \in BOOLEAN
    OBVIOUS
  <2>2. facade' = [f EXCEPT !.retired = f.retired \/ main.then = "lost",
                            !.disposed = f.disposed \/ main.then = "quit"]
    BY <1>3, <1>4 DEF Joins, Facades
  <2> QED BY <2>1, <2>2
<1>6. facade' \in Facades /\ facade'.serial = facade.serial /\ facade'.closed
  BY <1>1, <1>4, <1>5 DEF Facades
<1>7. main' \in Mains /\ main'.pc = "idle"
  BY <1>1 DEF Joins, Mains, MainSteps
<1>8. Framed'
  BY <1>1, <1>2, <1>6, <1>7 DEF Framed, mailbox, gpu
<1>9. faults' \in 0 .. MaxFault /\ SourcesStay
  <2>1. (~facade.retired) \in BOOLEAN
    BY <1>1 DEF Facades
  <2> QED BY <1>1, <1>2, <2>1 DEF TypeOK, SourcesStay
<1> QED BY <1>1, <1>2, <1>6, <1>7, <1>8, <1>9, StillStep

LEMMA InitKeeps == ASSUME Init PROVE IInv
<1> USE ReflectionBounds DEF Init, MailboxInit
<1>1. TypeOK
  <2>1. pairs \in [Slots -> Pairs] /\ front \in {0} \cup Slots /\ generation \in Nat /\ closed \in BOOLEAN
    BY FreePairType
  <2>2. drawing \in Seq(SUBSET Slots) /\ capturing \in Seq(Slots)
    OBVIOUS
  <2>3. link \in Links
    BY DEF Links, Serials
  <2>4. worker \in Workers
    BY DEF Workers, WorkerSteps
  <2>5. main \in Mains
    BY DEF Mains, MainSteps
  <2>6. facade \in Facades
    BY DEF Facades
  <2> QED BY <2>1, <2>2, <2>3, <2>4, <2>5, <2>6 DEF TypeOK
<1>2. Fenced(pairs, capturing, drawing, worker.token)
  <2>1. \A i \in Slots : pairs[i] = FreePair
    OBVIOUS
  <2>2. \A i \in Slots : Sane(pairs[i]) /\ Behind(pairs[i], capturing, drawing)
    BY <2>1 DEF FreePair, Sane, Behind, NoFence
  <2> QED BY <2>2 DEF Fenced, Captured, Read
<1>3. Placed
  BY DEF Placed, Place, Builds, Removes, Capturing, Drawing
<1>4. Framed
  BY DEF Framed
<1>5. \A i \in Slots : ~InUse(i) /\ ~pairs[i].kept /\ pairs[i].job = 0
  BY DEF InUse, FreePair
<1>6. Done = {} /\ Kept = {}
  BY DEF Done, Kept
<1>7. Apart
  BY <1>5, <1>6 DEF Apart
<1>8. Owned
  <2>1. Held \subseteq leases
    BY <1>5 DEF Held, In, InUse
  <2> QED BY <1>5, <1>6, <2>1 DEF Owned, Serials
<1> QED BY <1>1, <1>2, <1>3, <1>4, <1>7, <1>8 DEF IInv, Ledger

LEMMA StutterKeeps == ASSUME IInv, UNCHANGED vars PROVE IInv'
BY DEF IInv, vars, TypeOK, Fenced, Captured, Read, Placed, Place, Capturing, Drawing, Framed,
       Ledger, Apart, Owned, InUse, Done, Kept, Held, In, Drained, sources

\* Every step keeps the invariant, whoever takes it.
LEMMA NextKeeps == ASSUME IInv, [Next]_vars PROVE IInv'
<1>1. CASE Frame
  BY <1>1, AsksFenceKeeps, AdoptKeeps, KeepsWaitingKeeps, SubmitsKeeps, DrawsCachedKeeps,
     DrawsKeeps, EndsDrawKeeps DEF Frame
<1>2. CASE Teardown
  BY <1>2, ClosesMailboxKeeps, FinishesContextKeeps, JoinsKeeps DEF Teardown
<1> QED BY <1>1, <1>2, GpuDrawsKeeps, GpuCapturesKeeps, WorkKeeps, SameSceneKeeps,
           ChangesSceneKeeps, DefersKeeps, DisablesKeeps, ArrivesKeeps, CleansUpKeeps, FinishesKeeps,
           TearsDownKeeps, StutterKeeps DEF Next

\* The invariant holds in every behaviour.
LEMMA Inductive == Spec => []IInv
<1>1. Init => IInv
  BY InitKeeps
<1>2. IInv /\ [Next]_vars => IInv'
  BY NextKeeps
<1> QED BY <1>1, <1>2, PTL DEF Spec

-----------------------------------------------------------------------------
(* The theorems.                                                           *)

\* Every field keeps its type, in every interleaving of the two threads and the GPU.
THEOREM ReflectionsTypeCorrect == Spec => []TypeOK
<1>1. IInv => TypeOK
  BY DEF IInv
<1> QED BY <1>1, Inductive, PTL

\* The GPU's queues hold no more than the fences say, and the fences exclude each other.
LEMMA Quiet == ASSUME IInv PROVE MapsAreQuiet
<1>1. /\ \A i \in Slots : Sane(pairs[i]) /\ Behind(pairs[i], capturing, drawing)
      /\ Captured(pairs, capturing, worker.token) /\ Read(pairs, drawing)
      /\ Placed /\ TypeOK /\ worker \in Workers
  BY DEF IInv, Fenced, TypeOK
<1>2. ASSUME NEW i \in Sampled
      PROVE  i \in Slots /\ (pairs[i].reader \/ pairs[i].consumer # NoFence)
  <2>1. PICK k \in 1 .. Len(drawing) : i \in drawing[k]
    BY <1>1, <1>2 DEF Sampled, TypeOK
  <2>2. i \in Slots
    BY <1>1, <2>1 DEF TypeOK
  <2>3. pairs[i].reader \/ pairs[i].consumer >= k
    BY <1>1, <2>1, <2>2 DEF Read
  <2> QED BY <2>2, <2>3 DEF NoFence
<1>3. ASSUME NEW i \in Written
      PROVE  i \in Slots /\ (i = worker.token \/ pairs[i].producer # NoFence)
  <2>1. PICK k \in 1 .. Len(capturing) : i = capturing[k]
    BY <1>1, <1>3 DEF Written, TypeOK
  <2>2. i \in Slots
    BY <1>1, <2>1 DEF TypeOK
  <2>3. i = worker.token \/ pairs[i].producer >= k
    BY <1>1, <2>1, <2>2 DEF Captured
  <2> QED BY <2>2, <2>3 DEF NoFence
<1>4. ASSUME NEW i \in Slots, i = worker.token PROVE pairs[i].state = "building"
  BY <1>1, <1>4 DEF Placed, Slots
<1>5. ASSUME NEW i \in Sampled PROVE pairs[i].state \notin {"free", "building", "ready"} /\ i \notin Written
  <2>1. i \in Slots /\ pairs[i].state \notin {"free", "building", "ready"} /\ pairs[i].producer = NoFence
    BY <1>1, <1>2, <1>5 DEF Sane
  <2> QED BY <1>3, <1>4, <2>1
<1>6. ASSUME NEW i \in Written PROVE pairs[i].state # "free"
  BY <1>1, <1>3, <1>4, <1>6 DEF Sane
<1>7. ASSUME worker.pc = "gone", ~link.abandoned PROVE Sampled = {} /\ Written = {}
  <2>1. \A i \in Slots : pairs[i].state = "free"
    BY <1>1, <1>7 DEF Placed, Drained, In
  <2> QED BY <1>2, <1>3, <1>5, <1>6, <2>1
<1> QED BY <1>5, <1>6, <1>7 DEF MapsAreQuiet

\* No map is sampled while it is written, whatever the threads, the GPU, a close or a
\* driver error do in between; and a worker that left of itself leaves the GPU nothing.
THEOREM MapsStayQuiet == Spec => []MapsAreQuiet
<1>1. IInv => MapsAreQuiet
  BY Quiet
<1> QED BY <1>1, Inductive, PTL

\* Who owns the input fence of job s.
Owns(o, s) ==
    \/ o = <<"pending">> /\ s = link.pending
    \/ o = <<"worker">> /\ s = worker.job /\ worker.kept
    \/ \E i \in Slots : o = <<"pair", i>> /\ pairs[i].kept /\ pairs[i].job = s
    \/ o = <<"completed">> /\ s \in Kept
    \/ o = <<"deletions">> /\ s \in deletions

LEMMA OwnersOwn ==
    ASSUME TypeOK, NEW s PROVE \A o : o \in Owners(s) <=> Owns(o, s)
<1>1. worker.kept \in BOOLEAN
  BY DEF TypeOK, Workers
<1>2. \A o : o \in {<<"pending">> : x \in {link.pending} \cap {s}} <=> o = <<"pending">> /\ s = link.pending
  OBVIOUS
<1>3. \A o : o \in {<<"worker">> : x \in {worker.job : y \in {worker.kept} \cap {TRUE}} \cap {s}}
             <=> o = <<"worker">> /\ s = worker.job /\ worker.kept
  BY <1>1
<1>4. \A o : o \in {<<"pair", i>> : i \in {j \in Slots : pairs[j].kept /\ pairs[j].job = s}}
             <=> \E i \in Slots : o = <<"pair", i>> /\ pairs[i].kept /\ pairs[i].job = s
  OBVIOUS
<1>5. \A o : o \in {<<"completed">> : x \in {c \in link.completed : c.kept /\ c.serial = s}}
             <=> o = <<"completed">> /\ s \in Kept
  BY DEF Kept
<1>6. \A o : o \in {<<"deletions">> : x \in deletions \cap {s}} <=> o = <<"deletions">> /\ s \in deletions
  OBVIOUS
<1> QED BY <1>2, <1>3, <1>4, <1>5, <1>6 DEF Owners, Owns

LEMMA OneOwns ==
    ASSUME NEW s, NEW e, \A o : o \in Owners(s) <=> Owns(o, s), \A o : Owns(o, s) <=> o = e
    PROVE  Cardinality(Owners(s)) = 1
<1>1. \A o : o \in Owners(s) <=> o = e
  OBVIOUS
<1>2. Owners(s) = {e}
  BY <1>1
<1> QED BY <1>2, FS_Singleton

LEMMA OneOwner ==
    ASSUME IInv, ~link.abandoned, NEW s \in Serials
    PROVE  Cardinality(Owners(s)) = IF s \in inputs THEN 1 ELSE 0
<1>1. TypeOK /\ Apart /\ Owned /\ Placed /\ \A i \in Slots : Sane(pairs[i])
  BY DEF IInv, Ledger, Fenced
<1>2. s # 0 /\ Kept \subseteq Done
  BY DEF Serials, Kept, Done
<1>3. \A i \in Slots : pairs[i].kept => InUse(i) /\ i # worker.token
  BY <1>1 DEF Sane, InUse, Placed, Slots
<1>4. \A o : o \in Owners(s) <=> Owns(o, s)
  BY <1>1, OwnersOwn
<1>5. ASSUME s \notin inputs PROVE Owners(s) = {}
  BY <1>1, <1>4, <1>5 DEF Owned, Owns
<1>6. ASSUME s \in inputs PROVE Cardinality(Owners(s)) = 1
  <2>1. CASE s = link.pending
    <3>1. /\ s \notin Kept /\ s \notin deletions /\ s # worker.job
          /\ \A i \in Slots : pairs[i].kept => pairs[i].job # s
      BY <1>1, <1>2, <1>3, <2>1 DEF Apart
    <3>2. PICK e : e = <<"pending">>
      OBVIOUS
    <3>3. \A o : Owns(o, s) <=> o = e
      BY <2>1, <3>1, <3>2 DEF Owns
    <3> QED BY <1>4, <3>3, OneOwns
  <2>2. CASE worker.kept /\ s = worker.job
    <3>1. /\ s \notin Kept /\ s \notin deletions /\ s # link.pending
          /\ \A i \in Slots : pairs[i].kept => pairs[i].job # s
      BY <1>1, <1>2, <1>3, <2>2 DEF Apart
    <3>2. PICK e : e = <<"worker">>
      OBVIOUS
    <3>3. \A o : Owns(o, s) <=> o = e
      BY <2>2, <3>1, <3>2 DEF Owns
    <3> QED BY <1>4, <3>3, OneOwns
  <2>3. CASE s \in Kept
    <3>1. /\ s \notin deletions /\ s # link.pending /\ s # worker.job
          /\ \A i \in Slots : pairs[i].kept => pairs[i].job # s
      BY <1>1, <1>2, <1>3, <2>3 DEF Apart
    <3>2. PICK e : e = <<"completed">>
      OBVIOUS
    <3>3. \A o : Owns(o, s) <=> o = e
      BY <2>3, <3>1, <3>2 DEF Owns
    <3> QED BY <1>4, <3>3, OneOwns
  <2>4. CASE s \in deletions
    <3>1. /\ s \notin Kept /\ s # link.pending /\ s # worker.job
          /\ \A i \in Slots : pairs[i].kept => pairs[i].job # s
      BY <1>1, <1>2, <1>3, <2>4 DEF Apart
    <3>2. PICK e : e = <<"deletions">>
      OBVIOUS
    <3>3. \A o : Owns(o, s) <=> o = e
      BY <2>4, <3>1, <3>2 DEF Owns
    <3> QED BY <1>4, <3>3, OneOwns
  <2>5. ASSUME NEW i \in Slots, pairs[i].kept, pairs[i].job = s
        PROVE  Cardinality(Owners(s)) = 1
    <3>1. InUse(i) /\ i # worker.token
      BY <1>3, <2>5
    <3>2. /\ s \notin Kept /\ s \notin deletions /\ s # link.pending /\ s # worker.job
          /\ \A j \in Slots : pairs[j].kept /\ pairs[j].job = s => j = i
      BY <1>1, <1>2, <1>3, <2>5, <3>1 DEF Apart
    <3>3. PICK e : e = <<"pair", i>>
      OBVIOUS
    <3>4. \A o : Owns(o, s) <=> o = e
      BY <2>5, <3>2, <3>3 DEF Owns
    <3> QED BY <1>4, <3>4, OneOwns
  <2> QED BY <1>1, <1>6, <2>1, <2>2, <2>3, <2>4, <2>5 DEF Owned
<1> QED BY <1>5, <1>6, FS_EmptySet

\* An input fence that is alive has one owner, who will delete it, and the wrappers of a
\* job are kept while anybody stands for it, for every number of jobs.
THEOREM SourcesKeepOneOwner == Spec => []SourcesHaveOneOwner
<1>1. IInv => SourcesHaveOneOwner
  BY OneOwner DEF SourcesHaveOneOwner, IInv, Ledger, Owned
<1> QED BY <1>1, Inductive, PTL
=================================================================================
