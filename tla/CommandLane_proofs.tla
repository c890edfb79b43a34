-------------------------- MODULE CommandLane_proofs --------------------------
(***************************************************************************)
(* Theorems about CommandLane, for every value of its constants: the type  *)
(* invariant; that nothing waits behind an idle lane, and a busy one for   *)
(* something; that confirmations are honest and stand; that an entry of    *)
(* the schedule fires one PAUSE; and that gated one-shots are checked when *)
(* they are sent.                                                          *)
(***************************************************************************)
EXTENDS CommandLane, SequenceTheorems, WellFoundedInduction, TLAPS

-----------------------------------------------------------------------------
(* The least element of a set of naturals, which Pumped and Target choose. *)

LessPairs == {p \in Nat \X Nat : p[1] < p[2]}

LEMMA LessPairsWF == IsWellFoundedOn(LessPairs, Nat)
BY NatLessThanWellFounded DEF OpToRel, LessPairs

LEMMA Least ==
    ASSUME NEW S \in SUBSET Nat, S # {}
    PROVE  /\ (CHOOSE x \in S : \A y \in S : x <= y) \in S
           /\ \A y \in S : (CHOOSE x \in S : \A y_1 \in S : x <= y_1) <= y
<1>1. PICK x \in S : \A y \in S : <<y, x>> \notin LessPairs
  BY LessPairsWF, WFMin
<1>2. \A y \in S : ~(y < x)
  BY <1>1 DEF LessPairs
<1>3. \A y \in S : x <= y
  BY <1>2
<1> QED BY <1>3

-----------------------------------------------------------------------------
(* The types of the operators.                                             *)

LEMMA IssuedType ==
    ASSUME NEW n \in Names, NEW i \in Nat, NEW cached
    PROVE  NoCommand \in Commands /\ Issued(n, i, cached) \in Commands
<1> DEFINE known == cached \in Expected[n]
<1>1. known \in BOOLEAN
  OBVIOUS
<1> HIDE DEF known
<1>2. [NoCommand EXCEPT !.id = i, !.outcome = "pending", !.atIssue = known] \in Commands
  BY <1>1 DEF Commands, NoCommand, LiveOutcomes
<1>3. NoCommand \in Commands
  BY DEF Commands, NoCommand
<1> QED BY <1>2, <1>3 DEF known, Issued

LEMMA EntryTypes ==
    ASSUME NEW c \in Commands, NEW n, NEW reading
    PROVE  /\ Accepted(c) \in Commands
           /\ Failed(c) \in Commands
           /\ Settled(c) \in Commands
           /\ ObservedEntry(c, n, reading) \in Commands
BY DEF Commands, Accepted, Failed, Settled, ObservedEntry, LiveOutcomes, Verdicts

LEMMA TableTypes ==
    ASSUME NEW table \in [Names -> Commands], NEW reading, NEW names
    PROVE  /\ Observed(table, reading) \in [Names -> Commands]
           /\ Superseded(table) \in [Names -> Commands]
           /\ Merged(table, reading) \in [Names -> Commands]
           /\ Unheard(table, names) \in [Names -> Commands]
<1>1. Observed(table, reading) \in [Names -> Commands]
  BY EntryTypes DEF Observed
<1>2. Superseded(table) \in [Names -> Commands]
  BY EntryTypes DEF Superseded
<1>3. Merged(table, reading) \in [Names -> Commands]
  <2> SUFFICES ASSUME NEW n \in Names
               PROVE  [table[n] EXCEPT !.merged = TRUE, !.fresh = @ \/ reading \in Expected[n]]
                        \in Commands
    BY DEF Merged
  <2> QED BY DEF Commands
<1>4. Unheard(table, names) \in [Names -> Commands]
  BY DEF Unheard, Commands
<1> QED BY <1>1, <1>2, <1>3, <1>4

LEMMA SentType ==
    ASSUME NEW L \in Lanes, NEW label \in LaneCommands \cup OneShots
    PROVE  Sent(L, label) \in Lanes
<1> DEFINE i    == L.sent + 1
           mark == IF label \in LaneCommands THEN label ELSE Untracked
           post == [id |-> i, label |-> label]
<1>1. i \in Nat /\ mark \in LaneCommands \cup {Untracked} /\ post \in Posts
  BY DEF Lanes, Posts
<1> HIDE DEF i, mark, post
<1>2. [L EXCEPT !.busy = TRUE, !.tracked = mark, !.sent = i, !.dispatch = i,
                !.wire = post] \in Lanes
  BY <1>1 DEF Lanes
<1> QED BY <1>2 DEF Sent, i, mark, post

LEMMA PumpedType ==
    ASSUME NEW L \in Lanes, NEW state, NEW online
    PROVE  Pumped(L, state, online) \in Lanes
<1> DEFINE allowed == {i \in DOMAIN L.queue : Allowed(L.queue[i], state, online)}
           first   == CHOOSE i \in allowed : \A k \in allowed : i <= k
           rest    == SubSeq(L.queue, first + 1, Len(L.queue))
<1>0. L.queue \in Seq(OneShots) /\ DOMAIN L.queue = 1..Len(L.queue) /\ Len(L.queue) \in Nat
  BY DEF Lanes, Queues
<1>1. CASE allowed = {}
  BY <1>1, EmptySeq DEF Pumped, Lanes, Queues
<1>2. CASE allowed # {} /\ L.wire # NoPost
  BY <1>2, EmptySeq DEF Pumped, Lanes, Queues
<1>3. CASE allowed # {} /\ L.wire = NoPost
  <2>0. allowed \in SUBSET Nat
    BY <1>0
  <2>1. first \in allowed
    <3> HIDE DEF allowed
    <3> QED BY <2>0, <1>3, Least
  <2>2. first \in 1..Len(L.queue) /\ L.queue[first] \in OneShots
    <3>1. first \in DOMAIN L.queue
      <4> HIDE DEF first
      <4> QED BY <2>1
    <3> HIDE DEF first
    <3> QED BY <3>1, <1>0, ElementOfSeq
  <2>3. \A i \in (first + 1)..Len(L.queue) : L.queue[i] \in OneShots
    <3> HIDE DEF first
    <3> QED BY <2>2, <1>0, ElementOfSeq
  <2>4. rest \in Queues
    <3> HIDE DEF first
    <3>1. first + 1 \in Int /\ Len(L.queue) \in Int
      BY <2>2, <1>0
    <3> QED BY <3>1, <2>3, SubSeqProperties DEF Queues
  <2>5. [L EXCEPT !.queue = rest] \in Lanes
    <3> HIDE DEF rest
    <3> QED BY <2>4 DEF Lanes
  <2>6. Pumped(L, state, online) = Sent([L EXCEPT !.queue = rest], L.queue[first])
    BY <1>3 DEF Pumped
  <2> QED BY <2>2, <2>5, <2>6, SentType
<1> QED BY <1>1, <1>2, <1>3

LEMMA LaneTypes ==
    ASSUME NEW L \in Lanes, NEW state, NEW online, NEW table, NEW E
    PROVE  /\ Released(L, state, online) \in Lanes
           /\ LaneHears(L, table, E, state, online) \in Lanes
           /\ Cleared(L) \in Lanes
           /\ [L EXCEPT !.wire = NoPost] \in Lanes
           /\ [L EXCEPT !.dispatch = 0] \in Lanes
<1>1. [L EXCEPT !.busy = FALSE, !.tracked = Untracked] \in Lanes
  BY DEF Lanes
<1>2. Released(L, state, online) \in Lanes
  BY <1>1, PumpedType DEF Released
<1>3. Cleared(L) \in Lanes
  BY EmptySeq DEF Cleared, Lanes, Queues
<1>4. [L EXCEPT !.wire = NoPost] \in Lanes
  BY DEF Lanes, Posts, NoPost, OneShots
<1>5. [L EXCEPT !.dispatch = 0] \in Lanes
  BY DEF Lanes
<1> QED BY <1>2, <1>3, <1>4, <1>5 DEF LaneHears

LEMMA BoundType ==
    ASSUME NEW P \in Controllers, NEW j \in Jobs \cup {NoJob}
    PROVE  Bound(P, j) \in Controllers
BY DEF Bound, Unbound, Controllers, PauseStates

LEMMA RemovedType ==
    ASSUME NEW P \in Controllers, NEW l \in Layers
    PROVE  Removed(P, l) \in Controllers
BY DEF Removed, Controllers, PauseStates

LEMMA PauseHearsType ==
    ASSUME NEW P \in Controllers, NEW table \in [Names -> Commands], NEW E
    PROVE  PauseHears(P, table, E) \in Controllers
<1>1. table[Scheduled].outcome \in {"none"} \cup LiveOutcomes \cup Verdicts
  BY DEF Names, Commands
<1> QED BY <1>1 DEF PauseHears, Controllers, PauseStates, Live, LiveOutcomes, Verdicts

LEMMA TargetDue ==
    ASSUME NEW P \in Controllers, NEW current, Due(P, current) # {}
    PROVE  Target(P, current) \in Due(P, current) /\ Target(P, current) \in Layers
<1>1. Due(P, current) \in SUBSET Layers
  BY DEF Due, Controllers
<1>2. Due(P, current) \in SUBSET Nat
  BY <1>1, LayersAssumption
<1>3. Target(P, current) \in Due(P, current)
  BY <1>2, Least DEF Target
<1> QED BY <1>1, <1>3

LEMMA FiredType ==
    ASSUME NEW P \in Controllers, NEW current, NEW raw, Fires(P, current, raw)
    PROVE  Fired(P, current) \in Controllers
<1> DEFINE l   == Target(P, current)
           due == Due(P, current)
<1>1. l \in Layers /\ due \subseteq Layers
  BY TargetDue DEF Fires, Due, Controllers
<1> HIDE DEF l, due
<1>2. P.posts[l] + 1 \in Nat
  BY <1>1 DEF Controllers
<1>3. [P EXCEPT !.states[l] = IF P.out THEN "failed" ELSE "fired",
                !.target    = IF P.out THEN NoLayer ELSE l,
                !.out       = TRUE,
                !.posts[l]  = @ + 1,
                !.covered   = @ \cup (due \ {l})] \in Controllers
  BY <1>1, <1>2 DEF Controllers, PauseStates
<1> QED BY <1>3 DEF Fired, l, due

LEMMA ReobservedType ==
    ASSUME TypeOK, NEW n \in Names
    PROVE  Reobserved(n) \in [Names -> Commands]
<1> DEFINE taken == [cmds EXCEPT ![n] = Accepted(@)]
<1>1. taken \in [Names -> Commands]
  BY EntryTypes DEF TypeOK
<1>2. Observed(taken, snap) \in [Names -> Commands]
  <2> HIDE DEF taken
  <2> QED BY <1>1, TableTypes
<1> QED BY <1>1, <1>2 DEF Reobserved

LEMMA AcceptTypes ==
    ASSUME TypeOK, NEW n \in Names, NEW L \in Lanes, NEW P \in Controllers,
           AcceptCommand(n, L, P)
    PROVE  cmds' \in [Names -> Commands] /\ lane' \in Lanes /\ pauses' \in Controllers
<1>1. PICK e : /\ cmds'   = Unheard(Reobserved(n), Closed(cmds, Reobserved(n)) \ {e})
               /\ lane'   = LaneHears(L, Reobserved(n), {e}, obs, connected)
               /\ pauses' = PauseHears(P, Reobserved(n), {e})
  BY DEF AcceptCommand
<1> QED BY <1>1, ReobservedType, TableTypes, LaneTypes, PauseHearsType

-----------------------------------------------------------------------------
(* The type invariant.                                                     *)

LEMMA TypeInit == Init => TypeOK
<1> SUFFICES ASSUME Init PROVE TypeOK
  OBVIOUS
<1>1. NoCommand \in Commands
  BY DEF NoCommand, Commands
<1>2. IdleLane \in Lanes
  BY EmptySeq DEF IdleLane, Lanes, Posts, NoPost, OneShots, Queues
<1>3. Unbound(NoJob) \in Controllers
  BY DEF Unbound, Controllers, PauseStates
<1> QED BY <1>1, <1>2, <1>3 DEF Init, TypeOK, Readings

LEMMA TypeFrame ==
    ASSUME TypeOK, NEW reading \in Readings, NEW lower \in {FALSE, assumed},
           NEW job \in Jobs \cup {NoJob}, NEW layer \in Observations,
           AdmitFrame(reading, lower, job, layer)
    PROVE  TypeOK'
<1> DEFINE raw    == IF reading = NoState THEN snap ELSE reading
           merged == Observed(Merged(cmds, reading), reading)
           closed == Closed(cmds, merged)
           stopped == assumed /\ raw \in Active /\ ~lower
           shown  == IF stopped THEN "cancelled" ELSE raw
           arming == snap \notin Active /\ shown \in Active
           stale  == IF arming THEN Pending(merged) ELSE {}
           table  == IF arming THEN Superseded(merged) ELSE merged
           lane1  == LaneHears(lane, table, stale, obs, TRUE)
           bound  == Bound(PauseHears(pauses, table, stale),
                           IF shown \in Active THEN job ELSE NoJob)
           seen   == IF shown \in Active THEN [bound EXCEPT !.current = layer] ELSE bound
           fires  == shown \in Active /\ Fires(seen, layer, raw)
<1>1. merged \in [Names -> Commands] /\ table \in [Names -> Commands]
  <2>1. merged \in [Names -> Commands]
    BY TableTypes DEF TypeOK
  <2> HIDE DEF merged, arming
  <2> QED BY <2>1, TableTypes
<1>2. raw \in Readings /\ shown \in Readings /\ stopped \in BOOLEAN
  BY StateAssumption DEF TypeOK, Readings
<1>3. lane1 \in Lanes
  <2> HIDE DEF table, stale
  <2> QED BY LaneTypes DEF TypeOK
<1>4. bound \in Controllers
  <2> HIDE DEF table, stale, shown
  <2>1. PauseHears(pauses, table, stale) \in Controllers
    BY <1>1, PauseHearsType DEF TypeOK
  <2>2. (IF shown \in Active THEN job ELSE NoJob) \in Jobs \cup {NoJob}
    OBVIOUS
  <2> QED BY <2>1, <2>2, BoundType
<1>5. layer \in Nat \cup {NoLayer}
  BY LayersAssumption DEF Observations
<1>6. seen \in Controllers
  <2> HIDE DEF bound, shown
  <2> QED BY <1>4, <1>5 DEF Controllers
<1>7. cmds' \in [Names -> Commands]
  <2>1. cmds' = IF ~fires THEN table
                ELSE [table EXCEPT ![Scheduled] =
                        IF seen.out THEN Failed(Issued(Scheduled, 0, raw))
                        ELSE Issued(Scheduled, 0, raw)]
    BY DEF AdmitFrame
  <2>2. Scheduled \in Names
    BY DEF Names
  <2>3. /\ Issued(Scheduled, 0, raw) \in Commands
        /\ Failed(Issued(Scheduled, 0, raw)) \in Commands
    BY <2>2, IssuedType, EntryTypes
  <2> HIDE DEF table, fires, seen, raw
  <2> QED BY <1>1, <2>1, <2>3
<1>8. lane' \in Lanes
  <2>1. lane' = LaneHears(lane1, table, closed, shown, TRUE)
    BY DEF AdmitFrame
  <2> HIDE DEF lane1, table, closed, shown
  <2> QED BY <1>3, <2>1, LaneTypes
<1>9. pauses' \in Controllers
  <2>1. pauses' = PauseHears(IF fires THEN Fired(seen, layer) ELSE seen, table, closed)
    BY DEF AdmitFrame
  <2>2. fires => Fired(seen, layer) \in Controllers
    <3> HIDE DEF seen, raw
    <3> QED BY <1>6, FiredType
  <2> HIDE DEF table, closed, seen, fires
  <2> QED BY <1>1, <1>6, <2>1, <2>2, PauseHearsType
<1>10. /\ snap' = raw /\ assumed' = stopped /\ connected' = TRUE
       /\ active' = TRUE /\ obs' = shown
  BY DEF AdmitFrame
<1> HIDE DEF raw, stopped, shown
<1> QED BY <1>2, <1>7, <1>8, <1>9, <1>10 DEF TypeOK

\* Every step of the client, the lane and the pause controller, from a frame that
\* starts a print to a late reply, leaves cmds, lane and pauses in their types.
THEOREM TypeCorrect == Spec => []TypeOK
<1>1. TypeOK /\ [Next]_vars => TypeOK'
  <2> SUFFICES ASSUME TypeOK, [Next]_vars PROVE TypeOK'
    OBVIOUS
  <2> USE DEF TypeOK
  <2>1. ASSUME NEW n \in LaneCommands, Press(n) PROVE TypeOK'
    <3>1. n \in Names /\ n \in LaneCommands \cup OneShots
      BY DEF Names
    <3>2. lane.sent + 1 \in Nat
      BY DEF Lanes
    <3>3. lane' \in Lanes
      BY <2>1, <3>1, SentType, LaneTypes DEF Press
    <3>4. /\ Issued(n, lane.sent + 1, snap) \in Commands
          /\ Failed(Issued(n, 0, snap)) \in Commands
      BY <3>1, <3>2, IssuedType, EntryTypes
    <3>5. cmds' \in [Names -> Commands]
      BY <2>1, <3>4 DEF Press
    <3> QED BY <2>1, <3>3, <3>5 DEF Press
  <2>2. ASSUME NEW shot \in OneShots, Request(shot) PROVE TypeOK'
    <3>1. Append(lane.queue, shot) \in Queues
      BY AppendProperties DEF Lanes, Queues
    <3>2. [lane EXCEPT !.queue = Append(@, shot)] \in Lanes
      BY <3>1 DEF Lanes
    <3>3. lane' \in Lanes
      BY <2>2, <3>2, SentType, LaneTypes DEF Request
    <3> QED BY <2>2, <3>3 DEF Request
  <2>3. ASSUME NEW l \in Layers, TogglePause(l) PROVE TypeOK'
    <3>1. [pauses EXCEPT !.layers = @ \cup {l}] \in Controllers
      BY DEF Controllers
    <3> QED BY <2>3, <3>1, RemovedType DEF TogglePause
  <2>4. CASE ClearPauses
    <3>1. pauses' \in Controllers
      BY <2>4 DEF ClearPauses, Controllers, PauseStates
    <3> QED BY <2>4, <3>1 DEF ClearPauses
  <2>5. CASE EmergencyStop
    <3>1. pauses' \in Controllers
      BY <2>5, BoundType DEF EmergencyStop
    <3>2. lane' \in Lanes
      BY <2>5, LaneTypes DEF EmergencyStop
    <3>3. obs' \in Readings
      BY <2>5, StateAssumption DEF EmergencyStop, Readings
    <3> QED BY <2>5, <3>1, <3>2, <3>3 DEF EmergencyStop
  <2>6. ASSUME NEW ok \in BOOLEAN, ControlReply(ok) PROVE TypeOK'
    <3> DEFINE w == lane.wire
               L == [lane EXCEPT !.wire = NoPost]
    <3>1. L \in Lanes /\ w.label \in LaneCommands \cup OneShots
      BY LaneTypes DEF Lanes, Posts
    <3>2. UNCHANGED <<snap, assumed, connected, active, obs>>
      BY <2>6 DEF ControlReply
    <3>3. CASE lane' = L /\ UNCHANGED <<cmds, pauses>>
      BY <3>1, <3>2, <3>3
    <3>4. CASE /\ lane' = Released(L, obs, connected)
               /\ cmds' = IF w.label \in LaneCommands
                          THEN [cmds EXCEPT ![w.label] = IF @.id = w.id THEN Failed(@) ELSE @]
                          ELSE cmds
               /\ UNCHANGED pauses
      <4>1. \A n \in Names : Failed(cmds[n]) \in Commands
        BY EntryTypes
      <4>2. cmds' \in [Names -> Commands]
        BY <3>4, <4>1 DEF Names
      <4>3. lane' \in Lanes
        BY <3>1, <3>4, LaneTypes
      <4> QED BY <3>2, <3>4, <4>2, <4>3
    <3>5. CASE w.label \in LaneCommands /\ AcceptCommand(w.label, L, pauses)
      <4>1. w.label \in Names
        BY <3>5 DEF Names
      <4> HIDE DEF L, TypeOK
      <4>2. pauses \in Controllers
        BY DEF TypeOK
      <4>3. cmds' \in [Names -> Commands] /\ lane' \in Lanes /\ pauses' \in Controllers
        BY <3>1, <3>5, <4>1, <4>2, AcceptTypes
      <4> QED BY <3>2, <4>3 DEF TypeOK
    <3> QED BY <2>6, <3>3, <3>4, <3>5 DEF ControlReply
  <2>7. ASSUME NEW ok \in BOOLEAN, PauseReply(ok) PROVE TypeOK'
    <3> DEFINE P == [pauses EXCEPT !.out = FALSE]
    <3>1. Scheduled \in Names /\ P \in Controllers
      BY DEF Names, Controllers
    <3>2. UNCHANGED <<snap, assumed, connected, active, obs>>
      BY <2>7 DEF PauseReply
    <3>3. CASE AcceptCommand(Scheduled, lane, P)
      <4> HIDE DEF P, TypeOK
      <4>1. cmds' \in [Names -> Commands] /\ lane' \in Lanes /\ pauses' \in Controllers
        BY <3>1, <3>3, AcceptTypes DEF TypeOK
      <4> QED BY <3>2, <4>1 DEF TypeOK
    <3>4. CASE /\ cmds'   = [cmds EXCEPT ![Scheduled] = Failed(@)]
               /\ pauses' = PauseHears(P, cmds', {Scheduled})
               /\ UNCHANGED lane
      <4>1. cmds' \in [Names -> Commands]
        BY <3>1, <3>4, EntryTypes
      <4>2. pauses' \in Controllers
        BY <3>1, <3>4, <4>1, PauseHearsType
      <4> QED BY <3>2, <3>4, <4>1, <4>2
    <3> QED BY <2>7, <3>3, <3>4 DEF PauseReply
  <2>8. CASE SettleResume
    <3>1. cmds' \in [Names -> Commands]
      BY <2>8, EntryTypes DEF SettleResume, Names
    <3>2. lane' \in Lanes
      BY <2>8, LaneTypes DEF SettleResume
    <3> QED BY <2>8, <3>1, <3>2 DEF SettleResume
  <2>9. ASSUME NEW n \in Names, DeadlinePasses(n) PROVE TypeOK'
    <3>1. [cmds[n] EXCEPT !.overdue = TRUE] \in Commands
      BY DEF Commands
    <3> QED BY <2>9, <3>1 DEF DeadlinePasses
  <2>10. CASE ExpireCommands
    <3>1. cmds' \in [Names -> Commands]
      BY <2>10, TableTypes DEF ExpireCommands
    <3>2. lane' \in Lanes
      BY <2>10, LaneTypes DEF ExpireCommands
    <3>3. pauses' \in Controllers
      BY <2>10, <3>1, PauseHearsType DEF ExpireCommands
    <3> QED BY <2>10, <3>1, <3>2, <3>3 DEF ExpireCommands
  <2>11. ASSUME NEW reading \in Readings, NEW lower \in {FALSE, assumed},
                NEW job \in Jobs \cup {NoJob}, NEW layer \in Observations,
                AdmitFrame(reading, lower, job, layer)
         PROVE  TypeOK'
    <3> HIDE DEF TypeOK
    <3> QED BY <2>11, TypeFrame
  <2>12. CASE ConnectionLost
    BY <2>12 DEF ConnectionLost
  <2>13. CASE InvalidateSession
    <3>1. [n \in Names |-> NoCommand] \in [Names -> Commands]
      BY DEF NoCommand, Commands
    <3>2. [Cleared(lane) EXCEPT !.wire = NoPost] \in Lanes
      BY LaneTypes
    <3>3. Bound(pauses, NoJob) \in Controllers
      BY BoundType
    <3> QED BY <2>13, <3>1, <3>2, <3>3 DEF InvalidateSession, Readings
  <2>14. CASE KlippyReady
    BY <2>14 DEF KlippyReady
  <2>15. CASE UNCHANGED vars
    BY <2>15 DEF vars
  <2> QED BY <2>1, <2>2, <2>3, <2>4, <2>5, <2>6, <2>7, <2>8, <2>9, <2>10, <2>11, <2>12,
             <2>13, <2>14, <2>15 DEF Next
<1> QED BY TypeInit, <1>1, PTL DEF Spec

-----------------------------------------------------------------------------
(* Nothing waits behind an idle lane.                                      *)

Idle(L) == ~L.busy => L.queue = <<>> /\ L.tracked = Untracked

LEMMA SentBusy ==
    ASSUME NEW L \in Lanes, NEW label
    PROVE  Idle(Sent(L, label))
BY DEF Idle, Sent, Lanes

LEMMA PumpedIdle ==
    ASSUME NEW L \in Lanes, L.tracked = Untracked, NEW state, NEW online
    PROVE  Idle(Pumped(L, state, online))
<1> DEFINE allowed == {i \in DOMAIN L.queue : Allowed(L.queue[i], state, online)}
           first   == CHOOSE i \in allowed : \A k \in allowed : i <= k
           rest    == SubSeq(L.queue, first + 1, Len(L.queue))
<1>1. CASE allowed = {}
  BY <1>1 DEF Pumped, Idle, Lanes
<1>2. CASE allowed # {} /\ L.wire # NoPost
  BY <1>2 DEF Pumped, Idle, Lanes
<1>3. CASE allowed # {} /\ L.wire = NoPost
  <2>1. Pumped(L, state, online) = Sent([L EXCEPT !.queue = rest], L.queue[first])
    BY <1>3 DEF Pumped
  <2>2. Pumped(L, state, online).busy
    <3> HIDE DEF rest, first
    <3> QED BY <2>1 DEF Sent, Lanes
  <2> QED BY <2>2 DEF Idle
<1> QED BY <1>1, <1>2, <1>3

LEMMA LaneIdle ==
    ASSUME NEW L \in Lanes, NEW state, NEW online, NEW table, NEW E
    PROVE  /\ Idle(Released(L, state, online))
           /\ Idle(L) => Idle(LaneHears(L, table, E, state, online))
           /\ Idle(Cleared(L))
           /\ Idle(L) => Idle([L EXCEPT !.wire = NoPost])
<1>1. [L EXCEPT !.busy = FALSE, !.tracked = Untracked] \in Lanes
  BY DEF Lanes
<1>2. [L EXCEPT !.busy = FALSE, !.tracked = Untracked].tracked = Untracked
  BY DEF Lanes
<1>3. Idle(Released(L, state, online))
  BY <1>1, <1>2, PumpedIdle DEF Released
<1>4. Idle(Cleared(L))
  BY DEF Idle, Cleared, Lanes
<1>5. Idle(L) => Idle([L EXCEPT !.wire = NoPost])
  BY DEF Idle, Lanes
<1> QED BY <1>3, <1>4, <1>5 DEF LaneHears

\* Whatever releases the lane (a reply, a verdict, a deadline, an emergency
\* stop, the end of the session), no command is left queued behind it.
THEOREM IdleLaneIsEmptyAlways == Spec => []IdleLaneIsEmpty
<1>1. Init => IdleLaneIsEmpty
  BY DEF Init, IdleLaneIsEmpty, IdleLane
<1>2. TypeOK /\ IdleLaneIsEmpty /\ [Next]_vars => IdleLaneIsEmpty'
  <2> SUFFICES ASSUME lane \in Lanes, Idle(lane), [Next]_vars PROVE Idle(lane)'
    BY DEF TypeOK, IdleLaneIsEmpty, Idle
  <2> DEFINE L == [lane EXCEPT !.wire = NoPost]
  <2>0. L \in Lanes /\ Idle(L)
    BY LaneTypes, LaneIdle
  <2>1. ASSUME NEW n \in LaneCommands, Press(n) PROVE Idle(lane')
    <3>1. CASE lane' = Sent(lane, n)
      BY <3>1, SentBusy
    <3>2. CASE lane' = [lane EXCEPT !.dispatch = 0]
      BY <3>2 DEF Idle, Lanes
    <3> QED BY <2>1, <3>1, <3>2 DEF Press
  <2>2. ASSUME NEW shot \in OneShots, Request(shot) PROVE Idle(lane')
    <3>1. CASE lane.busy /\ lane' = [lane EXCEPT !.queue = Append(@, shot)]
      BY <3>1 DEF Idle, Lanes
    <3>2. CASE lane' = Sent(lane, shot)
      BY <3>2, SentBusy
    <3>3. CASE lane' = [lane EXCEPT !.dispatch = 0]
      BY <3>3 DEF Idle, Lanes
    <3> QED BY <2>2, <3>1, <3>2, <3>3 DEF Request
  <2>3. CASE lane' = lane
    BY <2>3
  <2>4. ASSUME NEW n, NEW P, AcceptCommand(n, L, P) PROVE Idle(lane')
    <3>1. PICK table, E : lane' = LaneHears(L, table, E, obs, connected)
      BY <2>4 DEF AcceptCommand
    <3> HIDE DEF L
    <3>2. Idle(LaneHears(L, table, E, obs, connected))
      BY <2>0, LaneIdle
    <3> QED BY <3>1, <3>2
  <2>5. ASSUME NEW n, NEW P, AcceptCommand(n, lane, P) PROVE Idle(lane')
    <3>1. PICK table, E : lane' = LaneHears(lane, table, E, obs, connected)
      BY <2>5 DEF AcceptCommand
    <3>2. Idle(LaneHears(lane, table, E, obs, connected))
      BY LaneIdle
    <3> QED BY <3>1, <3>2
  <2>6. CASE EmergencyStop
    BY <2>6, LaneIdle DEF EmergencyStop
  <2>7. ASSUME NEW ok \in BOOLEAN, ControlReply(ok) PROVE Idle(lane')
    <3>1. CASE lane' = L
      BY <2>0, <3>1
    <3>2. CASE lane' = Released(L, obs, connected)
      <4> HIDE DEF L
      <4> QED BY <2>0, <3>2, LaneIdle
    <3> QED BY <2>4, <2>7, <3>1, <3>2 DEF ControlReply
  <2>8. ASSUME NEW ok \in BOOLEAN, PauseReply(ok) PROVE Idle(lane')
    BY <2>5, <2>8 DEF PauseReply
  <2>9. CASE SettleResume
    BY <2>9, LaneIdle DEF SettleResume
  <2>10. CASE ExpireCommands
    BY <2>10, LaneIdle DEF ExpireCommands
  <2>11. ASSUME NEW reading, NEW lower, NEW job, NEW layer,
                AdmitFrame(reading, lower, job, layer)
         PROVE  Idle(lane')
    <3>1. PICK t, E1, E2, state :
             lane' = LaneHears(LaneHears(lane, t, E1, obs, TRUE), t, E2, state, TRUE)
      BY <2>11, Zenon DEF AdmitFrame
    <3> DEFINE L1 == LaneHears(lane, t, E1, obs, TRUE)
    <3>2. L1 \in Lanes /\ Idle(L1)
      BY LaneTypes, LaneIdle
    <3> HIDE DEF L1
    <3>3. Idle(LaneHears(L1, t, E2, state, TRUE))
      BY <3>2, LaneIdle
    <3> QED BY <3>1, <3>3 DEF L1
  <2>12. CASE InvalidateSession
    BY <2>12, LaneTypes, LaneIdle DEF InvalidateSession
  <2> QED BY <2>1, <2>2, <2>3, <2>6, <2>7, <2>8, <2>9, <2>10, <2>11, <2>12
         DEF Next, TogglePause, ClearPauses, DeadlinePasses, ConnectionLost, KlippyReady, vars
<1> QED BY <1>1, <1>2, TypeCorrect, PTL DEF Spec

-----------------------------------------------------------------------------
(* Confirmations are honest.                                               *)
(*                                                                         *)
(* ConfirmedHonestly is not inductive: a confirmation reads the cached     *)
(* state when an acceptance is re-observed.  The strengthening says what a *)
(* live entry already knows of the cached state, that no Pause or Cancel   *)
(* is issued over a state it expects, and (for that) that an observation   *)
(* of an active print is the cached state itself.                          *)

EntryHonest(n, c, cached) ==
    /\ c.outcome = "confirmed" /\ ~c.settled
         => c.accepted /\ (c.fresh \/ (n \in {"Resume", Scheduled} /\ c.atIssue))
    /\ Live(c) /\ cached \in Expected[n] => c.fresh \/ c.atIssue
    /\ n \in {"Pause", "Cancel"} => ~c.atIssue

HonestTable(table, cached) == \A n \in Names : EntryHonest(n, table[n], cached)

HonestInv ==
    /\ obs \in Active => snap = obs
    /\ HonestTable(cmds, snap)

LEMMA ExpectedStates ==
    /\ Names \subseteq {"Pause", "Resume", "Cancel", Scheduled}
    /\ \A n \in Names :
          /\ NoState \notin Expected[n]
          /\ n = "Pause" => Expected[n] = {"paused"}
          /\ n = "Cancel" => Expected[n] = {"cancelled", "complete", "standby"}
BY LaneAssumption DEF Names, Expected, NoState, Scheduled

LEMMA EntryKept ==
    ASSUME NEW n \in Names, NEW c \in Commands, NEW cached, EntryHonest(n, c, cached)
    PROVE  /\ EntryHonest(n, Accepted(c), cached)
           /\ EntryHonest(n, Failed(c), cached)
           /\ EntryHonest(n, Settled(c), cached)
           /\ EntryHonest(n, [c EXCEPT !.overdue = TRUE], cached)
           /\ EntryHonest(n, [c EXCEPT !.unheard = TRUE], cached)
BY DEF EntryHonest, Accepted, Failed, Settled, Live, LiveOutcomes, Commands

LEMMA EntryObserved ==
    ASSUME NEW n \in Names, NEW c \in Commands, NEW cached, EntryHonest(n, c, cached),
           NEW reading, Live(c) /\ reading \in Expected[n] => c.fresh \/ c.atIssue
    PROVE  EntryHonest(n, ObservedEntry(c, n, reading), cached)
<1>1. n \in {"Pause", "Resume", "Cancel", Scheduled}
  BY ExpectedStates
<1>2. CASE Live(c) /\ c.accepted /\ reading \in Expected[n]
  <2>1. ObservedEntry(c, n, reading) = [c EXCEPT !.outcome = "confirmed"]
    BY <1>2 DEF ObservedEntry
  <2>2. c.fresh \/ (n \in {"Resume", Scheduled} /\ c.atIssue)
    BY <1>1, <1>2 DEF EntryHonest
  <2>3. EntryHonest(n, [c EXCEPT !.outcome = "confirmed"], cached)
    BY <1>2, <2>2 DEF EntryHonest, Live, LiveOutcomes, Commands
  <2> QED BY <2>1, <2>3
<1>3. CASE ~Live(c) \/ ~(c.accepted /\ reading \in Expected[n])
  <2>1. ObservedEntry(c, n, reading) \in {c, [c EXCEPT !.outcome = "timed_out"]}
    BY <1>3 DEF ObservedEntry
  <2>2. EntryHonest(n, [c EXCEPT !.outcome = "timed_out"], cached)
    BY DEF EntryHonest, Live, LiveOutcomes, Commands
  <2> QED BY <2>1, <2>2
<1> QED BY <1>2, <1>3

LEMMA TableObserved ==
    ASSUME NEW table \in [Names -> Commands], NEW cached, HonestTable(table, cached)
    PROVE  /\ HonestTable(Observed(table, cached), cached)
           /\ HonestTable(Observed(table, NoState), cached)
           /\ HonestTable(Superseded(table), cached)
           /\ \A names : HonestTable(Unheard(table, names), cached)
<1>1. HonestTable(Observed(table, cached), cached)
  <2> SUFFICES ASSUME NEW n \in Names
               PROVE  EntryHonest(n, ObservedEntry(table[n], n, cached), cached)
    BY DEF HonestTable, Observed
  <2> QED BY EntryObserved DEF HonestTable, EntryHonest
<1>2. HonestTable(Observed(table, NoState), cached)
  <2> SUFFICES ASSUME NEW n \in Names
               PROVE  EntryHonest(n, ObservedEntry(table[n], n, NoState), cached)
    BY DEF HonestTable, Observed
  <2> QED BY EntryObserved, ExpectedStates DEF HonestTable
<1>3. HonestTable(Superseded(table), cached)
  BY EntryKept DEF HonestTable, Superseded
<1>4. \A names : HonestTable(Unheard(table, names), cached)
  BY EntryKept DEF HonestTable, Unheard
<1> QED BY <1>1, <1>2, <1>3, <1>4

LEMMA TableMerged ==
    ASSUME NEW table \in [Names -> Commands], NEW cached, HonestTable(table, cached),
           NEW reading
    PROVE  HonestTable(Observed(Merged(table, reading), reading),
                       IF reading = NoState THEN cached ELSE reading)
<1> DEFINE raw == IF reading = NoState THEN cached ELSE reading
<1> SUFFICES ASSUME NEW n \in Names
             PROVE  EntryHonest(n, ObservedEntry(Merged(table, reading)[n], n, reading), raw)
  BY DEF HonestTable, Observed
<1> DEFINE c == table[n]
           m == Merged(table, reading)[n]
<1> SUFFICES EntryHonest(n, ObservedEntry(m, n, reading), raw)
  OBVIOUS
<1>0. c \in Commands /\ m \in Commands /\ EntryHonest(n, c, cached)
  BY TableTypes DEF HonestTable
<1>1. CASE ~Live(c)
  <2>1. m = c
    BY <1>1 DEF Merged
  <2>2. EntryHonest(n, c, raw)
    BY <1>0, <1>1 DEF EntryHonest
  <2> HIDE DEF c, m, raw
  <2> QED BY <1>0, <1>1, <2>1, <2>2, EntryObserved
<1>2. CASE Live(c)
  <2> DEFINE news == reading \in Expected[n]
  <2>1. m = [c EXCEPT !.merged = TRUE, !.fresh = @ \/ news]
    BY <1>2 DEF Merged
  <2>2. m.fresh = (c.fresh \/ news) /\ m.atIssue = c.atIssue /\ m.outcome = c.outcome
    <3> HIDE DEF c, m, news
    <3> QED BY <1>0, <2>1 DEF Commands
  <2>3. news => m.fresh
    BY <2>2
  <2>4. raw \in Expected[n] => m.fresh \/ m.atIssue
    BY <1>0, <1>2, <2>2 DEF EntryHonest
  <2>5. EntryHonest(n, m, raw)
    <3> HIDE DEF c, m, raw, news
    <3> QED BY <1>0, <1>2, <2>2, <2>4 DEF EntryHonest, Live, LiveOutcomes
  <2> HIDE DEF m, raw
  <2> QED BY <1>0, <2>3, <2>5, EntryObserved
<1> QED BY <1>1, <1>2

LEMMA IssuedHonest ==
    ASSUME NEW n \in Names, NEW i \in Nat, NEW cached,
           n \in {"Pause", "Cancel"} => cached \notin Expected[n]
    PROVE  EntryHonest(n, Issued(n, i, cached), cached)
<1> DEFINE known == cached \in Expected[n]
<1>1. /\ Issued(n, i, cached).atIssue = known
      /\ Issued(n, i, cached).outcome = "pending"
  BY DEF Issued, NoCommand
<1> QED BY <1>1 DEF EntryHonest

LEMMA AcceptHonest ==
    ASSUME TypeOK, HonestTable(cmds, snap), NEW n \in Names, NEW L, NEW P,
           AcceptCommand(n, L, P)
    PROVE  HonestTable(cmds', snap)
<1> DEFINE taken == [cmds EXCEPT ![n] = Accepted(@)]
<1>1. taken \in [Names -> Commands] /\ HonestTable(taken, snap)
  BY EntryTypes, EntryKept DEF TypeOK, HonestTable
<1>2. HonestTable(Observed(taken, snap), snap)
  <2> HIDE DEF taken
  <2> QED BY <1>1, TableObserved
<1>3. HonestTable(Reobserved(n), snap)
  BY <1>1, <1>2 DEF Reobserved
<1>4. PICK names : cmds' = Unheard(Reobserved(n), names)
  BY DEF AcceptCommand
<1> QED BY <1>3, <1>4, ReobservedType, TableObserved

LEMMA FrameHonest ==
    ASSUME TypeOK, HonestInv, NEW reading \in Readings, NEW lower, NEW job, NEW layer,
           AdmitFrame(reading, lower, job, layer)
    PROVE  HonestInv'
<1> DEFINE raw    == IF reading = NoState THEN snap ELSE reading
           merged == Observed(Merged(cmds, reading), reading)
<1>1. merged \in [Names -> Commands] /\ HonestTable(merged, raw)
  BY TableTypes, TableMerged DEF TypeOK, HonestInv
<1>2. Superseded(merged) \in [Names -> Commands] /\ HonestTable(Superseded(merged), raw)
  <2> HIDE DEF merged, raw
  <2> QED BY <1>1, TableTypes, TableObserved
<1>3. Scheduled \in Names /\ Scheduled \notin {"Pause", "Cancel"}
  BY DEF Names, Scheduled
<1>4. /\ EntryHonest(Scheduled, Issued(Scheduled, 0, raw), raw)
      /\ EntryHonest(Scheduled, Failed(Issued(Scheduled, 0, raw)), raw)
  <2> HIDE DEF raw
  <2> QED BY <1>3, IssuedHonest, IssuedType, EntryKept
<1>5. PICK table \in {merged, Superseded(merged)} :
         cmds' \in {table, [table EXCEPT ![Scheduled] = Issued(Scheduled, 0, raw)],
                    [table EXCEPT ![Scheduled] = Failed(Issued(Scheduled, 0, raw))]}
  BY DEF AdmitFrame
<1>6. HonestTable(cmds', raw)
  <2> HIDE DEF merged, raw
  <2> QED BY <1>1, <1>2, <1>3, <1>4, <1>5 DEF HonestTable
<1>7. snap' = raw /\ (obs' \in Active => obs' = raw)
  BY DEF AdmitFrame, Active
<1> HIDE DEF raw
<1> QED BY <1>6, <1>7 DEF HonestInv, HonestTable, EntryHonest

\* A command the printer's state confirmed had been accepted, and was confirmed
\* by a state reported after it was issued, or (a Resume or a scheduled PAUSE)
\* issued over that state: whatever the order of presses, replies, frames,
\* deadlines, emergency stops and sessions.
THEOREM ConfirmationsAreHonest == Spec => []ConfirmedHonestly
<1>1. Init => HonestInv
  BY ExpectedStates DEF Init, HonestInv, HonestTable, EntryHonest, NoCommand, Active, NoState,
     Live, LiveOutcomes
<1>2. TypeOK /\ HonestInv /\ [Next]_vars => HonestInv'
  <2> SUFFICES ASSUME TypeOK, HonestInv, [Next]_vars PROVE HonestInv'
    OBVIOUS
  <2>0. cmds \in [Names -> Commands] /\ HonestTable(cmds, snap)
    BY DEF TypeOK, HonestInv
  <2>1. ASSUME NEW n \in LaneCommands, Press(n) PROVE HonestInv'
    <3>1. n \in Names
      BY DEF Names
    <3>2. n \in {"Pause", "Cancel"} => snap \notin Expected[n]
      <4>1. n = "Pause" => snap = "printing"
        BY <2>1 DEF Press, MayPress, HonestInv, Active
      <4>2. n = "Cancel" => snap \in {"printing", "paused"}
        BY <2>1 DEF Press, MayPress, HonestInv, Active
      <4> QED BY <3>1, <4>1, <4>2, ExpectedStates
    <3>3. lane.sent + 1 \in Nat
      BY DEF TypeOK, Lanes
    <3>4. /\ EntryHonest(n, Issued(n, lane.sent + 1, snap), snap)
          /\ EntryHonest(n, Failed(Issued(n, 0, snap)), snap)
      BY <3>1, <3>2, <3>3, IssuedHonest, IssuedType, EntryKept
    <3>5. HonestTable(cmds', snap)
      BY <2>0, <2>1, <3>4 DEF Press, HonestTable
    <3> QED BY <2>1, <3>5 DEF Press, HonestInv, HonestTable
  <2>2. CASE UNCHANGED <<cmds, snap>> /\ obs' \in {obs, "cancelled"}
    BY <2>2 DEF HonestInv, HonestTable, Active
  <2>3. CASE HonestTable(cmds', snap) /\ UNCHANGED <<snap, obs>>
    BY <2>3 DEF HonestInv, HonestTable
  <2>4. ASSUME NEW ok \in BOOLEAN, ControlReply(ok) PROVE HonestInv'
    <3>1. UNCHANGED <<snap, obs>>
      BY <2>4 DEF ControlReply
    <3>2. CASE UNCHANGED cmds
      BY <2>2, <3>1, <3>2
    <3>3. ASSUME NEW n \in LaneCommands,
                 cmds' = [cmds EXCEPT ![n] = IF @.id = lane.wire.id THEN Failed(@) ELSE @]
          PROVE  HonestInv'
      BY <2>0, <2>3, <3>1, <3>3, EntryKept DEF HonestTable
    <3>4. ASSUME NEW n \in LaneCommands, NEW L, AcceptCommand(n, L, pauses)
          PROVE  HonestInv'
      BY <2>0, <2>3, <3>1, <3>4, AcceptHonest DEF Names
    <3> QED BY <2>4, <3>2, <3>3, <3>4 DEF ControlReply
  <2>5. ASSUME NEW ok \in BOOLEAN, PauseReply(ok) PROVE HonestInv'
    <3>1. UNCHANGED <<snap, obs>> /\ Scheduled \in Names
      BY <2>5 DEF PauseReply, Names
    <3>2. CASE cmds' = [cmds EXCEPT ![Scheduled] = Failed(@)]
      BY <2>0, <2>3, <3>1, <3>2, EntryKept DEF HonestTable
    <3>3. ASSUME NEW P, AcceptCommand(Scheduled, lane, P) PROVE HonestInv'
      BY <2>0, <2>3, <3>1, <3>3, AcceptHonest
    <3> QED BY <2>5, <3>2, <3>3 DEF PauseReply
  <2>6. CASE SettleResume
    <3>1. HonestTable(cmds', snap)
      BY <2>0, <2>6, EntryKept DEF SettleResume, HonestTable, Names
    <3> QED BY <2>3, <2>6, <3>1 DEF SettleResume
  <2>7. ASSUME NEW n \in Names, DeadlinePasses(n) PROVE HonestInv'
    <3>1. HonestTable(cmds', snap)
      BY <2>0, <2>7, EntryKept DEF DeadlinePasses, HonestTable
    <3> QED BY <2>3, <2>7, <3>1 DEF DeadlinePasses
  <2>8. CASE ExpireCommands
    <3>1. HonestTable(cmds', snap)
      BY <2>0, <2>8, TableObserved DEF ExpireCommands
    <3> QED BY <2>3, <2>8, <3>1 DEF ExpireCommands
  <2>9. ASSUME NEW reading \in Readings, NEW lower, NEW job, NEW layer,
               AdmitFrame(reading, lower, job, layer)
        PROVE  HonestInv'
    BY <2>9, FrameHonest
  <2>10. CASE InvalidateSession
    <3>1. ~Live(NoCommand) /\ NoCommand.outcome = "none" /\ NoCommand.atIssue = FALSE
      BY DEF NoCommand, Live, LiveOutcomes
    <3>2. HonestTable([n \in Names |-> NoCommand], NoState)
      BY <3>1 DEF HonestTable, EntryHonest
    <3>3. NoState \notin Active
      BY DEF NoState, Active
    <3> QED BY <2>10, <3>2, <3>3 DEF InvalidateSession, HonestInv, HonestTable
  <2> QED BY <2>1, <2>2, <2>4, <2>5, <2>6, <2>7, <2>8, <2>9, <2>10
         DEF Next, Request, TogglePause, ClearPauses, EmergencyStop, ConnectionLost,
             KlippyReady, vars
<1>3. HonestInv => ConfirmedHonestly
  BY DEF HonestInv, HonestTable, EntryHonest, ConfirmedHonestly
<1> QED BY <1>1, <1>2, <1>3, TypeCorrect, PTL DEF Spec

-----------------------------------------------------------------------------
(* What the tracker does to an entry: it keeps its id, it never empties it,*)
(* and it leaves a terminal one alone.                                     *)

Later(c, d) ==
    /\ d.id = c.id
    /\ c.outcome # "none" => d.outcome # "none"
    /\ ~Live(c) => d = c

LaterTable(t, u) == \A n \in Names : Later(t[n], u[n])

MergedEntry(c, news) == [c EXCEPT !.merged = TRUE, !.fresh = @ \/ news]

LEMMA EntryLater ==
    ASSUME NEW c \in Commands, NEW n, NEW reading, NEW news \in BOOLEAN
    PROVE  /\ Later(c, Accepted(c))
           /\ Later(c, Settled(c))
           /\ Later(c, ObservedEntry(c, n, reading))
           /\ Live(c) => Later(c, Failed(c))
           /\ Live(c) => Later(c, MergedEntry(c, news))
           /\ Live(c) => Later(c, [c EXCEPT !.overdue = TRUE])
BY DEF Later, Commands, Accepted, Settled, ObservedEntry, Failed, MergedEntry, Live, LiveOutcomes

LEMMA TableLater ==
    ASSUME NEW table \in [Names -> Commands], NEW reading
    PROVE  /\ LaterTable(table, Observed(table, reading))
           /\ LaterTable(table, Superseded(table))
           /\ LaterTable(table, Merged(table, reading))
<1>1. LaterTable(table, Observed(table, reading))
  BY EntryLater DEF LaterTable, Observed
<1>2. LaterTable(table, Superseded(table))
  BY EntryLater DEF LaterTable, Superseded, Later
<1>3. ASSUME NEW n \in Names PROVE Later(table[n], Merged(table, reading)[n])
  <2>1. (reading \in Expected[n]) \in BOOLEAN
    OBVIOUS
  <2>2. Merged(table, reading)[n] =
          IF Live(table[n]) THEN MergedEntry(table[n], reading \in Expected[n]) ELSE table[n]
    BY DEF Merged, MergedEntry
  <2>3. Live(table[n]) => Later(table[n], MergedEntry(table[n], reading \in Expected[n]))
    BY <2>1, EntryLater
  <2>4. ~Live(table[n]) => Later(table[n], table[n])
    BY DEF Later
  <2> QED BY <2>2, <2>3, <2>4
<1> QED BY <1>1, <1>2, <1>3 DEF LaterTable

LEMMA LaterTrans ==
    ASSUME NEW t, NEW u, NEW v, LaterTable(t, u), LaterTable(u, v)
    PROVE  LaterTable(t, v)
<1> SUFFICES ASSUME NEW n \in Names PROVE Later(t[n], v[n])
  BY DEF LaterTable
<1>1. Later(t[n], u[n]) /\ Later(u[n], v[n])
  BY DEF LaterTable
<1> QED BY <1>1 DEF Later

LEMMA ReobservedLater ==
    ASSUME TypeOK, NEW n \in Names
    PROVE  LaterTable(cmds, Reobserved(n))
<1> DEFINE taken == [cmds EXCEPT ![n] = Accepted(@)]
<1>1. taken \in [Names -> Commands] /\ LaterTable(cmds, taken)
  BY EntryTypes, EntryLater DEF TypeOK, LaterTable, Later
<1>2. LaterTable(taken, Observed(taken, snap))
  <2> HIDE DEF taken
  <2> QED BY <1>1, TableLater
<1>3. Reobserved(n) \in {taken, Observed(taken, snap)}
  BY DEF Reobserved
<1> HIDE DEF taken
<1> QED BY <1>1, <1>2, <1>3, LaterTrans

\* What a frame does to the table before it can issue a scheduled PAUSE.
LEMMA FrameLater ==
    ASSUME NEW table \in [Names -> Commands], NEW reading
    PROVE  LET merged == Observed(Merged(table, reading), reading)
           IN  /\ merged \in [Names -> Commands]
               /\ LaterTable(table, merged)
               /\ LaterTable(table, Superseded(merged))
               /\ LaterTable(merged, Superseded(merged))
<1> DEFINE between == Merged(table, reading)
           merged  == Observed(between, reading)
<1>1. between \in [Names -> Commands] /\ LaterTable(table, between)
  BY TableTypes, TableLater
<1>2. merged \in [Names -> Commands] /\ LaterTable(between, merged)
  <2> HIDE DEF between
  <2> QED BY <1>1, TableTypes, TableLater
<1>3. LaterTable(merged, Superseded(merged))
  <2> HIDE DEF merged
  <2> QED BY <1>2, TableLater
<1>4. LaterTable(table, merged)
  <2> HIDE DEF merged, between
  <2> QED BY <1>1, <1>2, LaterTrans
<1>5. LaterTable(table, Superseded(merged))
  <2> HIDE DEF merged, between
  <2> QED BY <1>3, <1>4, LaterTrans
<1> QED BY <1>2, <1>3, <1>4, <1>5

-----------------------------------------------------------------------------
(* A layer fires one PAUSE.                                                *)
(*                                                                         *)
(* The layers with no lifecycle state are those that have not fired; and a *)
(* target is always tracked, so that what its layer hears is a verdict,    *)
(* never the empty outcome that would make it due again.                   *)

Once(P) ==
    /\ P.job = NoJob => P.target = NoLayer
    /\ \A l \in Layers : P.posts[l] <= 1 /\ (P.states[l] = "none" => P.posts[l] = 0)

Told(P, table) == P.target # NoLayer => table[Scheduled].outcome # "none"

OnceInv == Once(pauses) /\ Told(pauses, cmds)

LEMMA HearsOnce ==
    ASSUME NEW P \in Controllers, NEW table \in [Names -> Commands], NEW E, Once(P),
           Scheduled \in E => Told(P, table)
    PROVE  /\ Once(PauseHears(P, table, E))
           /\ PauseHears(P, table, E).target \in {P.target, NoLayer}
<1> DEFINE word    == table[Scheduled].outcome
           verdict == IF word = "confirmed" THEN "passed" ELSE word
<1>1. CASE PauseHears(P, table, E) = P
  BY <1>1
<1>2. CASE Scheduled \in E /\ P.target # NoLayer /\ ~Live(table[Scheduled])
  <2>1. verdict # "none" /\ P.target \in Layers
    BY <1>2 DEF Told, Controllers
  <2>2. PauseHears(P, table, E) = [P EXCEPT !.states[P.target] = verdict, !.target = NoLayer]
    BY <1>2 DEF PauseHears
  <2> HIDE DEF verdict
  <2> QED BY <2>1, <2>2 DEF Once, Controllers
<1> QED BY <1>1, <1>2 DEF PauseHears

LEMMA BoundOnce ==
    ASSUME NEW P \in Controllers, Once(P), NEW j
    PROVE  /\ Once(Bound(P, j))
           /\ Bound(P, j).target \in {P.target, NoLayer}
           /\ Bound(P, j).job = j
BY DEF Bound, Unbound, Once, Controllers

LEMMA FiredOnce ==
    ASSUME NEW P \in Controllers, Once(P), NEW current, NEW raw, Fires(P, current, raw)
    PROVE  Once(Fired(P, current))
<1> DEFINE l    == Target(P, current)
           due  == Due(P, current)
           next == IF P.out THEN "failed" ELSE "fired"
           aim  == IF P.out THEN NoLayer ELSE l
<1>1. l \in Layers /\ P.states[l] = "none" /\ P.job # NoJob
  BY TargetDue DEF Fires, Due
<1>2. P.posts[l] = 0 /\ next # "none"
  BY <1>1 DEF Once
<1>3. Fired(P, current) = [P EXCEPT !.states[l] = next, !.target = aim, !.out = TRUE,
                                    !.posts[l] = @ + 1, !.covered = @ \cup (due \ {l})]
  BY DEF Fired
<1> HIDE DEF l, due, next, aim
<1> QED BY <1>1, <1>2, <1>3 DEF Once, Controllers

LEMMA ToldLater ==
    ASSUME NEW P, NEW t, NEW u, Told(P, t), LaterTable(t, u),
           NEW Q, Q.target \in {P.target, NoLayer}
    PROVE  Told(Q, u)
BY DEF Told, LaterTable, Later, Names

LEMMA AcceptOnce ==
    ASSUME TypeOK, NEW n \in Names, NEW L, NEW P \in Controllers,
           Once(P), Told(P, cmds), AcceptCommand(n, L, P)
    PROVE  OnceInv'
<1> DEFINE table == Reobserved(n)
<1>1. PICK e, heard : /\ cmds'   = Unheard(table, heard)
                      /\ pauses' = PauseHears(P, table, {e})
  BY DEF AcceptCommand
<1>2. table \in [Names -> Commands] /\ LaterTable(cmds, table)
  BY ReobservedType, ReobservedLater
<1> HIDE DEF table
<1>3. Told(P, table)
  BY <1>2, ToldLater
<1>4. Once(pauses') /\ pauses'.target \in {P.target, NoLayer}
  BY <1>1, <1>2, <1>3, HearsOnce
<1>5. Scheduled \in Names /\ cmds'[Scheduled].outcome = table[Scheduled].outcome
  BY <1>1, <1>2 DEF Unheard, Names, Commands
<1> QED BY <1>3, <1>4, <1>5 DEF OnceInv, Told

LEMMA FrameOnce ==
    ASSUME TypeOK, OnceInv, NEW reading \in Readings, NEW lower \in {FALSE, assumed},
           NEW job \in Jobs \cup {NoJob}, NEW layer \in Observations,
           AdmitFrame(reading, lower, job, layer)
    PROVE  OnceInv'
<1> DEFINE raw     == IF reading = NoState THEN snap ELSE reading
           merged  == Observed(Merged(cmds, reading), reading)
           closed  == Closed(cmds, merged)
           stopped == assumed /\ raw \in Active /\ ~lower
           shown   == IF stopped THEN "cancelled" ELSE raw
           arming  == snap \notin Active /\ shown \in Active
           stale   == IF arming THEN Pending(merged) ELSE {}
           table   == IF arming THEN Superseded(merged) ELSE merged
           heard   == PauseHears(pauses, table, stale)
           whose   == IF shown \in Active THEN job ELSE NoJob
           bound   == Bound(heard, whose)
           seen    == IF shown \in Active THEN [bound EXCEPT !.current = layer] ELSE bound
           fires   == shown \in Active /\ Fires(seen, layer, raw)
           after   == IF fires THEN Fired(seen, layer) ELSE seen
<1>1. /\ merged \in [Names -> Commands] /\ table \in [Names -> Commands]
      /\ LaterTable(cmds, table) /\ LaterTable(merged, table)
  <2>1. /\ merged \in [Names -> Commands]
        /\ LaterTable(cmds, merged)
        /\ LaterTable(cmds, Superseded(merged))
        /\ LaterTable(merged, Superseded(merged))
    BY FrameLater DEF TypeOK
  <2> HIDE DEF merged, arming
  <2>2. LaterTable(merged, merged)
    BY DEF LaterTable, Later
  <2> QED BY <2>1, <2>2, TableTypes
\* What the frame closed has a verdict.
<1>2. Scheduled \in closed => table[Scheduled].outcome # "none"
  <2> HIDE DEF merged, table
  <2>1. Scheduled \in closed => cmds[Scheduled].outcome # "none"
    BY DEF Closed, Pending, Live, LiveOutcomes
  <2> QED BY <1>1, <2>1 DEF LaterTable, Later, Names
<1>3. heard \in Controllers /\ Once(heard) /\ heard.target \in {pauses.target, NoLayer}
  <2>1. Told(pauses, table)
    <3> HIDE DEF table
    <3> QED BY <1>1, ToldLater DEF OnceInv
  <2> HIDE DEF table, stale
  <2> QED BY <1>1, <2>1, HearsOnce, PauseHearsType DEF OnceInv, TypeOK
<1>4. bound \in Controllers /\ Once(bound) /\ bound.target \in {heard.target, NoLayer}
  <2>1. whose \in Jobs \cup {NoJob}
    OBVIOUS
  <2> HIDE DEF heard, whose
  <2> QED BY <1>3, <2>1, BoundOnce, BoundType
<1>5. seen \in Controllers /\ Once(seen) /\ seen.target = bound.target
  <2>1. layer \in Nat \cup {NoLayer}
    BY LayersAssumption DEF Observations
  <2> HIDE DEF bound, shown
  <2> QED BY <1>4, <2>1 DEF Once, Controllers
<1>6. Told(seen, table)
  <2>1. seen.target \in {pauses.target, NoLayer}
    <3> HIDE DEF seen, bound, heard
    <3> QED BY <1>3, <1>4, <1>5
  <2> HIDE DEF seen, table
  <2> QED BY <1>1, <2>1, ToldLater DEF OnceInv
<1>7. after \in Controllers /\ Once(after)
  <2> HIDE DEF seen, raw, shown
  <2> QED BY <1>5, FiredOnce, FiredType
<1>8. pauses' = PauseHears(after, table, closed)
  BY DEF AdmitFrame
<1>9. Once(pauses') /\ pauses'.target \in {after.target, NoLayer}
  <2>1. Scheduled \in closed => Told(after, table)
    BY <1>2 DEF Told
  <2> HIDE DEF after, table, closed
  <2> QED BY <1>1, <1>7, <1>8, <2>1, HearsOnce
\* The entry of a PAUSE that fires is a new one.
<1>10. Told(after, cmds')
  <2>1. CASE ~fires
    <3>1. after = seen /\ cmds' = table
      BY <2>1 DEF AdmitFrame
    <3> HIDE DEF after, seen, table
    <3> QED BY <1>6, <3>1
  <2>2. CASE fires
    <3>1. cmds' = [table EXCEPT ![Scheduled] = IF seen.out THEN Failed(Issued(Scheduled, 0, raw))
                                               ELSE Issued(Scheduled, 0, raw)]
      BY <2>2 DEF AdmitFrame
    <3>2. Scheduled \in Names
      BY DEF Names
    <3>3. /\ Issued(Scheduled, 0, raw).outcome = "pending"
          /\ Issued(Scheduled, 0, raw) \in Commands
      <4> HIDE DEF raw
      <4> QED BY <3>2, IssuedType DEF Issued, NoCommand
    <3>4. Failed(Issued(Scheduled, 0, raw)).outcome = "failed"
      <4> HIDE DEF raw
      <4> QED BY <3>3 DEF Failed, Commands
    <3> HIDE DEF table, seen, raw
    <3> QED BY <1>1, <3>1, <3>2, <3>3, <3>4 DEF Told
  <2> QED BY <2>1, <2>2
<1> HIDE DEF after
<1> QED BY <1>9, <1>10 DEF OnceInv, Told

LEMMA OnceStep == TypeOK /\ OnceInv /\ [Next]_vars => OnceInv'
<1> SUFFICES ASSUME TypeOK, OnceInv, [Next]_vars PROVE OnceInv'
  OBVIOUS
<1>0. /\ cmds \in [Names -> Commands] /\ pauses \in Controllers
      /\ Once(pauses) /\ Told(pauses, cmds) /\ Scheduled \in Names
  BY DEF TypeOK, OnceInv, Names
<1>1. ASSUME Once(pauses'), pauses'.target \in {pauses.target, NoLayer},
             LaterTable(cmds, cmds') \/ cmds'[Scheduled] = cmds[Scheduled]
      PROVE  OnceInv'
  BY <1>0, <1>1 DEF OnceInv, Told, LaterTable, Later
<1>2. ASSUME NEW n \in LaneCommands, Press(n) PROVE OnceInv'
  <2>1. n # Scheduled
    BY LaneAssumption DEF Scheduled
  <2>2. cmds'[Scheduled] = cmds[Scheduled] /\ UNCHANGED pauses
    BY <1>0, <1>2, <2>1 DEF Press
  <2> QED BY <1>0, <1>1, <2>2
<1>3. ASSUME NEW l \in Layers, TogglePause(l) PROVE OnceInv'
  <2>1. Once(pauses') /\ pauses'.target = pauses.target
    <3>1. CASE pauses' = Removed(pauses, l)
      BY <1>0, <3>1 DEF Removed, Once, Controllers
    <3>2. CASE pauses' = [pauses EXCEPT !.layers = @ \cup {l}]
      BY <1>0, <3>2 DEF Once, Controllers
    <3> QED BY <1>3, <3>1, <3>2 DEF TogglePause
  <2> QED BY <1>1, <1>3, <2>1 DEF TogglePause
<1>4. CASE ClearPauses
  <2>1. Once(pauses') /\ pauses'.target = pauses.target
    BY <1>0, <1>4 DEF ClearPauses, Once, Controllers
  <2> QED BY <1>1, <1>4, <2>1 DEF ClearPauses
<1>5. CASE EmergencyStop
  <2>1. pauses' \in {pauses, Bound(pauses, NoJob)} /\ UNCHANGED cmds
    BY <1>5 DEF EmergencyStop
  <2> QED BY <1>0, <1>1, <2>1, BoundOnce
<1>6. ASSUME NEW n \in Names, NEW L, AcceptCommand(n, L, pauses) PROVE OnceInv'
  BY <1>0, <1>6, AcceptOnce
<1>7. ASSUME NEW ok \in BOOLEAN, ControlReply(ok) PROVE OnceInv'
  <2>1. CASE UNCHANGED <<cmds, pauses>>
    BY <1>0, <1>1, <2>1
  <2>2. CASE /\ UNCHANGED pauses
             /\ cmds' = IF lane.wire.label \in LaneCommands
                        THEN [cmds EXCEPT ![lane.wire.label] =
                                IF @.id = lane.wire.id THEN Failed(@) ELSE @]
                        ELSE cmds
    <3>1. lane.wire.label \in LaneCommands => lane.wire.label # Scheduled
      BY LaneAssumption DEF Scheduled
    <3>2. cmds'[Scheduled] = cmds[Scheduled]
      BY <1>0, <2>2, <3>1
    <3> QED BY <1>0, <1>1, <2>2, <3>2
  <2>3. CASE \E n \in Names : \E L : AcceptCommand(n, L, pauses)
    BY <1>6, <2>3
  <2> QED BY <1>7, <2>1, <2>2, <2>3 DEF ControlReply, Names
<1>8. ASSUME NEW ok \in BOOLEAN, PauseReply(ok) PROVE OnceInv'
  <2> DEFINE P == [pauses EXCEPT !.out = FALSE]
  <2>1. P \in Controllers /\ P.target = pauses.target /\ Once(P)
    BY <1>0 DEF Once, Controllers
  <2> HIDE DEF P
  <2>2. Told(P, cmds)
    BY <1>0, <2>1 DEF Told
  <2>3. CASE AcceptCommand(Scheduled, lane, P)
    BY <1>0, <2>1, <2>2, <2>3, AcceptOnce
  <2>4. CASE cmds' = [cmds EXCEPT ![Scheduled] = Failed(@)] /\ pauses' = PauseHears(P, cmds', {Scheduled})
    <3>1. cmds' \in [Names -> Commands] /\ cmds'[Scheduled].outcome = "failed"
      <4>1. Failed(cmds[Scheduled]) \in Commands /\ Failed(cmds[Scheduled]).outcome = "failed"
        BY <1>0, EntryTypes DEF Failed, Commands
      <4> QED BY <1>0, <2>4, <4>1
    <3>2. Told(P, cmds')
      BY <3>1 DEF Told
    <3>3. Once(pauses')
      BY <2>1, <2>4, <3>1, <3>2, HearsOnce
    <3> QED BY <3>1, <3>3 DEF OnceInv, Told
  <2> QED BY <1>8, <2>3, <2>4 DEF PauseReply, P
<1>9. CASE SettleResume
  <2>1. LaterTable(cmds, cmds')
    BY <1>0, <1>9, EntryLater DEF SettleResume, LaterTable, Later, Names
  <2> QED BY <1>0, <1>1, <1>9, <2>1 DEF SettleResume
<1>10. ASSUME NEW n \in Names, DeadlinePasses(n) PROVE OnceInv'
  <2>1. Live(cmds[n]) => Later(cmds[n], [cmds[n] EXCEPT !.overdue = TRUE])
    BY <1>0, EntryLater
  <2>2. LaterTable(cmds, cmds')
    BY <1>0, <1>10, <2>1 DEF DeadlinePasses, LaterTable, Later
  <2> QED BY <1>0, <1>1, <1>10, <2>2 DEF DeadlinePasses
<1>11. CASE ExpireCommands
  <2>1. /\ LaterTable(cmds, cmds') /\ cmds' \in [Names -> Commands]
        /\ \E E : pauses' = PauseHears(pauses, cmds', E)
    BY <1>0, <1>11, TableLater, TableTypes DEF ExpireCommands
  <2>2. Told(pauses, cmds')
    BY <1>0, <2>1, ToldLater
  <2>3. Once(pauses') /\ pauses'.target \in {pauses.target, NoLayer}
    BY <1>0, <2>1, <2>2, HearsOnce
  <2> QED BY <1>1, <2>1, <2>3
<1>12. ASSUME NEW reading \in Readings, NEW lower \in {FALSE, assumed},
              NEW job \in Jobs \cup {NoJob}, NEW layer \in Observations,
              AdmitFrame(reading, lower, job, layer)
       PROVE  OnceInv'
  BY <1>12, FrameOnce
<1>13. CASE InvalidateSession
  <2>1. Once(pauses') /\ pauses'.job = NoJob
    BY <1>0, <1>13, BoundOnce DEF InvalidateSession
  <2>2. pauses'.target = NoLayer
    BY <2>1 DEF Once
  <2> QED BY <2>1, <2>2 DEF OnceInv, Told
<1>14. CASE UNCHANGED <<cmds, pauses>>
  BY <1>0, <1>1, <1>14
<1> QED BY <1>2, <1>3, <1>4, <1>5, <1>7, <1>8, <1>9, <1>10, <1>11, <1>12, <1>13, <1>14
       DEF Next, Request, ConnectionLost, KlippyReady, vars

\* An entry of the schedule fires one PAUSE in its life: no failure, missed
\* deadline, new print or POST that is still out makes its layer due again.
THEOREM OnePauseIsFired == Spec => []OnePausePerEntry
<1>1. Init => OnceInv
  <2>1. Once(Unbound(NoJob)) /\ Unbound(NoJob).target = NoLayer
    BY DEF Once, Unbound
  <2> QED BY <2>1 DEF Init, OnceInv, Told
<1>2. OnceInv => OnePausePerEntry
  BY DEF OnceInv, Once, OnePausePerEntry
<1> QED BY <1>1, <1>2, OnceStep, TypeCorrect, PTL DEF Spec

-----------------------------------------------------------------------------
(* A busy lane waits for something.                                        *)
(*                                                                         *)
(* BusyLaneWaits is inductive once it also says that the POST a busy lane  *)
(* has out is the one of the command it tracks: the acceptance of another  *)
(* would leave the lane without its own.  Followed is the tracked half,    *)
(* with a set E of names whose verdict the lane is yet to hear.            *)

Own(L) ==
    L.busy /\ L.wire # NoPost =>
        /\ L.wire.id = L.dispatch
        /\ L.wire.label \in LaneCommands => L.tracked = L.wire.label
        /\ L.wire.label \notin LaneCommands => L.tracked = Untracked

Followed(L, table, E) ==
    L.busy =>
        /\ L.tracked = Untracked => L.wire # NoPost
        /\ L.tracked # Untracked =>
              /\ table[L.tracked].id = L.dispatch
              /\ Live(table[L.tracked]) \/ table[L.tracked].unheard \/ L.tracked \in E

WaitsInv == Own(lane) /\ Followed(lane, cmds, {})

LEMMA SentWaits ==
    ASSUME NEW L \in Lanes, NEW label \in LaneCommands \cup OneShots
    PROVE  /\ Own(Sent(L, label))
           /\ Sent(L, label).wire # NoPost
           /\ Sent(L, label).dispatch = L.sent + 1
           /\ Sent(L, label).tracked = IF label \in LaneCommands THEN label ELSE Untracked
<1> DEFINE i    == L.sent + 1
           mark == IF label \in LaneCommands THEN label ELSE Untracked
           post == [id |-> i, label |-> label]
<1>1. Sent(L, label) = [L EXCEPT !.busy = TRUE, !.tracked = mark, !.sent = i, !.dispatch = i,
                                 !.wire = post]
  BY DEF Sent, Lanes
<1>2. post.id = i /\ post.label = label /\ NoPost.id = 0 /\ i # 0
  BY DEF NoPost, Lanes
<1>3. post # NoPost
  BY <1>2
<1>4. /\ label \in LaneCommands => mark = label
      /\ label \notin LaneCommands => mark = Untracked
  OBVIOUS
<1> HIDE DEF i, mark, post
<1>5. /\ Sent(L, label).wire = post /\ Sent(L, label).dispatch = i
      /\ Sent(L, label).tracked = mark
  BY <1>1 DEF Lanes
<1>6. Own(Sent(L, label))
  BY <1>2, <1>4, <1>5 DEF Own
<1> QED BY <1>3, <1>5, <1>6 DEF i, mark

LEMMA LaneNames ==
    /\ Untracked \notin Names
    /\ Scheduled \notin LaneCommands
    /\ LaneCommands \cap OneShots = {}
BY LaneAssumption DEF Names, Untracked, Scheduled, OneShots

\* The head that a pump sends is a one-shot its queue held and its rule allowed.
LEMMA PumpedSends ==
    ASSUME NEW L \in Lanes, NEW state, NEW online
    PROVE  LET R == Pumped(L, state, online)
           IN  \/ R.busy = L.busy /\ R.sent = L.sent /\ R.wire = L.wire
               \/ \E M \in Lanes, shot \in OneShots :
                    /\ M.sent = L.sent /\ M.wire = L.wire
                    /\ R = Sent(M, shot)
                    /\ Allowed(shot, state, online)
<1> DEFINE allowed == {i \in DOMAIN L.queue : Allowed(L.queue[i], state, online)}
           first   == CHOOSE i \in allowed : \A k \in allowed : i <= k
           rest    == SubSeq(L.queue, first + 1, Len(L.queue))
           R       == Pumped(L, state, online)
<1>1. CASE allowed # {} /\ L.wire = NoPost
  <2>1. R = Sent([L EXCEPT !.queue = rest], L.queue[first])
    BY <1>1 DEF Pumped
  <2>0. L.queue \in Seq(OneShots) /\ DOMAIN L.queue = 1..Len(L.queue) /\ Len(L.queue) \in Nat
    BY DEF Lanes, Queues
  <2>2. allowed \in SUBSET Nat
    BY <2>0
  <2>3. first \in allowed
    <3> HIDE DEF allowed
    <3> QED BY <1>1, <2>2, Least
  <2>4. first \in DOMAIN L.queue /\ Allowed(L.queue[first], state, online)
    <3> HIDE DEF first
    <3> QED BY <2>3
  <2> HIDE DEF first, allowed, R
  <2>5. first + 1 \in Int /\ Len(L.queue) \in Int
    BY <2>0, <2>4
  <2>6. \A i \in (first + 1)..Len(L.queue) : L.queue[i] \in OneShots
    BY <2>0, <2>4, ElementOfSeq
  <2>7. rest \in Queues
    BY <2>5, <2>6, SubSeqProperties DEF Queues
  <2> HIDE DEF rest
  <2> DEFINE M == [L EXCEPT !.queue = rest]
  <2>8. M \in Lanes /\ M.sent = L.sent /\ M.wire = L.wire /\ L.queue[first] \in OneShots
    BY <2>0, <2>4, <2>7, ElementOfSeq DEF Lanes
  <2> HIDE DEF M
  <2> QED BY <2>1, <2>4, <2>8 DEF R, M
<1>2. CASE allowed = {} \/ L.wire # NoPost
  <2>1. R \in {[L EXCEPT !.queue = <<>>], [L EXCEPT !.queue = <<>>, !.dispatch = 0]}
    BY <1>2 DEF Pumped
  <2>2. R.busy = L.busy /\ R.sent = L.sent /\ R.wire = L.wire
    <3> HIDE DEF R
    <3> QED BY <2>1 DEF Lanes
  <2> QED BY <2>2
<1> QED BY <1>1, <1>2

\* A lane that is pumped ends idle, or with the POST of a one-shot out.
LEMMA PumpedWaits ==
    ASSUME NEW L \in Lanes, ~L.busy, NEW state, NEW online
    PROVE  LET R == Pumped(L, state, online)
           IN  Own(R) /\ \A table, E : Followed(R, table, E)
<1> DEFINE R == Pumped(L, state, online)
<1>1. CASE ~R.busy
  BY <1>1 DEF Own, Followed
<1>2. ASSUME NEW M \in Lanes, NEW shot \in OneShots, R = Sent(M, shot)
      PROVE  Own(R) /\ \A table, E : Followed(R, table, E)
  <2> HIDE DEF R
  <2>1. Own(R) /\ R.wire # NoPost /\ R.tracked = Untracked
    BY <1>2, SentWaits, LaneNames
  <2> QED BY <2>1 DEF Followed
<1> QED BY <1>1, <1>2, PumpedSends

LEMMA ReleasedWaits ==
    ASSUME NEW L \in Lanes, NEW state, NEW online
    PROVE  LET R == Released(L, state, online)
           IN  Own(R) /\ \A table, E : Followed(R, table, E)
<1> DEFINE free == [L EXCEPT !.busy = FALSE, !.tracked = Untracked]
<1>1. free \in Lanes /\ ~free.busy
  BY DEF Lanes
<1> HIDE DEF free
<1>2. Released(L, state, online) = Pumped(free, state, online)
  BY DEF Released, free
<1> QED BY <1>1, <1>2, PumpedWaits

\* Hearing the names of E leaves nothing of E to be heard.
LEMMA HearsWaits ==
    ASSUME NEW L \in Lanes, NEW table, NEW E, NEW F, Own(L), Followed(L, table, E \cup F),
           NEW state, NEW online
    PROVE  LET R == LaneHears(L, table, E, state, online)
           IN  Own(R) /\ Followed(R, table, F)
<1>1. CASE LaneHears(L, table, E, state, online) = Released(L, state, online)
  BY <1>1, ReleasedWaits
<1>2. CASE /\ LaneHears(L, table, E, state, online) = L
           /\ ~(/\ L.tracked \in E
                /\ table[L.tracked].id = L.dispatch
                /\ ~Live(table[L.tracked]))
  BY <1>2 DEF Followed
<1> QED BY <1>1, <1>2 DEF LaneHears

\* A later table keeps the command of the lane, up to the ones it closed.
LEMMA LaterFollowed ==
    ASSUME NEW L \in Lanes, NEW t, NEW u, LaterTable(t, u), Followed(L, t, {}), NEW E,
           Closed(t, u) \subseteq E
    PROVE  Followed(L, u, E)
<1>1. CASE L.tracked = Untracked
  BY <1>1 DEF Followed
<1>2. CASE L.tracked # Untracked
  <2>1. L.tracked \in Names
    BY <1>2 DEF Lanes, Names
  <2>2. Later(t[L.tracked], u[L.tracked])
    BY <2>1 DEF LaterTable
  <2>3. Live(t[L.tracked]) /\ ~Live(u[L.tracked]) => L.tracked \in E
    BY <2>1 DEF Closed, Pending
  <2> QED BY <1>2, <2>2, <2>3 DEF Followed, Later
<1> QED BY <1>1, <1>2

\* The acceptance of a command, whoever's: what it closes besides the one event
\* that is emitted is unheard.
LEMMA AcceptWaits ==
    ASSUME TypeOK, NEW n \in Names, NEW L \in Lanes, NEW P, Own(L), Followed(L, cmds, {}),
           AcceptCommand(n, L, P)
    PROVE  WaitsInv'
<1> DEFINE table  == Reobserved(n)
           closed == Closed(cmds, table)
<1>1. PICK e : /\ cmds' = Unheard(table, closed \ {e})
               /\ lane' = LaneHears(L, table, {e}, obs, connected)
  BY DEF AcceptCommand
<1>2. table \in [Names -> Commands] /\ LaterTable(cmds, table)
  BY ReobservedType, ReobservedLater
<1> HIDE DEF table
<1>3. Followed(L, table, {e} \cup (closed \ {e}))
  <2>1. closed \subseteq {e} \cup (closed \ {e})
    OBVIOUS
  <2> QED BY <1>2, <2>1, LaterFollowed
<1> HIDE DEF closed
<1>4. Own(lane') /\ Followed(lane', table, closed \ {e}) /\ lane' \in Lanes
  BY <1>1, <1>3, HearsWaits, LaneTypes
<1>5. \A m \in Names : /\ cmds'[m].id = table[m].id
                       /\ Live(table[m]) => Live(cmds'[m])
                       /\ table[m].unheard \/ m \in closed \ {e} => cmds'[m].unheard
  BY <1>1, <1>2 DEF Unheard, Commands, Live, LiveOutcomes
<1>6. lane'.tracked # Untracked => lane'.tracked \in Names
  BY <1>4 DEF Lanes, Names
<1>7. Followed(lane', cmds', {})
  BY <1>4, <1>5, <1>6 DEF Followed
<1> QED BY <1>4, <1>7 DEF WaitsInv

LEMMA FrameWaits ==
    ASSUME TypeOK, WaitsInv, NEW reading \in Readings, NEW lower, NEW job, NEW layer,
           AdmitFrame(reading, lower, job, layer)
    PROVE  WaitsInv'
<1> DEFINE raw    == IF reading = NoState THEN snap ELSE reading
           merged == Observed(Merged(cmds, reading), reading)
           closed == Closed(cmds, merged)
           shown  == IF assumed /\ raw \in Active /\ ~lower THEN "cancelled" ELSE raw
           arming == snap \notin Active /\ shown \in Active
           stale  == IF arming THEN Pending(merged) ELSE {}
           table  == IF arming THEN Superseded(merged) ELSE merged
           lane1  == LaneHears(lane, table, stale, obs, TRUE)
<1>0. lane \in Lanes /\ Own(lane) /\ Followed(lane, cmds, {})
  BY DEF TypeOK, WaitsInv
<1>1. /\ merged \in [Names -> Commands]
      /\ LaterTable(cmds, merged)
      /\ LaterTable(cmds, Superseded(merged))
  BY FrameLater DEF TypeOK
<1>2. LaterTable(cmds, table) /\ Closed(cmds, table) \subseteq stale \cup closed
  <2>1. CASE ~arming
    BY <1>1, <2>1
  <2>2. CASE arming
    <3>1. table = Superseded(merged) /\ stale = Pending(merged)
      BY <2>2
    <3> HIDE DEF merged, table, stale
    <3> QED BY <1>1, <3>1 DEF Closed
  <2> QED BY <2>1, <2>2
<1>3. Followed(lane, table, stale \cup closed)
  <2> HIDE DEF table, stale, closed
  <2> QED BY <1>0, <1>2, LaterFollowed
<1>4. lane1 \in Lanes /\ Own(lane1) /\ Followed(lane1, table, closed)
  <2> HIDE DEF table, stale, closed
  <2> QED BY <1>0, <1>3, HearsWaits, LaneTypes
<1>5. lane' = LaneHears(lane1, table, closed, shown, TRUE)
  BY DEF AdmitFrame
<1>6. lane' \in Lanes /\ Own(lane') /\ Followed(lane', table, {})
  <2> HIDE DEF lane1, table, closed, shown
  <2>1. Followed(lane1, table, closed \cup {})
    BY <1>4
  <2> QED BY <1>4, <1>5, <2>1, HearsWaits, LaneTypes
<1>7. PICK c : cmds' \in {table, [table EXCEPT ![Scheduled] = c]}
  BY DEF AdmitFrame
<1>8. \A m \in LaneCommands : cmds'[m] = table[m]
  <2>1. table \in [Names -> Commands]
    <3> HIDE DEF merged
    <3> QED BY <1>1, TableTypes
  <2> HIDE DEF table
  <2> QED BY <1>7, <2>1, LaneNames DEF Names
<1>9. lane'.tracked # Untracked => lane'.tracked \in LaneCommands
  BY <1>6 DEF Lanes
<1>10. Followed(lane', cmds', {})
  <2> HIDE DEF table
  <2> QED BY <1>6, <1>8, <1>9 DEF Followed
<1> QED BY <1>6, <1>10 DEF WaitsInv

LEMMA WaitsStep == TypeOK /\ WaitsInv /\ [Next]_vars => WaitsInv'
<1> SUFFICES ASSUME TypeOK, WaitsInv, [Next]_vars PROVE WaitsInv'
  OBVIOUS
<1> DEFINE L == [lane EXCEPT !.wire = NoPost]
<1>0. /\ cmds \in [Names -> Commands] /\ lane \in Lanes
      /\ Own(lane) /\ Followed(lane, cmds, {}) /\ L \in Lanes
  BY LaneTypes DEF TypeOK, WaitsInv
<1>1. ASSUME Own(lane'), \A table, E : Followed(lane', table, E) PROVE WaitsInv'
  BY <1>1 DEF WaitsInv
<1>2. ASSUME ~lane'.busy PROVE WaitsInv'
  BY <1>2 DEF WaitsInv, Own, Followed
<1>3. ASSUME lane' = lane, LaterTable(cmds, cmds'), Closed(cmds, cmds') = {} PROVE WaitsInv'
  <2>1. Followed(lane, cmds', {})
    BY <1>0, <1>3, LaterFollowed
  <2> QED BY <1>0, <1>3, <2>1 DEF WaitsInv, Followed, Own
<1>4. ASSUME lane' = lane, cmds' = cmds PROVE WaitsInv'
  BY <1>0, <1>4 DEF WaitsInv, Followed, Own
<1>5. ASSUME NEW n \in LaneCommands, Press(n) PROVE WaitsInv'
  <2>1. CASE lane' = [lane EXCEPT !.dispatch = 0]
    BY <1>0, <1>2, <1>5, <2>1 DEF Press, Lanes
  <2>2. CASE /\ lane' = Sent(lane, n)
             /\ cmds' = [cmds EXCEPT ![n] = Issued(n, lane.sent + 1, snap)]
    <3>1. /\ Own(lane') /\ lane'.wire # NoPost
          /\ lane'.dispatch = lane.sent + 1 /\ lane'.tracked = n
      BY <1>0, <2>2, SentWaits
    <3>2. n \in Names /\ cmds'[n] = Issued(n, lane.sent + 1, snap)
      BY <1>0, <2>2 DEF Names
    <3>3. cmds'[n].id = lane.sent + 1 /\ Live(cmds'[n])
      <4>1. lane.sent + 1 \in Nat
        BY <1>0 DEF Lanes
      <4>2. /\ Issued(n, lane.sent + 1, snap).id = lane.sent + 1
            /\ Issued(n, lane.sent + 1, snap).outcome = "pending"
        BY DEF Issued, NoCommand
      <4> QED BY <3>2, <4>2 DEF Live, LiveOutcomes
    <3> QED BY <3>1, <3>3 DEF WaitsInv, Followed
  <2> QED BY <1>5, <2>1, <2>2 DEF Press
<1>6. ASSUME NEW shot \in OneShots, Request(shot) PROVE WaitsInv'
  <2>1. UNCHANGED cmds
    BY <1>6 DEF Request
  <2>2. CASE lane' = [lane EXCEPT !.queue = Append(@, shot)]
    <3>1. /\ lane'.busy = lane.busy /\ lane'.wire = lane.wire
          /\ lane'.tracked = lane.tracked /\ lane'.dispatch = lane.dispatch
      BY <1>0, <2>2 DEF Lanes
    <3> QED BY <1>0, <2>1, <3>1 DEF WaitsInv, Own, Followed
  <2>3. CASE lane' = Sent(lane, shot)
    <3>1. Own(lane') /\ lane'.wire # NoPost /\ lane'.tracked = Untracked
      BY <1>0, <2>3, SentWaits, LaneNames
    <3> QED BY <1>1, <3>1 DEF Followed
  <2>4. CASE ~lane.busy /\ lane' = [lane EXCEPT !.dispatch = 0]
    BY <1>0, <1>2, <2>4 DEF Lanes
  <2> QED BY <1>6, <2>2, <2>3, <2>4 DEF Request
<1>7. CASE EmergencyStop
  BY <1>0, <1>2, <1>7 DEF EmergencyStop, Cleared, Lanes
<1>8. ASSUME NEW ok \in BOOLEAN, ControlReply(ok) PROVE WaitsInv'
  <2> DEFINE w == lane.wire
  <2>0. /\ w # NoPost
        /\ L.busy = lane.busy /\ L.tracked = lane.tracked /\ L.dispatch = lane.dispatch
        /\ L.wire = NoPost
    BY <1>0, <1>8 DEF ControlReply, Lanes
  <2>1. CASE w.id # lane.dispatch /\ lane' = L
    BY <1>0, <1>2, <2>0, <2>1 DEF Own
  <2>2. CASE lane' = Released(L, obs, connected)
    <3> HIDE DEF L
    <3>1. Own(lane') /\ \A table, E : Followed(lane', table, E)
      BY <1>0, <2>2, ReleasedWaits
    <3> QED BY <1>1, <3>1
  <2>3. CASE /\ w.id = lane.dispatch /\ w.label \in LaneCommands
             /\ IF cmds[w.label].id = w.id THEN AcceptCommand(w.label, L, pauses)
                ELSE lane' = L /\ UNCHANGED <<cmds, pauses>>
    <3>1. lane.busy => lane.tracked = w.label /\ cmds[w.label].id = w.id
      BY <1>0, <2>0, <2>3, LaneNames DEF Own, Followed, Names
    <3>2. CASE cmds[w.label].id = w.id /\ AcceptCommand(w.label, L, pauses)
      <4>1. w.label \in Names /\ w.label # Untracked
        BY <2>3, LaneNames DEF Names
      <4>2. Own(L) /\ Followed(L, cmds, {})
        <5> HIDE DEF L
        <5> QED BY <1>0, <2>0, <3>1, <4>1 DEF Own, Followed
      <4> HIDE DEF L, w
      <4> QED BY <1>0, <3>2, <4>1, <4>2, AcceptWaits
    <3>3. CASE cmds[w.label].id # w.id /\ lane' = L
      BY <1>2, <2>0, <3>1, <3>3
    <3> QED BY <2>3, <3>2, <3>3
  <2> QED BY <1>8, <2>1, <2>2, <2>3 DEF ControlReply
<1>9. ASSUME NEW ok \in BOOLEAN, PauseReply(ok) PROVE WaitsInv'
  <2>1. Scheduled \in Names
    BY DEF Names
  <2>2. ASSUME NEW P, AcceptCommand(Scheduled, lane, P) PROVE WaitsInv'
    BY <1>0, <2>1, <2>2, AcceptWaits
  <2>3. CASE lane' = lane /\ cmds' = [cmds EXCEPT ![Scheduled] = Failed(@)]
    <3>1. \A m \in LaneCommands : cmds'[m] = cmds[m]
      BY <1>0, <2>3, LaneNames DEF Names
    <3>2. lane.tracked # Untracked => lane.tracked \in LaneCommands
      BY <1>0 DEF Lanes
    <3> QED BY <1>0, <2>3, <3>1, <3>2 DEF WaitsInv, Own, Followed
  <2> QED BY <1>9, <2>2, <2>3 DEF PauseReply
<1>10. ASSUME NEW E, LaterTable(cmds, cmds'), Closed(cmds, cmds') \subseteq E,
              lane' = LaneHears(lane, cmds', E, obs, connected)
       PROVE  WaitsInv'
  <2>1. Followed(lane, cmds', E \cup {})
    BY <1>0, <1>10, LaterFollowed
  <2>2. Own(lane') /\ Followed(lane', cmds', {})
    BY <1>0, <1>10, <2>1, HearsWaits
  <2> QED BY <2>2 DEF WaitsInv
<1>11. CASE SettleResume
  <2>1. "Resume" \in Names /\ cmds' = [cmds EXCEPT !["Resume"] = Settled(@)]
    BY <1>11 DEF SettleResume, Names
  <2>2. LaterTable(cmds, cmds')
    BY <1>0, <2>1, EntryLater DEF LaterTable, Later
  <2>3. Closed(cmds, cmds') \subseteq {"Resume"}
    BY <1>0, <2>1 DEF Closed, Pending
  <2>4. lane' = LaneHears(lane, cmds', {"Resume"}, obs, connected)
    BY <1>11 DEF SettleResume
  <2> QED BY <1>10, <2>2, <2>3, <2>4
<1>12. ASSUME NEW n \in Names, DeadlinePasses(n) PROVE WaitsInv'
  <2>1. Live(cmds[n]) /\ cmds' = [cmds EXCEPT ![n].overdue = TRUE] /\ lane' = lane
    BY <1>12 DEF DeadlinePasses
  <2>2. LaterTable(cmds, cmds')
    BY <1>0, <2>1, EntryLater DEF LaterTable, Later
  <2>3. Live([cmds[n] EXCEPT !.overdue = TRUE])
    BY <1>0, <2>1 DEF Live, Commands
  <2>4. Closed(cmds, cmds') = {}
    BY <1>0, <2>1, <2>3 DEF Closed, Pending
  <2> QED BY <1>3, <2>1, <2>2, <2>4
<1>13. CASE ExpireCommands
  <2>1. LaterTable(cmds, cmds')
    BY <1>0, <1>13, TableLater DEF ExpireCommands
  <2>2. lane' = LaneHears(lane, cmds', Closed(cmds, cmds'), obs, connected)
    BY <1>13 DEF ExpireCommands
  <2> QED BY <1>10, <2>1, <2>2
<1>14. ASSUME NEW reading \in Readings, NEW lower, NEW job, NEW layer,
              AdmitFrame(reading, lower, job, layer)
       PROVE  WaitsInv'
  BY <1>14, FrameWaits
<1>15. CASE InvalidateSession
  <2>1. Cleared(lane) \in Lanes /\ ~Cleared(lane).busy
    BY <1>0, LaneTypes DEF Cleared, Lanes
  <2>2. ~lane'.busy
    BY <1>15, <2>1 DEF InvalidateSession, Lanes
  <2> QED BY <1>2, <2>2
<1> QED BY <1>4, <1>5, <1>6, <1>7, <1>8, <1>9, <1>11, <1>12, <1>13, <1>14, <1>15
       DEF Next, TogglePause, ClearPauses, ConnectionLost, KlippyReady, vars

\* A busy lane always waits for something that will still release it: its own
\* POST, or a live command with its own id.  The one way out of this is a verdict
\* an acceptance reached without announcing it.
THEOREM BusyLaneAlwaysWaits == Spec => []BusyLaneWaits
<1>1. Init => WaitsInv
  BY DEF Init, WaitsInv, Own, Followed, IdleLane
<1>2. WaitsInv => BusyLaneWaits
  BY DEF WaitsInv, Own, Followed, BusyLaneWaits
<1> QED BY <1>1, <1>2, WaitsStep, TypeCorrect, PTL DEF Spec

-----------------------------------------------------------------------------
(* A confirmation stands.                                                  *)
(*                                                                         *)
(* The failure of a POST closes its command whatever the outcome was, so   *)
(* a verdict stands only because an accepted command's POST is no longer   *)
(* out, and because no later POST has its id.                              *)

Answered(table, L) ==
    \A n \in LaneCommands :
       /\ table[n].id <= L.sent
       /\ table[n].accepted => table[n].id > 0 /\ table[n].id # L.wire.id

Counted(L) == L.wire.id <= L.sent /\ (L.wire # NoPost => L.wire.id > 0)

NumberedInv == Counted(lane) /\ Answered(cmds, lane)

\* What one step may do to the entry of a command nobody pressed or failed.
SameEntry(c, d) ==
    /\ d.id = c.id
    /\ d.accepted => c.accepted
    /\ ~Live(c) => d.outcome = c.outcome

SameLane(t, u) == \A n \in LaneCommands : SameEntry(t[n], u[n])

\* What one step may do to the channel: a new POST has a new id.
Grows(L, R) ==
    /\ L.sent <= R.sent
    /\ \/ R.wire \in {L.wire, NoPost}
       \/ R.wire # NoPost /\ L.sent < R.wire.id /\ R.wire.id <= R.sent

LEMMA GrowsTrans ==
    ASSUME NEW L \in Lanes, NEW M \in Lanes, NEW R \in Lanes, Grows(L, M), Grows(M, R)
    PROVE  Grows(L, R)
BY DEF Grows, Lanes, Posts

LEMMA GrownNumbers ==
    ASSUME NEW L \in Lanes, NEW R \in Lanes, NEW t \in [Names -> Commands],
           NEW u \in [Names -> Commands],
           Counted(L), Answered(t, L), Grows(L, R), SameLane(t, u)
    PROVE  Counted(R) /\ Answered(u, R)
<1>1. /\ L.sent \in Nat /\ R.sent \in Nat /\ L.wire.id \in Nat /\ R.wire.id \in Nat
      /\ NoPost.id = 0
  BY DEF Lanes, Posts, NoPost
<1>2. Counted(R)
  BY <1>1 DEF Grows, Counted
<1>3. ASSUME NEW n \in LaneCommands
      PROVE  /\ u[n].id <= R.sent
             /\ u[n].accepted => u[n].id > 0 /\ u[n].id # R.wire.id
  <2>1. t[n].id \in Nat /\ u[n].id = t[n].id /\ (u[n].accepted => t[n].accepted)
    BY DEF SameLane, SameEntry, Names, Commands
  <2>2. t[n].id <= L.sent /\ (t[n].accepted => t[n].id > 0 /\ t[n].id # L.wire.id)
    BY DEF Answered
  <2> QED BY <1>1, <2>1, <2>2 DEF Grows
<1> QED BY <1>2, <1>3 DEF Answered

LEMMA SentGrows ==
    ASSUME NEW L \in Lanes, NEW label \in LaneCommands \cup OneShots
    PROVE  /\ Grows(L, Sent(L, label))
           /\ Sent(L, label).wire.id = L.sent + 1
           /\ Sent(L, label).sent = L.sent + 1
<1> DEFINE i    == L.sent + 1
           mark == IF label \in LaneCommands THEN label ELSE Untracked
           post == [id |-> i, label |-> label]
<1>1. Sent(L, label) = [L EXCEPT !.busy = TRUE, !.tracked = mark, !.sent = i, !.dispatch = i,
                                 !.wire = post]
  BY DEF Sent, Lanes
<1>2. post.id = i /\ i = L.sent + 1 /\ L.sent \in Nat
  BY DEF Lanes
<1> HIDE DEF i, mark, post
<1>3. Sent(L, label).sent = i /\ Sent(L, label).wire = post
  BY <1>1 DEF Lanes
<1>4. Sent(L, label).wire # NoPost
  BY SentWaits
<1> QED BY <1>2, <1>3, <1>4 DEF Grows

\* Whatever a verdict sets off is a pump, or nothing.
LEMMA HearsSends ==
    ASSUME NEW L \in Lanes, NEW table, NEW E, NEW state, NEW online,
           NEW R \in {Released(L, state, online), LaneHears(L, table, E, state, online)}
    PROVE  /\ Grows(L, R)
           /\ R.wire # L.wire /\ R.wire.label = "gated" => Allowed("gated", state, online)
<1> DEFINE free == [L EXCEPT !.busy = FALSE, !.tracked = Untracked]
           T    == Pumped(free, state, online)
<1>1. free \in Lanes /\ free.sent = L.sent /\ free.wire = L.wire
  BY DEF Lanes
<1>2. R \in {L, T}
  BY DEF Released, LaneHears
<1>3. L.sent \in Nat
  BY DEF Lanes
<1>4. CASE R.sent = L.sent /\ R.wire = L.wire
  BY <1>3, <1>4 DEF Grows
<1>5. CASE \E M \in Lanes, shot \in OneShots :
             /\ M.sent = L.sent /\ M.wire = L.wire
             /\ R = Sent(M, shot)
             /\ Allowed(shot, state, online)
  <2>1. PICK M \in Lanes, shot \in OneShots :
           /\ M.sent = L.sent /\ M.wire = L.wire
           /\ R = Sent(M, shot)
           /\ Allowed(shot, state, online)
    BY <1>5
  <2>2. Grows(M, R)
    BY <2>1, SentGrows
  <2>3. R.wire.label = shot
    BY <2>1 DEF Sent, Lanes
  <2> QED BY <2>1, <2>2, <2>3 DEF Grows
<1>6. (T.sent = L.sent /\ T.wire = L.wire) \/
      \E M \in Lanes, shot \in OneShots :
             /\ M.sent = L.sent /\ M.wire = L.wire
             /\ T = Sent(M, shot)
             /\ Allowed(shot, state, online)
  <2> HIDE DEF free
  <2> QED BY <1>1, PumpedSends
<1> HIDE DEF T, free
<1> QED BY <1>2, <1>4, <1>5, <1>6

LEMMA EntrySame ==
    ASSUME NEW c \in Commands, NEW n, NEW reading, NEW news \in BOOLEAN
    PROVE  /\ SameEntry(c, c)
           /\ SameEntry(c, Settled(c))
           /\ SameEntry(c, ObservedEntry(c, n, reading))
           /\ Live(c) => SameEntry(c, Failed(c))
           /\ Live(c) => SameEntry(c, MergedEntry(c, news))
           /\ SameEntry(c, [c EXCEPT !.overdue = TRUE])
           /\ SameEntry(c, [c EXCEPT !.unheard = TRUE])
BY DEF SameEntry, Commands, Settled, ObservedEntry, Failed, MergedEntry, Live, LiveOutcomes

LEMMA SameTrans ==
    ASSUME NEW t, NEW u, NEW v, SameLane(t, u), SameLane(u, v),
           \A n \in LaneCommands : ~Live(t[n]) => ~Live(u[n])
    PROVE  SameLane(t, v)
BY DEF SameLane, SameEntry

LEMMA SameDead ==
    ASSUME NEW t, NEW u, SameLane(t, u)
    PROVE  \A n \in LaneCommands : ~Live(t[n]) => ~Live(u[n])
BY DEF SameLane, SameEntry, Live

LEMMA TableSame ==
    ASSUME NEW table \in [Names -> Commands], NEW reading, NEW names
    PROVE  /\ SameLane(table, Observed(table, reading))
           /\ SameLane(table, Superseded(table))
           /\ SameLane(table, Merged(table, reading))
           /\ SameLane(table, Unheard(table, names))
<1>0. LaneCommands \subseteq Names
  BY DEF Names
<1>1. SameLane(table, Observed(table, reading))
  BY <1>0, EntrySame DEF SameLane, Observed
<1>2. SameLane(table, Superseded(table))
  BY <1>0, EntrySame DEF SameLane, Superseded
<1>3. SameLane(table, Unheard(table, names))
  BY <1>0, EntrySame DEF SameLane, Unheard
<1>4. ASSUME NEW n \in LaneCommands PROVE SameEntry(table[n], Merged(table, reading)[n])
  <2>1. (reading \in Expected[n]) \in BOOLEAN
    OBVIOUS
  <2>2. Merged(table, reading)[n] =
          IF Live(table[n]) THEN MergedEntry(table[n], reading \in Expected[n]) ELSE table[n]
    BY <1>0 DEF Merged, MergedEntry
  <2> QED BY <1>0, <2>1, <2>2, EntrySame
<1> QED BY <1>1, <1>2, <1>3, <1>4 DEF SameLane

LEMMA AcceptSame ==
    ASSUME TypeOK, NEW n \in Names, NEW L \in Lanes, NEW P, AcceptCommand(n, L, P)
    PROVE  /\ SameLane([cmds EXCEPT ![n] = Accepted(@)], cmds')
           /\ cmds' \in [Names -> Commands] /\ lane' \in Lanes /\ Grows(L, lane')
<1> DEFINE taken == [cmds EXCEPT ![n] = Accepted(@)]
           table == Reobserved(n)
<1>1. PICK e, names : /\ cmds' = Unheard(table, names)
                      /\ lane' = LaneHears(L, table, {e}, obs, connected)
  BY DEF AcceptCommand
<1>2. taken \in [Names -> Commands]
  BY EntryTypes DEF TypeOK
<1>3. table \in {taken, Observed(taken, snap)}
  BY DEF Reobserved
<1> HIDE DEF taken, table
<1>4. SameLane(taken, table) /\ table \in [Names -> Commands]
  <2>1. SameLane(taken, taken)
    BY <1>2, EntrySame DEF SameLane, Names
  <2> QED BY <1>2, <1>3, <2>1, TableSame, TableTypes
<1>5. SameLane(table, cmds') /\ cmds' \in [Names -> Commands]
  BY <1>1, <1>4, TableSame, TableTypes
<1>6. SameLane(taken, cmds')
  BY <1>4, <1>5, SameDead, SameTrans
<1>7. Grows(L, lane') /\ lane' \in Lanes
  BY <1>1, HearsSends, LaneTypes
<1> QED BY <1>5, <1>6, <1>7 DEF taken

LEMMA FrameSame ==
    ASSUME TypeOK, NEW reading \in Readings, NEW lower, NEW job, NEW layer,
           AdmitFrame(reading, lower, job, layer)
    PROVE  /\ SameLane(cmds, cmds') /\ Grows(lane, lane')
           /\ lane'.wire # lane.wire /\ lane'.wire.label = "gated"
                => Allowed("gated", obs, TRUE) \/ Allowed("gated", obs', TRUE)
<1> DEFINE raw    == IF reading = NoState THEN snap ELSE reading
           early  == Merged(cmds, reading)
           merged == Observed(early, reading)
           closed == Closed(cmds, merged)
           shown  == IF assumed /\ raw \in Active /\ ~lower THEN "cancelled" ELSE raw
           arming == snap \notin Active /\ shown \in Active
           stale  == IF arming THEN Pending(merged) ELSE {}
           table  == IF arming THEN Superseded(merged) ELSE merged
           lane1  == LaneHears(lane, table, stale, obs, TRUE)
<1>0. cmds \in [Names -> Commands] /\ lane \in Lanes
  BY DEF TypeOK
<1>1. early \in [Names -> Commands] /\ SameLane(cmds, early)
  BY <1>0, TableTypes, TableSame
<1>2. merged \in [Names -> Commands] /\ SameLane(cmds, merged)
  <2> HIDE DEF early
  <2>1. SameLane(early, merged)
    BY <1>1, TableSame
  <2> HIDE DEF merged
  <2>2. merged \in [Names -> Commands]
    BY <1>1, TableTypes DEF merged
  <2> QED BY <1>1, <2>1, <2>2, SameDead, SameTrans
<1>3. table \in [Names -> Commands] /\ SameLane(cmds, table)
  <2> HIDE DEF merged
  <2>1. SameLane(merged, Superseded(merged)) /\ Superseded(merged) \in [Names -> Commands]
    BY <1>2, TableTypes, TableSame
  <2>2. SameLane(cmds, Superseded(merged))
    BY <1>2, <2>1, SameDead, SameTrans
  <2> HIDE DEF arming
  <2> QED BY <1>2, <2>1, <2>2
<1>4. PICK c : cmds' \in {table, [table EXCEPT ![Scheduled] = c]}
  BY DEF AdmitFrame
<1>5. SameLane(cmds, cmds')
  <2> HIDE DEF table
  <2>1. \A m \in LaneCommands : cmds'[m] = table[m]
    BY <1>3, <1>4, LaneNames DEF Names
  <2> QED BY <1>3, <2>1 DEF SameLane
<1>6. lane' = LaneHears(lane1, table, closed, shown, TRUE) /\ obs' = shown
  BY DEF AdmitFrame
<1> HIDE DEF table, closed, stale, shown
<1>7. /\ lane1 \in Lanes /\ Grows(lane, lane1)
      /\ lane1.wire # lane.wire /\ lane1.wire.label = "gated" => Allowed("gated", obs, TRUE)
  BY <1>0, HearsSends, LaneTypes
<1> HIDE DEF lane1
<1>8. /\ lane' \in Lanes /\ Grows(lane1, lane')
      /\ lane'.wire # lane1.wire /\ lane'.wire.label = "gated" => Allowed("gated", obs', TRUE)
  BY <1>6, <1>7, HearsSends, LaneTypes
<1>9. Grows(lane, lane')
  BY <1>0, <1>7, <1>8, GrowsTrans
<1> QED BY <1>5, <1>7, <1>8, <1>9

\* The action VerdictStands is about, for a step from confirmations that are honest.
Stands ==
    \A n \in LaneCommands :
       /\ cmds[n].outcome = "confirmed" /\ ~cmds[n].settled
       /\ cmds'[n].id = cmds[n].id
       => cmds'[n].outcome = "confirmed"

LEMMA SameStands ==
    ASSUME TypeOK, NumberedInv, TypeOK', SameLane(cmds, cmds'), Grows(lane, lane')
    PROVE  NumberedInv' /\ Stands
<1>1. /\ cmds \in [Names -> Commands] /\ cmds' \in [Names -> Commands]
      /\ lane \in Lanes /\ lane' \in Lanes
      /\ Counted(lane) /\ Answered(cmds, lane)
  BY DEF TypeOK, NumberedInv
<1>2. Counted(lane') /\ Answered(cmds', lane')
  BY <1>1, GrownNumbers
<1>3. Stands
  BY DEF Stands, SameLane, SameEntry, Live, LiveOutcomes
<1> QED BY <1>2, <1>3 DEF NumberedInv, Answered, Counted

LEMMA PressStands ==
    ASSUME TypeOK, NumberedInv, TypeOK', ConfirmedHonestly, NEW n \in LaneCommands, Press(n)
    PROVE  NumberedInv' /\ Stands
<1>0. /\ cmds \in [Names -> Commands] /\ lane \in Lanes /\ n \in Names
      /\ lane.sent \in Nat /\ lane.wire.id \in Nat /\ NoPost.id = 0
      /\ \A m \in LaneCommands : cmds[m].id \in Nat /\ cmds[m].accepted \in BOOLEAN
      /\ Counted(lane) /\ Answered(cmds, lane)
  BY DEF TypeOK, NumberedInv, Names, Lanes, Posts, NoPost, Commands
\* The entry that is replaced.
<1>1. cmds[n].outcome = "confirmed" /\ ~cmds[n].settled
        => cmds[n].id > 0 /\ cmds[n].id <= lane.sent
  BY <1>0 DEF ConfirmedHonestly, Answered
<1>2. \A m \in LaneCommands \ {n} : cmds'[m] = cmds[m]
  BY <1>0 DEF Press, Names
<1>3. ASSUME NEW i \in Nat
      PROVE  /\ Issued(n, i, snap).id = i /\ ~Issued(n, i, snap).accepted
             /\ Failed(Issued(n, i, snap)).id = i /\ ~Failed(Issued(n, i, snap)).accepted
  <2>1. Issued(n, i, snap) \in Commands
    BY <1>0, IssuedType
  <2>2. Issued(n, i, snap).id = i /\ ~Issued(n, i, snap).accepted
    BY DEF Issued, NoCommand
  <2> QED BY <2>1, <2>2 DEF Failed, Commands
<1>4. CASE lane.wire = NoPost
  <2>1. /\ lane' = Sent(lane, n)
        /\ cmds'[n] = Issued(n, lane.sent + 1, snap)
    BY <1>0, <1>4 DEF Press
  <2>2. lane'.wire.id = lane.sent + 1 /\ lane'.sent = lane.sent + 1
    BY <1>0, <2>1, SentGrows
  <2>3. cmds'[n].id = lane.sent + 1 /\ ~cmds'[n].accepted
    BY <1>0, <1>3, <2>1
  <2>4. Counted(lane') /\ Answered(cmds', lane')
    BY <1>0, <1>2, <2>2, <2>3 DEF Counted, Answered
  <2>5. Stands
    BY <1>0, <1>1, <1>2, <2>3 DEF Stands
  <2> QED BY <2>4, <2>5 DEF NumberedInv, Answered, Counted
<1>5. CASE lane.wire # NoPost
  <2>1. /\ lane' = [lane EXCEPT !.dispatch = 0]
        /\ cmds'[n] = Failed(Issued(n, 0, snap))
    BY <1>0, <1>5 DEF Press
  <2>2. lane'.wire = lane.wire /\ lane'.sent = lane.sent
    BY <1>0, <2>1 DEF Lanes
  <2>3. cmds'[n].id = 0 /\ ~cmds'[n].accepted
    BY <1>3, <2>1
  <2>4. Counted(lane') /\ Answered(cmds', lane')
    BY <1>0, <1>2, <2>2, <2>3 DEF Counted, Answered
  <2>5. Stands
    BY <1>1, <1>2, <2>3 DEF Stands
  <2> QED BY <2>4, <2>5 DEF NumberedInv, Answered, Counted
<1> QED BY <1>4, <1>5

LEMMA ReplyStands ==
    ASSUME TypeOK, NumberedInv, TypeOK', ConfirmedHonestly, NEW ok \in BOOLEAN,
           ControlReply(ok)
    PROVE  NumberedInv' /\ Stands
<1> DEFINE w == lane.wire
           L == [lane EXCEPT !.wire = NoPost]
<1>0. /\ cmds \in [Names -> Commands] /\ lane \in Lanes /\ w # NoPost
      /\ lane.sent \in Nat /\ w.id \in Nat /\ NoPost.id = 0
      /\ Counted(lane) /\ Answered(cmds, lane)
  BY DEF TypeOK, NumberedInv, Lanes, Posts, NoPost, ControlReply
<1>1. L \in Lanes /\ L.wire = NoPost /\ L.sent = lane.sent
  BY <1>0, LaneTypes DEF Lanes
<1> HIDE DEF L
<1>2. Counted(L) /\ Answered(cmds, L) /\ Grows(lane, L)
  BY <1>0, <1>1 DEF Counted, Answered, Grows
<1>3. SameLane(cmds, cmds)
  BY <1>0, EntrySame DEF SameLane, Names
<1>4. CASE lane' = L /\ UNCHANGED cmds
  BY <1>2, <1>3, <1>4, SameStands
<1>5. ASSUME w.label \in LaneCommands, lane' = Released(L, obs, connected),
             cmds' = [cmds EXCEPT ![w.label] = IF @.id = w.id THEN Failed(@) ELSE @]
      PROVE  NumberedInv' /\ Stands
  <2>1. w.label \in Names
    BY <1>5 DEF Names
  <2>2. cmds[w.label] \in Commands /\ Failed(cmds[w.label]).id = cmds[w.label].id
        /\ Failed(cmds[w.label]).accepted = cmds[w.label].accepted
    BY <1>0, <2>1 DEF Failed, Commands
  <2>3. Grows(L, lane') /\ lane' \in Lanes
    BY <1>1, <1>5, HearsSends, LaneTypes
  <2>4. \A m \in LaneCommands : /\ cmds'[m].id = cmds[m].id
                                /\ cmds'[m].accepted = cmds[m].accepted
    BY <1>0, <1>5, <2>1, <2>2 DEF Names
  \* The POST that fails is not one that was accepted.
  <2>5. cmds[w.label].id = w.id => ~cmds[w.label].accepted
    BY <1>0, <1>5 DEF Answered
  <2>6. Stands
    <3>1. \A m \in LaneCommands : cmds'[m] # cmds[m] => ~cmds[m].accepted
      BY <1>0, <1>5, <2>1, <2>5 DEF Names
    <3> QED BY <3>1 DEF Stands, ConfirmedHonestly, Names
  <2>7. Counted(lane') /\ Answered(cmds', lane')
    <3>1. \A m \in LaneCommands : cmds'[m].id <= L.sent /\
             (cmds'[m].accepted => cmds'[m].id > 0 /\ cmds'[m].id # L.wire.id)
      BY <1>2, <2>4 DEF Answered
    <3>2. Answered(cmds', L)
      BY <3>1 DEF Answered
    <3>3. cmds' \in [Names -> Commands] /\ SameLane(cmds', cmds')
      BY EntrySame DEF TypeOK, SameLane, Names
    <3> QED BY <1>1, <1>2, <2>3, <3>2, <3>3, GrownNumbers
  <2> QED BY <2>6, <2>7 DEF NumberedInv, Answered, Counted
<1>6. CASE lane' = Released(L, obs, connected) /\ UNCHANGED cmds
  <2>1. Grows(L, lane') /\ lane' \in Lanes
    BY <1>1, <1>6, HearsSends, LaneTypes
  <2>2. Grows(lane, lane')
    BY <1>0, <1>1, <1>2, <2>1, GrowsTrans
  <2> QED BY <1>3, <1>6, <2>2, SameStands
<1>7. ASSUME w.label \in LaneCommands, cmds[w.label].id = w.id,
             AcceptCommand(w.label, L, pauses)
      PROVE  NumberedInv' /\ Stands
  <2> DEFINE taken == [cmds EXCEPT ![w.label] = Accepted(@)]
  <2>1. w.label \in Names
    BY <1>7 DEF Names
  <2>2. /\ SameLane(taken, cmds') /\ cmds' \in [Names -> Commands]
        /\ lane' \in Lanes /\ Grows(L, lane')
    BY <1>1, <1>7, <2>1, AcceptSame
  <2>3. Later(cmds[w.label], Accepted(cmds[w.label])) /\ Accepted(cmds[w.label]) \in Commands
    BY <1>0, <2>1, EntryLater, EntryTypes
  <2>4. taken \in [Names -> Commands] /\ \A m \in LaneCommands : Later(cmds[m], taken[m])
    BY <1>0, <2>1, <2>3 DEF Later, Names
  <2>5. \A m \in LaneCommands : m # w.label => taken[m] = cmds[m]
    BY <1>0, <2>1 DEF Names
  <2> HIDE DEF taken
  <2>6. Stands
    BY <2>2, <2>4 DEF Stands, SameLane, SameEntry, Later, Live, LiveOutcomes
  <2>7. w.id > 0 /\ w.id <= L.sent
    BY <1>0, <1>1 DEF Counted
  <2>8. Answered(taken, L)
    <3>1. taken[w.label].id = w.id
      BY <1>7, <2>4 DEF Later
    <3> QED BY <1>0, <1>1, <1>2, <2>5, <2>7, <3>1 DEF Answered
  <2>9. Counted(lane') /\ Answered(cmds', lane')
    BY <1>1, <1>2, <2>2, <2>4, <2>8, GrownNumbers
  <2> QED BY <2>6, <2>9 DEF NumberedInv, Answered, Counted
<1> QED BY <1>4, <1>5, <1>6, <1>7 DEF ControlReply, L

LEMMA StandsStep ==
    TypeOK /\ NumberedInv /\ ConfirmedHonestly /\ TypeOK' /\ [Next]_vars => NumberedInv' /\ Stands
<1> SUFFICES ASSUME TypeOK, NumberedInv, ConfirmedHonestly, TypeOK', [Next]_vars
             PROVE  NumberedInv' /\ Stands
  OBVIOUS
<1>0. cmds \in [Names -> Commands] /\ lane \in Lanes /\ lane.sent \in Nat
  BY DEF TypeOK, Lanes
<1>1. SameLane(cmds, cmds) /\ Grows(lane, lane)
  <2>1. SameLane(cmds, cmds)
    BY <1>0, EntrySame DEF SameLane, Names
  <2>2. Grows(lane, lane)
    BY <1>0 DEF Grows
  <2> QED BY <2>1, <2>2
<1>2. CASE SameLane(cmds, cmds') /\ Grows(lane, lane')
  BY <1>2, SameStands
<1>3. CASE UNCHANGED <<cmds, lane>>
  BY <1>1, <1>2, <1>3
<1>4. ASSUME NEW shot \in OneShots, Request(shot) PROVE NumberedInv' /\ Stands
  <2>1. CASE lane' = Sent(lane, shot)
    BY <1>0, <1>1, <1>2, <1>4, <2>1, SentGrows DEF Request
  <2>2. CASE lane' \in {[lane EXCEPT !.queue = Append(@, shot)], [lane EXCEPT !.dispatch = 0]}
    <3>1. lane'.sent = lane.sent /\ lane'.wire = lane.wire
      BY <1>0, <2>2 DEF Lanes
    <3> QED BY <1>0, <1>1, <1>2, <1>4, <3>1 DEF Request, Grows
  <2> QED BY <1>4, <2>1, <2>2 DEF Request
<1>5. CASE EmergencyStop
  <2>1. lane'.sent = lane.sent /\ lane'.wire = lane.wire
    BY <1>0, <1>5 DEF EmergencyStop, Cleared, Lanes
  <2> QED BY <1>0, <1>1, <1>2, <1>5, <2>1 DEF EmergencyStop, Grows
<1>6. ASSUME NEW ok \in BOOLEAN, PauseReply(ok) PROVE NumberedInv' /\ Stands
  <2>1. Scheduled \in Names
    BY DEF Names
  <2>2. ASSUME NEW P, AcceptCommand(Scheduled, lane, P) PROVE NumberedInv' /\ Stands
    <3>1. SameLane([cmds EXCEPT ![Scheduled] = Accepted(@)], cmds') /\ Grows(lane, lane')
      BY <1>0, <2>1, <2>2, AcceptSame
    <3>2. \A m \in LaneCommands : [cmds EXCEPT ![Scheduled] = Accepted(@)][m] = cmds[m]
      BY <1>0, LaneNames DEF Names
    <3>3. SameLane(cmds, cmds')
      BY <3>1, <3>2 DEF SameLane
    <3> QED BY <1>2, <3>1, <3>3
  <2>3. CASE lane' = lane /\ cmds' = [cmds EXCEPT ![Scheduled] = Failed(@)]
    <3>1. \A m \in LaneCommands : cmds'[m] = cmds[m]
      BY <1>0, <2>3, LaneNames DEF Names
    <3>2. SameLane(cmds, cmds')
      BY <1>1, <3>1 DEF SameLane
    <3> QED BY <1>1, <1>2, <2>3, <3>2
  <2> QED BY <1>6, <2>2, <2>3 DEF PauseReply
<1>7. CASE SettleResume
  <2>1. "Resume" \in Names /\ cmds' = [cmds EXCEPT !["Resume"] = Settled(@)]
    BY <1>7 DEF SettleResume, Names
  <2>2. SameLane(cmds, cmds')
    BY <1>0, <2>1, EntrySame DEF SameLane, Names
  <2>3. Grows(lane, lane')
    BY <1>0, <1>7, HearsSends DEF SettleResume
  <2> QED BY <1>2, <2>2, <2>3
<1>8. ASSUME NEW n \in Names, DeadlinePasses(n) PROVE NumberedInv' /\ Stands
  <2>1. cmds' = [cmds EXCEPT ![n].overdue = TRUE] /\ lane' = lane
    BY <1>8 DEF DeadlinePasses
  <2>2. SameLane(cmds, cmds')
    BY <1>0, <2>1, EntrySame DEF SameLane, Names
  <2> QED BY <1>1, <1>2, <2>1, <2>2
<1>9. CASE ExpireCommands
  <2>1. SameLane(cmds, cmds')
    BY <1>0, <1>9, TableSame DEF ExpireCommands
  <2>2. Grows(lane, lane')
    BY <1>0, <1>9, HearsSends DEF ExpireCommands
  <2> QED BY <1>2, <2>1, <2>2
<1>10. ASSUME NEW reading \in Readings, NEW lower, NEW job, NEW layer,
              AdmitFrame(reading, lower, job, layer)
       PROVE  NumberedInv' /\ Stands
  BY <1>2, <1>10, FrameSame
<1>11. CASE InvalidateSession
  <2>1. /\ \A n \in LaneCommands : cmds'[n] = NoCommand
        /\ lane' = [Cleared(lane) EXCEPT !.wire = NoPost]
    BY <1>11 DEF InvalidateSession, Names
  <2>2. NoCommand.id = 0 /\ NoCommand.accepted = FALSE /\ NoPost.id = 0
    BY DEF NoCommand, NoPost
  <2>3. Cleared(lane) \in Lanes /\ Cleared(lane).sent = lane.sent
    BY <1>0, LaneTypes DEF Cleared, Lanes
  <2>4. lane'.wire = NoPost /\ lane'.sent = lane.sent
    BY <2>1, <2>3 DEF Lanes
  <2>5. NumberedInv'
    BY <1>0, <2>1, <2>2, <2>4 DEF NumberedInv, Counted, Answered
  <2>6. \A n \in LaneCommands : cmds[n].accepted => cmds[n].id # 0
    BY DEF NumberedInv, Answered
  <2>7. Stands
    BY <2>1, <2>2, <2>6 DEF Stands, ConfirmedHonestly, Names
  <2> QED BY <2>5, <2>7
<1> QED BY <1>3, <1>4, <1>5, <1>6, <1>7, <1>8, <1>9, <1>10, <1>11, PressStands, ReplyStands
       DEF Next, TogglePause, ClearPauses, ConnectionLost, KlippyReady, vars

\* A lane command the printer's state confirmed keeps that verdict until it is
\* issued again or the session ends: no late reply, deadline or new print
\* relabels it.
THEOREM AConfirmationStands == Spec => VerdictStands
<1>1. Init => NumberedInv
  BY DEF Init, NumberedInv, Counted, Answered, IdleLane, NoPost, NoCommand, Names
<1>2. TypeOK /\ NumberedInv /\ ConfirmedHonestly /\ TypeOK' /\ [Next]_vars => [Stands]_vars
  BY StandsStep
<1>3. Spec => [][Stands]_vars
  BY <1>1, <1>2, StandsStep, TypeCorrect, ConfirmationsAreHonest, PTL DEF Spec
<1> QED BY <1>3 DEF VerdictStands, Stands

-----------------------------------------------------------------------------
(* Gated one-shots are checked when they are sent.                         *)

GatedSend ==
    lane'.wire # lane.wire /\ lane'.wire.label = "gated"
      => Allowed("gated", obs, TRUE) \/ Allowed("gated", obs', TRUE)

\* What is allowed of a printer that may be offline is allowed of one online.
LEMMA AllowedOnline ==
    ASSUME NEW state, NEW online, Allowed("gated", state, online)
    PROVE  Allowed("gated", state, TRUE)
BY DEF Allowed

LEMMA GatedStep == TypeOK /\ [Next]_vars => GatedSend
<1> SUFFICES ASSUME TypeOK, [Next]_vars PROVE GatedSend
  OBVIOUS
<1> DEFINE L == [lane EXCEPT !.wire = NoPost]
<1>0. lane \in Lanes /\ L \in Lanes /\ L.wire = NoPost /\ NoPost.label = "free"
  BY LaneTypes DEF TypeOK, Lanes, NoPost
<1>1. CASE lane'.wire \in {lane.wire, NoPost}
  BY <1>0, <1>1 DEF GatedSend
<1>2. ASSUME NEW M \in {lane, L}, NEW table, NEW E,
             lane' \in {Released(M, obs, connected), LaneHears(M, table, E, obs, connected)}
      PROVE  GatedSend
  <2>1. /\ M \in Lanes /\ M.wire \in {lane.wire, NoPost}
        /\ lane'.wire # M.wire /\ lane'.wire.label = "gated" => Allowed("gated", obs, connected)
    <3>1. M \in Lanes /\ M.wire \in {lane.wire, NoPost}
      <4> HIDE DEF L
      <4> QED BY <1>0, <1>2
    <3> HIDE DEF L
    <3> QED BY <1>2, <3>1, HearsSends
  <2>2. CASE lane'.wire = M.wire
    BY <1>1, <2>1, <2>2
  <2>3. CASE lane'.wire # M.wire
    BY <2>1, <2>3, AllowedOnline DEF GatedSend
  <2> QED BY <2>2, <2>3
<1>3. ASSUME NEW n \in LaneCommands, Press(n) PROVE GatedSend
  <2>1. CASE lane' = Sent(lane, n)
    <3>1. lane'.wire.label = n
      BY <1>0, <2>1 DEF Sent, Lanes
    <3> QED BY <3>1, LaneNames DEF GatedSend, OneShots
  <2>2. CASE lane' = [lane EXCEPT !.dispatch = 0]
    BY <1>0, <1>1, <2>2 DEF Lanes
  <2> QED BY <1>3, <2>1, <2>2 DEF Press
<1>4. ASSUME NEW shot \in OneShots, Request(shot) PROVE GatedSend
  <2>1. CASE lane' = Sent(lane, shot)
    <3>1. lane'.wire.label = shot
      BY <1>0, <2>1 DEF Sent, Lanes
    <3> QED BY <1>4, <3>1, AllowedOnline DEF Request, GatedSend
  <2>2. CASE lane' \in {[lane EXCEPT !.queue = Append(@, shot)], [lane EXCEPT !.dispatch = 0]}
    BY <1>0, <1>1, <2>2 DEF Lanes
  <2> QED BY <1>4, <2>1, <2>2 DEF Request
<1>5. CASE EmergencyStop
  BY <1>0, <1>1, <1>5 DEF EmergencyStop, Cleared, Lanes
<1>6. ASSUME NEW n, NEW P, NEW M \in {lane, L}, AcceptCommand(n, M, P) PROVE GatedSend
  <2>1. PICK table, E : lane' = LaneHears(M, table, E, obs, connected)
    BY <1>6 DEF AcceptCommand
  <2> HIDE DEF L
  <2> QED BY <1>2, <2>1
<1>7. ASSUME NEW ok \in BOOLEAN, ControlReply(ok) PROVE GatedSend
  <2>1. CASE lane' = L
    BY <1>0, <1>1, <2>1
  <2>2. CASE lane' = Released(L, obs, connected)
    <3> HIDE DEF L
    <3> QED BY <1>2, <2>2
  <2>3. CASE \E n : AcceptCommand(n, L, pauses)
    <3> HIDE DEF L
    <3> QED BY <1>6, <2>3
  <2> QED BY <1>7, <2>1, <2>2, <2>3 DEF ControlReply
<1>8. ASSUME NEW ok \in BOOLEAN, PauseReply(ok) PROVE GatedSend
  <2>1. CASE lane' = lane
    BY <1>1, <2>1
  <2>2. CASE \E P : AcceptCommand(Scheduled, lane, P)
    <3> HIDE DEF L
    <3> QED BY <1>6, <2>2
  <2> QED BY <1>8, <2>1, <2>2 DEF PauseReply
<1>9. CASE SettleResume
  <2>1. PICK table, E : lane' = LaneHears(lane, table, E, obs, connected)
    BY <1>9 DEF SettleResume
  <2> HIDE DEF L
  <2> QED BY <1>2, <2>1
<1>10. CASE ExpireCommands
  <2>1. PICK table, E : lane' = LaneHears(lane, table, E, obs, connected)
    BY <1>10 DEF ExpireCommands
  <2> HIDE DEF L
  <2> QED BY <1>2, <2>1
<1>11. ASSUME NEW reading \in Readings, NEW lower, NEW job, NEW layer,
              AdmitFrame(reading, lower, job, layer)
       PROVE  GatedSend
  BY <1>11, FrameSame DEF GatedSend
<1>12. CASE InvalidateSession
  <2>1. Cleared(lane) \in Lanes
    BY <1>0, LaneTypes
  <2>2. lane'.wire = NoPost
    BY <1>12, <2>1 DEF InvalidateSession, Lanes
  <2> QED BY <1>1, <2>2
<1>13. CASE UNCHANGED lane
  BY <1>1, <1>13
<1> QED BY <1>3, <1>4, <1>5, <1>7, <1>8, <1>9, <1>10, <1>11, <1>12, <1>13
       DEF Next, TogglePause, ClearPauses, DeadlinePasses, ConnectionLost, KlippyReady, vars

\* A gated one-shot reaches the wire only in a step whose observation, before or
\* after, lets it: also when it waited in the queue while a print started.
THEOREM GatedShotsAreRevalidated == Spec => GatedShotsRevalidated
<1>1. TypeOK /\ [Next]_vars => [GatedSend]_vars
  BY GatedStep
<1>2. Spec => [][GatedSend]_vars
  BY <1>1, TypeCorrect, PTL DEF Spec
<1> QED BY <1>2 DEF GatedShotsRevalidated, GatedSend
=============================================================================
