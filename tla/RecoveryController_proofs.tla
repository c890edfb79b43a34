----------------------- MODULE RecoveryController_proofs -----------------------
(***************************************************************************)
(* Theorems about recovery: type correctness; an attempt keeps the safety  *)
(* part of its promise, always has the answer it waits for on its way, and *)
(* moves the nozzle and starts the file only on a printer that still is    *)
(* what it verified; the owner is shown the attempt; and "complete" is     *)
(* said only of an attempt whose own M24 has run.                          *)
(***************************************************************************)
EXTENDS RecoveryController, SequenceTheorems, TLAPS

-----------------------------------------------------------------------------
(* The attempt's operators.                                                *)

LEMMA FinishedType ==
    ASSUME NEW x \in Attempts, NEW o \in Outcomes
    PROVE  /\ Finished(x, o) \in Attempts
           /\ ~Finished(x, o).active
           /\ Finished(x, o).phase = o
           /\ Finished(x, o).gen = x.gen
           /\ Finished(x, o).cancelled = x.cancelled
BY DEF Finished, Attempts

LEMMA BegunType ==
    ASSUME NEW g \in Nat
    PROVE  Begun(g) \in Attempts /\ Begun(g).active /\ Begun(g).phase = "checking"
BY DEF Begun, Attempts, Stages, Checks

LEMMA EnteredType ==
    ASSUME NEW x \in Attempts, NEW stage \in Stages
    PROVE  Entered(x, stage) \in Attempts
<1>1. "cancelled" \in Outcomes
  BY DEF Outcomes
<1>2. CASE x.cancelled
  BY <1>1, <1>2, FinishedType DEF Entered
<1>3. CASE ~x.cancelled
  <2>1. (IF stage \in Scripts THEN stage = "resuming" ELSE x.handover) \in BOOLEAN
    BY DEF Attempts
  <2> QED
    BY <1>3, <2>1 DEF Entered, Attempts
<1> QED
  BY <1>2, <1>3

LEMMA ReturnType ==
    ASSUME NEW x, NEW s, NEW profile
    PROVE  Return(x, s, profile) \in Stages
BY DEF Return, Stages, Scripts

LEMMA OnwardType ==
    ASSUME NEW x, NEW s, NEW profile
    PROVE  Onward(x, s, profile) \in Stages
BY ReturnType DEF Onward, Stages, Scripts

LEMMA AfterScriptType ==
    ASSUME NEW stage \in Scripts
    PROVE  AfterScript[stage] \in Stages
BY DEF AfterScript, Stages, Scripts, Checks

LEMMA JudgedType ==
    ASSUME NEW x \in Attempts, NEW s \in Printers, NEW fit \in BOOLEAN, NEW profile
    PROVE  Judged(x, s, fit, profile) \in Attempts
<1> DEFINE y == [x EXCEPT !.primed = @ \/ x.phase = "checking_prime",
                          !.idle   = @ \/ (x.phase = "checking" /\ s.state = "idle")]
<1>1. y \in Attempts
  <2>1. (x.primed \/ x.phase = "checking_prime") \in BOOLEAN
    OBVIOUS
  <2>2. (x.idle \/ (x.phase = "checking" /\ s.state = "idle")) \in BOOLEAN
    OBVIOUS
  <2> QED
    BY <2>1, <2>2 DEF Attempts
<1>2. Entered(y, Onward(y, s, profile)) \in Attempts
  BY <1>1, OnwardType, EnteredType
<1>3. \A o \in Outcomes : Finished(x, o) \in Attempts
  BY FinishedType
<1>4. {"cancelled", "uncertain", "refused", "complete"} = Outcomes
  BY DEF Outcomes
<1> QED
  BY <1>2, <1>3, <1>4 DEF Judged

LEMMA EffectType ==
    ASSUME NEW p \in Printers, NEW script \in Entries
    PROVE  Effect(p, script) \in Printers
<1>1. script.stage \in Scripts /\ script.idle \in BOOLEAN
  BY DEF Entries
<1>2. (p.held /\ script.idle) \in BOOLEAN
  OBVIOUS
<1>3. (IF p.state = "printing" THEN "paused" ELSE p.state) \in {"idle", "printing", "paused"}
  BY DEF Printers
<1>4. "away" \in Places /\ "prime" \in Places /\ "staged" \in Places /\ "part" \in Places
  BY DEF Places
<1>5. 0 \in Positions /\ 1 \in Positions
  BY DEF Positions
<1>6. CASE script.stage = "pausing"
  BY <1>3, <1>4, <1>6 DEF Effect, Printers
<1>7. CASE script.stage = "loading_file"
  BY <1>5, <1>7 DEF Effect, Printers
<1>8. CASE script.stage \in {"heating_and_waiting", "setting_z_reference", "priming_nozzle",
                            "returning"}
  BY <1>4, <1>8 DEF Effect, Printers
<1>9. CASE script.stage \in {"seeking", "restoring_modal_state"}
  BY <1>5, <1>9 DEF Effect, Printers
<1>10. CASE script.stage = "resuming"
  BY <1>2, <1>4, <1>10 DEF Effect, Printers
<1>11. CASE script.stage \in {"waiting_for_motion", "restore_state", "finishing_pause"}
  BY <1>11 DEF Effect
<1> QED
  BY <1>1, <1>6, <1>7, <1>8, <1>9, <1>10, <1>11 DEF Scripts

-----------------------------------------------------------------------------
(* Type correctness.                                                       *)

LEMMA CarryType ==
    ASSUME TypeOK, NEW x \in Attempts, NEW W \in Lanes, NEW J \in Seq(Tasks),
           NEW C \in Controllers, Carry(x, W, J, C)
    PROVE  /\ exec' \in Attempts /\ wires' \in Lanes /\ klippy' \in Seq(Entries)
           /\ worker' \in Seq(Tasks) /\ ctl' \in Controllers
<1> DEFINE y == IF x.active /\ Busy(x, W) THEN Finished(x, "uncertain") ELSE x
           rechecks == y.active /\ y.phase = "rechecking_source"
<1>1. y \in Attempts
  BY FinishedType DEF Outcomes
<1>2. /\ exec' = y
      /\ wires' = IF y.active /\ y.phase \in Checks
                  THEN [W EXCEPT !.status = [gen |-> y.gen, stage |-> y.phase, snap |-> {}]]
                  ELSE IF y.active /\ y.phase \in Scripts
                  THEN [W EXCEPT !.script = [gen |-> y.gen, stage |-> y.phase,
                                             ran |-> "waiting"]]
                  ELSE W
      /\ klippy' = IF y.active /\ y.phase \in Scripts
                   THEN Append(klippy, [gen |-> y.gen, stage |-> y.phase, idle |-> y.idle])
                   ELSE klippy
      /\ worker' = IF rechecks THEN Append(J, [job |-> "replan", gen |-> y.gen]) ELSE J
      /\ ctl' = [C EXCEPT !.phase = y.phase, !.replan = IF rechecks THEN y.gen ELSE @]
  BY DEF Carry
<1>3. y.gen \in Nat /\ y.idle \in BOOLEAN /\ y.phase \in Stages \cup Outcomes \cup {"idle"}
  BY <1>1 DEF Attempts
<1> HIDE DEF y
<1>4. wires' \in Lanes
  <2>1. CASE y.active /\ y.phase \in Checks
    <3>1. [gen |-> y.gen, stage |-> y.phase, snap |-> {}] \in Queries
      BY <2>1, <1>3 DEF Queries
    <3> QED
      BY <2>1, <3>1, <1>2 DEF Lanes
  <2>2. CASE ~(y.active /\ y.phase \in Checks) /\ y.active /\ y.phase \in Scripts
    <3>1. [gen |-> y.gen, stage |-> y.phase, ran |-> "waiting"] \in Posts
      BY <2>2, <1>3 DEF Posts
    <3> QED
      BY <2>2, <3>1, <1>2 DEF Lanes
  <2> QED
    BY <2>1, <2>2, <1>2
<1>5. klippy' \in Seq(Entries)
  <2>1. klippy \in Seq(Entries)
    BY DEF TypeOK
  <2>2. CASE y.active /\ y.phase \in Scripts
    <3>1. [gen |-> y.gen, stage |-> y.phase, idle |-> y.idle] \in Entries
      BY <2>2, <1>3 DEF Entries
    <3> QED
      BY <2>1, <2>2, <3>1, <1>2, AppendProperties
  <2> QED
    BY <2>1, <2>2, <1>2
<1>6. worker' \in Seq(Tasks)
  <2>1. [job |-> "replan", gen |-> y.gen] \in Tasks
    BY <1>3 DEF Tasks
  <2> QED
    BY <2>1, <1>2, AppendProperties
<1>7. ctl' \in Controllers
  <2>1. y.phase \in Settled \cup Planning \cup Stages \cup {"cancelling"}
    BY <1>3 DEF Settled, Outcomes
  <2>2. (IF rechecks THEN y.gen ELSE C.replan) \in Nat
    BY <1>3 DEF Controllers
  <2> QED
    BY <2>1, <2>2, <1>2 DEF Controllers
<1> QED
  BY <1>1, <1>2, <1>4, <1>5, <1>6, <1>7

LEMMA InvalidateType ==
    ASSUME TypeOK, Invalidate
    PROVE  exec' \in Attempts /\ ctl' \in Controllers
<1>1. exec \in Attempts /\ ctl \in Controllers
  BY DEF TypeOK
<1>2. exec' \in Attempts
  BY <1>1, FinishedType DEF Invalidate, Invalidated, Outcomes
<1>3. ctl' \in Controllers
  <2> DEFINE phase == IF ctl.phase \in Settled THEN ctl.phase
                      ELSE IF exec.active THEN "uncertain" ELSE "refused"
  <2>1. phase \in Settled /\ ctl.gen + 1 \in Nat
    BY <1>1 DEF Settled, Controllers
  <2>2. ctl' = [ctl EXCEPT !.gen = ctl.gen + 1, !.source = FALSE, !.phase = phase]
    BY DEF Invalidate, Invalidated
  <2> HIDE DEF phase
  <2> QED
    BY <1>1, <2>1, <2>2 DEF Controllers
<1> QED
  BY <1>2, <1>3

LEMMA WithoutType ==
    ASSUME TypeOK, NEW i \in Delivered
    PROVE  i = 1 /\ worker # <<>> /\ worker[i] \in Tasks /\ Without(i) \in Seq(Tasks)
<1>1. worker \in Seq(Tasks)
  BY DEF TypeOK
<1>2. worker # <<>> /\ i = 1
  BY DEF Delivered
<1>3. Len(worker) \in Nat /\ Len(worker) >= 1
  BY <1>1, <1>2, EmptySeq, LenProperties
<1>4. worker[1] \in Tasks
  BY <1>1, <1>3, ElementOfSeq
<1>5. SubSeq(worker, 1, 0) \in Seq(Tasks) /\ SubSeq(worker, 2, Len(worker)) \in Seq(Tasks)
  <2>1. \A k \in 1..0 : worker[k] \in Tasks
    OBVIOUS
  <2>2. \A k \in 2..Len(worker) : worker[k] \in Tasks
    BY <1>1, <1>3, ElementOfSeq
  <2>3. 0 \in Int /\ 1 \in Int /\ 2 \in Int /\ Len(worker) \in Int
    BY <1>3
  <2> QED
    BY <2>1, <2>2, <2>3, SubSeqProperties
<1>6. Without(i) = SubSeq(worker, 1, 0) \o SubSeq(worker, 2, Len(worker))
  BY <1>2 DEF Without
<1> QED
  BY <1>2, <1>4, <1>5, <1>6, ConcatProperties

LEMMA InitType == Init => TypeOK
<1> SUFFICES ASSUME Init PROVE TypeOK
  OBVIOUS
<1>1. printer \in Printers
  BY DEF Init
<1>2. klippy \in Seq(Entries) /\ worker \in Seq(Tasks)
  BY EmptySeq DEF Init
<1>3. exec \in Attempts
  BY DEF Init, NoAttempt, Attempts
<1>4. ctl \in Controllers
  <2>1. PICK profile \in Offered :
           ctl = [phase |-> "idle", gen |-> 0, source |-> FALSE, unloaded |-> FALSE,
                  profile |-> profile, replan |-> 0]
    BY DEF Init
  <2>2. profile \in Profiles
    BY ProfilesAssumption
  <2> QED
    BY <2>1, <2>2 DEF Controllers, Settled
<1>5. wires \in Lanes
  BY DEF Init, FreeLanes, NoQuery, NoPost, Lanes, Queries, Posts, Checks, Scripts
<1>6. seen \in Jobs
  BY DEF Init, Unseen, Jobs, Positions
<1>7. meddles \in Nat /\ verified \in Nat /\ resumed \subseteq Nat
  BY DEF Init
<1> QED
  BY <1>1, <1>2, <1>3, <1>4, <1>5, <1>6, <1>7 DEF TypeOK

LEMMA StepType == TypeOK /\ [Next]_vars => TypeOK'
<1> SUFFICES ASSUME TypeOK, [Next]_vars PROVE TypeOK'
  OBVIOUS
<1>0. /\ printer \in Printers /\ klippy \in Seq(Entries) /\ exec \in Attempts
      /\ ctl \in Controllers /\ wires \in Lanes /\ worker \in Seq(Tasks)
      /\ seen \in Jobs /\ meddles \in Nat /\ verified \in Nat /\ resumed \subseteq Nat
  BY DEF TypeOK
<1>f. /\ ctl.gen \in Nat /\ ctl.gen + 1 \in Nat /\ wires.status \in Queries
      /\ wires.script \in Posts /\ wires.identity \in Nat /\ exec.gen \in Nat
  BY <1>0 DEF Controllers, Lanes, Attempts
<1>1. CASE UNCHANGED vars
  BY <1>0, <1>1 DEF vars, TypeOK
<1>2. ASSUME Plan PROVE TypeOK'
  <2>1. ctl' \in Controllers
    BY <1>0, <1>f, <1>2 DEF Plan, Phase, Controllers, Settled, Planning
  <2>2. worker' \in Seq(Tasks)
    <3>1. [job |-> "plan", gen |-> ctl.gen + 1] \in Tasks
      BY <1>f DEF Tasks
    <3> QED
      BY <1>0, <1>2, <3>1, AppendProperties DEF Plan
  <2> QED
    BY <1>0, <1>2, <2>1, <2>2 DEF Plan, Printing, TypeOK
<1>3. ASSUME Start PROVE TypeOK'
  <2>1. ctl' \in Controllers
    BY <1>0, <1>f, <1>3 DEF Start, Controllers, Settled, Planning
  <2>2. worker' \in Seq(Tasks)
    <3>1. [job |-> "verify", gen |-> ctl.gen + 1] \in Tasks
      BY <1>f DEF Tasks
    <3>2. Append(worker, [job |-> "verify", gen |-> ctl.gen + 1]) \in Seq(Tasks)
      BY <1>0, <3>1, AppendProperties
    <3> QED
      BY <1>0, <1>3, <3>2 DEF Start
  <2> QED
    BY <1>0, <1>3, <2>1, <2>2 DEF Start, Printing, TypeOK
<1>4. ASSUME Cancel PROVE TypeOK'
  <2>1. ctl' \in Controllers
    BY <1>0, <1>f, <1>4 DEF Cancel, Phase, Controllers, Settled
  <2>2. exec' \in Attempts
    BY <1>0, <1>4 DEF Cancel, CancelAsked, Attempts
  <2> QED
    BY <1>0, <1>4, <2>1, <2>2 DEF Cancel, Printing, TypeOK
<1>5. ASSUME NEW i \in Delivered, PlanDone(i) PROVE TypeOK'
  <2>1. ctl' \in Controllers /\ wires' \in Lanes
    BY <1>0, <1>f, <1>5 DEF PlanDone, Controllers, Lanes, Settled, Planning
  <2>2. worker' \in Seq(Tasks)
    BY <1>5, WithoutType DEF PlanDone
  <2> QED
    BY <1>0, <1>5, <2>1, <2>2 DEF PlanDone, Printing, TypeOK
<1>6. ASSUME ProfileReply PROVE TypeOK'
  <2>1. ctl' \in Controllers /\ wires' \in Lanes
    BY <1>0, <1>6 DEF ProfileReply, Phase, Controllers, Lanes, Settled, Planning
  <2> QED
    BY <1>0, <1>6, <2>1 DEF ProfileReply, Printing, TypeOK
<1>7. ASSUME NEW i \in Delivered, VerificationDone(i) PROVE TypeOK'
  <2>1. ctl' \in Controllers /\ wires' \in Lanes
    BY <1>0, <1>f, <1>7 DEF VerificationDone, Phase, Controllers, Lanes, Settled, Planning
  <2>2. worker' \in Seq(Tasks)
    BY <1>7, WithoutType DEF VerificationDone
  <2> QED
    BY <1>0, <1>7, <2>1, <2>2 DEF VerificationDone, Printing, TypeOK
<1>8. ASSUME IdentityReply PROVE TypeOK'
  <2> DEFINE W == [wires EXCEPT !.identity = 0]
  <2>1. W \in Lanes
    BY <1>0 DEF Lanes
  <2>2. Begun(ctl.gen) \in Attempts
    BY <1>f, BegunType
  <2>3. /\ exec' \in Attempts /\ wires' \in Lanes /\ klippy' \in Seq(Entries)
        /\ worker' \in Seq(Tasks) /\ ctl' \in Controllers
    <3>1. CASE wires' = W /\ UNCHANGED <<ctl, exec, klippy, worker>>
      BY <1>0, <2>1, <3>1
    <3>2. CASE wires' = W /\ Phase("refused") /\ UNCHANGED <<exec, klippy, worker>>
      BY <1>0, <2>1, <3>2 DEF Phase, Controllers, Settled
    <3>3. CASE Carry(Begun(ctl.gen), W, worker, ctl)
      BY <1>0, <2>1, <2>2, <3>3, CarryType
    <3> QED
      BY <1>8, <3>1, <3>2, <3>3 DEF IdentityReply
  <2> QED
    BY <1>0, <1>8, <2>3 DEF IdentityReply, TypeOK
<1>9. ASSUME Sample PROVE TypeOK'
  <2>1. wires' \in Lanes
    BY <1>0, <1>9 DEF Sample, Lanes, Queries
  <2> QED
    BY <1>0, <1>f, <1>9, <2>1 DEF Sample, TypeOK, Queries
<1>10. ASSUME StatusReply PROVE TypeOK'
  <2> DEFINE W == [wires EXCEPT !.status = NoQuery]
  <2>1. W \in Lanes
    BY <1>0 DEF Lanes, Queries, NoQuery, Checks
  <2>2. Finished(exec, "uncertain") \in Attempts
    BY <1>0, FinishedType DEF Outcomes
  <2>3. ASSUME NEW s \in wires.status.snap, NEW fit \in BOOLEAN
        PROVE  Judged(exec, s, fit, ctl.profile) \in Attempts
    <3>1. s \in Printers
      BY <1>f, <2>3 DEF Queries
    <3> QED
      BY <1>0, <3>1, JudgedType
  <2>4. /\ exec' \in Attempts /\ wires' \in Lanes /\ klippy' \in Seq(Entries)
        /\ worker' \in Seq(Tasks) /\ ctl' \in Controllers
    <3>1. CASE wires' = W /\ UNCHANGED <<ctl, exec, klippy, worker>>
      BY <1>0, <2>1, <3>1
    <3>2. CASE Carry(Finished(exec, "uncertain"), W, worker, ctl)
      BY <1>0, <2>1, <2>2, <3>2, CarryType
    <3>3. ASSUME NEW s \in wires.status.snap, NEW fit \in BOOLEAN,
                 Carry(Judged(exec, s, fit, ctl.profile), W, worker, ctl)
          PROVE  /\ exec' \in Attempts /\ wires' \in Lanes /\ klippy' \in Seq(Entries)
                 /\ worker' \in Seq(Tasks) /\ ctl' \in Controllers
      BY <1>0, <2>1, <2>3, <3>3, CarryType
    <3> QED
      BY <1>10, <3>1, <3>2, <3>3 DEF StatusReply
  <2> QED
    BY <1>0, <1>10, <2>4 DEF StatusReply, TypeOK
<1>11. ASSUME ScriptReply PROVE TypeOK'
  <2> DEFINE W == [wires EXCEPT !.script = NoPost]
  <2>1. W \in Lanes
    BY <1>0 DEF Lanes, Posts, NoPost, Scripts
  <2>2. Finished(exec, "uncertain") \in Attempts
    BY <1>0, FinishedType DEF Outcomes
  <2>3. /\ exec' \in Attempts /\ wires' \in Lanes /\ klippy' \in Seq(Entries)
        /\ worker' \in Seq(Tasks) /\ ctl' \in Controllers
    <3>1. CASE wires' = W /\ UNCHANGED <<ctl, exec, klippy, worker>>
      BY <1>0, <2>1, <3>1
    <3>2. CASE Carry(Finished(exec, "uncertain"), W, worker, ctl)
      BY <1>0, <2>1, <2>2, <3>2, CarryType
    <3>3. CASE /\ Mine(wires.script.gen, wires.script.stage)
               /\ Carry(Entered(exec, AfterScript[exec.phase]), W, worker, ctl)
      <4>1. exec.phase \in Scripts
        BY <1>f, <3>3 DEF Mine, Posts
      <4>2. Entered(exec, AfterScript[exec.phase]) \in Attempts
        BY <1>0, <4>1, AfterScriptType, EnteredType
      <4> QED
        BY <1>0, <2>1, <3>3, <4>2, CarryType
    <3> QED
      BY <1>11, <3>1, <3>2, <3>3 DEF ScriptReply
  <2> QED
    BY <1>0, <1>11, <2>3 DEF ScriptReply, TypeOK
<1>12. ASSUME NEW i \in Delivered, ReplanDone(i) PROVE TypeOK'
  <2> DEFINE C == [ctl EXCEPT !.replan = 0]
  <2>1. C \in Controllers /\ Without(i) \in Seq(Tasks)
    BY <1>0, <1>12, WithoutType DEF Controllers
  <2>2. Finished(exec, "refused") \in Attempts /\ Entered(exec, "checking_after_pause") \in Attempts
    BY <1>0, FinishedType, EnteredType DEF Outcomes, Stages, Checks
  <2>3. /\ exec' \in Attempts /\ wires' \in Lanes /\ klippy' \in Seq(Entries)
        /\ worker' \in Seq(Tasks) /\ ctl' \in Controllers
    <3>1. CASE ctl' = C /\ worker' = Without(i) /\ UNCHANGED <<exec, wires, klippy>>
      BY <1>0, <2>1, <3>1
    <3>2. CASE Carry(Finished(exec, "refused"), wires, Without(i), C)
      BY <1>0, <2>1, <2>2, <3>2, CarryType
    <3>3. CASE Carry(Entered(exec, "checking_after_pause"), wires, Without(i), C)
      BY <1>0, <2>1, <2>2, <3>3, CarryType
    <3> QED
      BY <1>12, <3>1, <3>2, <3>3 DEF ReplanDone
  <2> QED
    BY <1>0, <1>12, <2>3 DEF ReplanDone, TypeOK
<1>13. ASSUME Frame PROVE TypeOK'
  <2>1. seen' \in Jobs
    BY <1>0, <1>13 DEF Frame, Jobs, Printers
  <2>2. exec' \in Attempts /\ ctl' \in Controllers
    BY <1>0, <1>13, InvalidateType DEF Frame
  <2> QED
    BY <1>0, <1>13, <2>1, <2>2 DEF Frame, Printing, TypeOK
<1>14. ASSUME SessionLost PROVE TypeOK'
  <2>1. seen' \in Jobs
    BY <1>14 DEF SessionLost, Unseen, Jobs, Positions
  <2>2. exec' \in Attempts /\ ctl' \in Controllers
    BY <1>14, InvalidateType DEF SessionLost
  <2>3. wires' \in Lanes
    BY <1>0, <1>14 DEF SessionLost, FreeLanes, NoQuery, NoPost, Lanes, Queries, Posts, Checks,
                       Scripts
  <2> QED
    BY <1>0, <1>14, <2>1, <2>2, <2>3 DEF SessionLost, Printing, TypeOK
<1>15. ASSUME SelectFile PROVE TypeOK'
  BY <1>0, <1>15, InvalidateType DEF SelectFile, Printing, TypeOK
<1>16. ASSUME klippy # <<>>, NEW outcome \in {"ran", "failed"}, Answers(Head(klippy), outcome)
       PROVE  wires' \in Lanes /\ Head(klippy) \in Entries /\ Tail(klippy) \in Seq(Entries)
  <2>1. wires' \in Lanes
    BY <1>0, <1>16 DEF Answers, Lanes, Posts
  <2> QED
    BY <1>0, <1>16, <2>1, HeadTailProperties
<1>17. ASSUME RunScript PROVE TypeOK'
  <2>1. wires' \in Lanes /\ Head(klippy) \in Entries /\ klippy' \in Seq(Entries)
    BY <1>16, <1>17 DEF RunScript
  <2>2. printer' \in Printers
    BY <1>0, <1>17, <2>1, EffectType DEF RunScript
  <2>3. resumed' \subseteq Nat
    BY <1>0, <1>17, <2>1 DEF RunScript, Entries
  <2> QED
    BY <1>0, <1>17, <2>1, <2>2, <2>3 DEF RunScript, TypeOK
<1>18. ASSUME FailScript PROVE TypeOK'
  <2>1. wires' \in Lanes /\ klippy' \in Seq(Entries)
    BY <1>16, <1>18 DEF FailScript
  <2> QED
    BY <1>0, <1>18, <2>1 DEF FailScript, TypeOK
<1>19. ASSUME PrintOn PROVE TypeOK'
  <2>1. printer' \in Printers
    <3>1. 2 \in Positions
      BY DEF Positions
    <3>2. CASE printer' = [printer EXCEPT !.pos = 2]
      BY <1>0, <3>1, <3>2 DEF Printers
    <3>3. CASE printer' = [printer EXCEPT !.state = "idle", !.held = FALSE]
      BY <1>0, <3>3 DEF Printers
    <3> QED
      BY <1>19, <3>2, <3>3 DEF PrintOn
  <2> QED
    BY <1>0, <1>19, <2>1 DEF PrintOn, TypeOK
<1>20. ASSUME Meddle PROVE TypeOK'
  <2>1. printer' \in Printers
    <3>1. 0 \in Positions /\ "away" \in Places /\ "part" \in Places
      BY DEF Positions, Places
    <3>2. CASE printer' = [printer EXCEPT !.state = "paused", !.held = TRUE, !.at = "away"]
      BY <1>0, <3>1, <3>2 DEF Printers
    <3>3. CASE printer' = [printer EXCEPT !.state = "printing", !.held = FALSE, !.at = "part"]
      BY <1>0, <3>1, <3>3 DEF Printers
    <3>4. CASE printer' = [printer EXCEPT !.state = "idle", !.held = FALSE, !.hot = FALSE]
      BY <1>0, <3>4 DEF Printers
    <3>5. CASE printer' = [printer EXCEPT !.state = "printing", !.mine = FALSE, !.at = "part",
                                          !.pos = 0]
      BY <1>0, <3>1, <3>5 DEF Printers
    <3>6. CASE printer' = [printer EXCEPT !.at = "away", !.zref = FALSE, !.modal = FALSE]
      BY <1>0, <3>1, <3>6 DEF Printers
    <3>7. CASE printer' = [printer EXCEPT !.hot = FALSE]
      BY <1>0, <3>7 DEF Printers
    <3> QED
      BY <1>20, <3>2, <3>3, <3>4, <3>5, <3>6, <3>7 DEF Meddle
  <2> QED
    BY <1>0, <1>20, <2>1 DEF Meddle, TypeOK
<1> QED
  BY <1>1, <1>2, <1>3, <1>4, <1>5, <1>6, <1>7, <1>8, <1>9, <1>10, <1>11, <1>12, <1>13, <1>14,
     <1>15, <1>17, <1>18, <1>19, <1>20
     DEF Next, Owner, Answer, Outside, Machine, ExecutorDone

\* TypeOK holds of every behaviour: in particular every phase the controller
\* shows, every stage an attempt is in and every generation a lane or the
\* executor carries is one the code knows.
THEOREM RecoveryTypeCorrect == Spec => []TypeOK
<1>1. Init => TypeOK
  BY InitType
<1>2. TypeOK /\ [Next]_vars => TypeOK'
  BY StepType
<1> QED
  BY <1>1, <1>2, PTL DEF Spec

-----------------------------------------------------------------------------
(* One generation runs one errand.                                         *)

\* The i-th job is a plan or a verification of generation g.
Errand(J, g, i) == J[i].gen = g /\ J[i].job # "replan"

\* A generation is in one place at a time: its job in the executor J, its
\* request in the metadata or profile lane, or the attempt it started.
Errands(J, g, active, of, identity, profile) ==
    /\ \A i \in 1..Len(J) : 0 < J[i].gen /\ J[i].gen <= g
    /\ identity <= g /\ profile <= g
    /\ active => of = g /\ g > 0
    /\ \A i, k \in 1..Len(J) : Errand(J, g, i) /\ Errand(J, g, k) => i = k
    /\ g > 0 /\ (active \/ identity = g \/ profile = g)
          => \A i \in 1..Len(J) : ~Errand(J, g, i)
    /\ g > 0 => /\ ~(active /\ identity = g) /\ ~(active /\ profile = g)
                /\ ~(identity = g /\ profile = g)

OneErrand == Errands(worker, ctl.gen, exec.active, exec.gen, wires.identity, wires.profile)

LEMMA ErrandsRetired ==
    ASSUME NEW J \in Seq(Tasks), NEW g \in Nat, NEW active \in BOOLEAN, NEW of \in Nat,
           NEW identity \in Nat, NEW profile \in Nat, NEW new \in Nat,
           Errands(J, g, active, of, identity, profile)
    PROVE  /\ Errands(J, g + 1, FALSE, new, identity, profile)
           /\ Errands(J, g, FALSE, new, identity, profile)
           /\ Errands(J, g, active, of, 0, profile)
           /\ Errands(J, g, active, of, identity, 0)
<1>1. Len(J) \in Nat /\ \A i \in 1..Len(J) : J[i] \in Tasks
  BY LenProperties, ElementOfSeq
<1>2. \A i \in 1..Len(J) : J[i].gen \in Nat /\ J[i].gen <= g /\ 0 < J[i].gen
  BY <1>1 DEF Tasks, Errands
<1>3. \A i \in 1..Len(J) : J[i].gen # g + 1 /\ J[i].gen <= g + 1
  BY <1>2
<1>4. Errands(J, g + 1, FALSE, new, identity, profile)
  <2>1. identity <= g /\ profile <= g
    BY DEF Errands
  <2>2. identity <= g + 1 /\ profile <= g + 1 /\ identity # g + 1 /\ profile # g + 1
    BY <2>1
  <2> QED
    BY <1>2, <1>3, <2>2 DEF Errands, Errand
<1>5. Errands(J, g, FALSE, new, identity, profile)
  BY DEF Errands
<1>6. Errands(J, g, active, of, 0, profile) /\ Errands(J, g, active, of, identity, 0)
  BY DEF Errands
<1> QED
  BY <1>4, <1>5, <1>6

LEMMA ErrandSent ==
    ASSUME NEW J \in Seq(Tasks), NEW g \in Nat, NEW active \in BOOLEAN, NEW of \in Nat,
           NEW identity \in Nat, NEW profile \in Nat, NEW new \in Nat,
           Errands(J, g, active, of, identity, profile),
           NEW t \in Tasks, t.gen = g + 1
    PROVE  Errands(Append(J, t), g + 1, FALSE, new, identity, profile)
<1>1. /\ Len(J) \in Nat /\ Len(Append(J, t)) = Len(J) + 1
      /\ \A i \in 1..Len(J) : Append(J, t)[i] = J[i]
      /\ Append(J, t)[Len(J) + 1] = t
  BY LenProperties, AppendProperties
<1>2. \A i \in 1..Len(J) : J[i].gen # g + 1 /\ J[i].gen <= g + 1 /\ 0 < J[i].gen
  <2>1. \A i \in 1..Len(J) : J[i] \in Tasks
    BY <1>1, ElementOfSeq
  <2> QED
    BY <2>1 DEF Errands, Tasks
<1>3. identity <= g + 1 /\ profile <= g + 1 /\ identity # g + 1 /\ profile # g + 1
  BY DEF Errands
<1>4. \A i \in 1..(Len(J) + 1) :
         /\ i \in 1..Len(J) => Append(J, t)[i] = J[i]
         /\ i \notin 1..Len(J) => i = Len(J) + 1 /\ Append(J, t)[i] = t
  BY <1>1
<1>5. \A i \in 1..(Len(J) + 1) :
         /\ 0 < Append(J, t)[i].gen /\ Append(J, t)[i].gen <= g + 1
         /\ Append(J, t)[i].gen = g + 1 => i = Len(J) + 1
  BY <1>1, <1>2, <1>4
<1> QED
  BY <1>1, <1>3, <1>5 DEF Errands, Errand

LEMMA ReplanSent ==
    ASSUME NEW J \in Seq(Tasks), NEW g \in Nat, NEW active \in BOOLEAN, NEW of \in Nat,
           NEW identity \in Nat, NEW profile \in Nat,
           Errands(J, g, active, of, identity, profile),
           NEW t \in Tasks, t.gen = g, t.job = "replan", g > 0
    PROVE  Errands(Append(J, t), g, active, of, identity, profile)
<1>1. /\ Len(J) \in Nat /\ Len(Append(J, t)) = Len(J) + 1
      /\ \A i \in 1..Len(J) : Append(J, t)[i] = J[i]
      /\ Append(J, t)[Len(J) + 1] = t
  BY LenProperties, AppendProperties
<1> QED
  BY <1>1 DEF Errands, Errand

LEMMA Popped ==
    ASSUME TypeOK, NEW i \in Delivered
    PROVE  /\ i = 1 /\ 1 \in 1..Len(worker) /\ Len(Without(i)) = Len(worker) - 1
           /\ Len(worker) \in Nat
           /\ \A k \in 1..Len(Without(i)) : Without(i)[k] = worker[k + 1]
<1>1. worker \in Seq(Tasks) /\ worker # <<>> /\ i = 1
  BY DEF TypeOK, Delivered
<1>2. Len(worker) \in Nat \ {0}
  BY <1>1, EmptySeq
<1>3. SubSeq(worker, 1, 0) = <<>>
  BY SubSeqEmpty
<1>4. \A k \in 2..Len(worker) : worker[k] \in Tasks
  BY <1>1, <1>2, ElementOfSeq
<1>5. /\ SubSeq(worker, 2, Len(worker)) \in Seq(Tasks)
      /\ Len(SubSeq(worker, 2, Len(worker))) = Len(worker) - 1
      /\ \A k \in 1..(Len(worker) - 1) : SubSeq(worker, 2, Len(worker))[k] = worker[k + 1]
  <2>1. /\ SubSeq(worker, 2, Len(worker)) \in Seq(Tasks)
        /\ Len(SubSeq(worker, 2, Len(worker)))
             = IF 2 <= Len(worker) THEN Len(worker) - 2 + 1 ELSE 0
        /\ \A k \in 1..(Len(worker) - 2 + 1) :
              SubSeq(worker, 2, Len(worker))[k] = worker[2 + k - 1]
    BY <1>2, <1>4, SubSeqProperties
  <2>2. \A k \in 1..(Len(worker) - 1) : k \in 1..(Len(worker) - 2 + 1) /\ 2 + k - 1 = k + 1
    BY <1>2
  <2>3. \A k \in 1..(Len(worker) - 1) : SubSeq(worker, 2, Len(worker))[k] = worker[k + 1]
    <3> TAKE k \in 1..(Len(worker) - 1)
    <3> QED
      BY <2>1, <2>2
  <2>4. Len(SubSeq(worker, 2, Len(worker))) = Len(worker) - 1
    <3> DEFINE m == Len(SubSeq(worker, 2, Len(worker)))
               n == Len(worker)
    <3>1. m = (IF 2 <= n THEN n - 2 + 1 ELSE 0) /\ n \in Nat \ {0}
      BY <1>2, <2>1
    <3> HIDE DEF m, n
    <3>2. m = n - 1
      BY <3>1
    <3> QED
      BY <3>2 DEF m, n
  <2> QED
    BY <2>1, <2>3, <2>4
<1>6. Without(i) = SubSeq(worker, 2, Len(worker))
  BY <1>1, <1>3, <1>5, ConcatEmptySeq DEF Without
<1> QED
  BY <1>1, <1>2, <1>5, <1>6

LEMMA ErrandDelivered ==
    ASSUME TypeOK, OneErrand, NEW i \in Delivered
    PROVE  /\ Errands(Without(i), ctl.gen, exec.active, exec.gen, wires.identity, wires.profile)
           /\ Errand(worker, ctl.gen, i)
                => /\ ~exec.active
                   /\ Errands(Without(i), ctl.gen, FALSE, exec.gen, ctl.gen, wires.profile)
                   /\ Errands(Without(i), ctl.gen, FALSE, exec.gen, wires.identity, ctl.gen)
<1>1. /\ worker \in Seq(Tasks) /\ ctl.gen \in Nat /\ exec.gen \in Nat
      /\ exec.active \in BOOLEAN /\ wires.identity \in Nat /\ wires.profile \in Nat
  BY DEF TypeOK, Controllers, Lanes, Attempts
<1>2. \A k \in 1..Len(worker) : worker[k].gen \in Nat
  <2>1. \A k \in 1..Len(worker) : worker[k] \in Tasks
    BY <1>1, ElementOfSeq
  <2> QED
    BY <2>1 DEF Tasks
<1>3. /\ i = 1 /\ 1 \in 1..Len(worker) /\ Len(Without(i)) = Len(worker) - 1
      /\ Len(worker) \in Nat
      /\ \A k \in 1..Len(Without(i)) : Without(i)[k] = worker[k + 1]
  BY Popped
<1>4. \A k \in 1..Len(Without(i)) : k + 1 \in 1..Len(worker)
  BY <1>3
<1>5. ASSUME Errand(worker, ctl.gen, i), NEW k \in 1..Len(Without(i))
      PROVE  ~Errand(Without(i), ctl.gen, k)
  BY <1>1, <1>3, <1>4, <1>5 DEF OneErrand, Errands, Errand
<1>6. Errands(Without(i), ctl.gen, exec.active, exec.gen, wires.identity, wires.profile)
  BY <1>1, <1>2, <1>3, <1>4 DEF OneErrand, Errands, Errand
<1>7. ASSUME Errand(worker, ctl.gen, i)
      PROVE  /\ ctl.gen > 0 /\ ~exec.active /\ wires.identity # ctl.gen
             /\ wires.profile # ctl.gen
  BY <1>1, <1>2, <1>3, <1>7 DEF OneErrand, Errands, Errand
<1> QED
  BY <1>1, <1>5, <1>6, <1>7 DEF Errands

-----------------------------------------------------------------------------
(* The steps of an attempt.                                                *)

\* z is y, or y whose next request found its lane taken.
Onto(y, z) == z = y \/ (y.active /\ z = Finished(y, "uncertain"))

\* Every way a step changes the attempt.
AttemptStep(x, z) ==
    \/ z = x
    \/ x.active /\ z = Finished(x, "uncertain")
    \/ ~x.active /\ Onto(Begun(ctl.gen), z)
    \/ z = CancelAsked(x)
    \/ /\ x.active /\ x.phase \in Checks
       /\ \E s \in Printers, fit \in BOOLEAN : Onto(Judged(x, s, fit, ctl.profile), z)
    \/ /\ x.active /\ x.phase \in Scripts /\ wires.script.gen = x.gen
       /\ wires.script.stage = x.phase /\ wires.script.ran = "ran"
       /\ Onto(Entered(x, AfterScript[x.phase]), z)
    \/ /\ x.active /\ x.phase = "rechecking_source"
       /\ z = Finished(x, "refused") \/ Onto(Entered(x, "checking_after_pause"), z)

LEMMA CarryStep ==
    ASSUME NEW x, NEW W, NEW J, NEW C, Carry(x, W, J, C)
    PROVE  Onto(x, exec')
BY DEF Carry, Onto

LEMMA AttemptSteps ==
    ASSUME TypeOK, OneErrand, [Next]_vars
    PROVE  AttemptStep(exec, exec')
<1>0. exec \in Attempts /\ wires.status \in Queries /\ wires.script \in Posts
  BY DEF TypeOK, Lanes
<1>1. ASSUME exec' = exec PROVE AttemptStep(exec, exec')
  BY <1>1 DEF AttemptStep
<1>2. ASSUME Invalidate PROVE AttemptStep(exec, exec')
  BY <1>2 DEF Invalidate, Invalidated, AttemptStep
<1>3. ASSUME NEW o \in Outcomes, NEW W, NEW J, NEW C, Carry(Finished(exec, o), W, J, C)
      PROVE  exec' = Finished(exec, o)
  BY <1>0, <1>3, CarryStep, FinishedType DEF Onto
<1>4. CASE Cancel
  BY <1>4 DEF Cancel, AttemptStep
<1>5. CASE IdentityReply
  <2>1. CASE UNCHANGED exec
    BY <1>1, <2>1
  <2>2. CASE /\ wires.identity = ctl.gen
             /\ Carry(Begun(ctl.gen), [wires EXCEPT !.identity = 0], worker, ctl)
    <3>1. ~exec.active
      BY <1>5, <2>2 DEF IdentityReply, OneErrand, Errands, TypeOK, Controllers
    <3>2. Onto(Begun(ctl.gen), exec')
      BY <2>2, CarryStep
    <3> QED
      BY <3>1, <3>2 DEF AttemptStep
  <2> QED
    BY <1>5, <2>1, <2>2 DEF IdentityReply
<1>6. CASE StatusReply
  <2> DEFINE W == [wires EXCEPT !.status = NoQuery]
  <2>1. CASE UNCHANGED exec
    BY <1>1, <2>1
  <2>2. CASE /\ Mine(wires.status.gen, wires.status.stage)
             /\ Carry(Finished(exec, "uncertain"), W, worker, ctl)
    BY <1>3, <2>2 DEF Mine, AttemptStep, Outcomes
  <2>3. ASSUME Mine(wires.status.gen, wires.status.stage),
               NEW s \in wires.status.snap, NEW fit \in BOOLEAN,
               Carry(Judged(exec, s, fit, ctl.profile), W, worker, ctl)
        PROVE  AttemptStep(exec, exec')
    <3>1. s \in Printers /\ exec.active /\ exec.phase \in Checks
      BY <1>0, <2>3 DEF Mine, Queries
    <3>2. Onto(Judged(exec, s, fit, ctl.profile), exec')
      BY <2>3, CarryStep
    <3> QED
      BY <3>1, <3>2 DEF AttemptStep
  <2> QED
    BY <1>6, <2>1, <2>2, <2>3 DEF StatusReply
<1>7. CASE ScriptReply
  <2> DEFINE W == [wires EXCEPT !.script = NoPost]
  <2>1. CASE UNCHANGED exec
    BY <1>1, <2>1
  <2>2. CASE /\ Mine(wires.script.gen, wires.script.stage)
             /\ Carry(Finished(exec, "uncertain"), W, worker, ctl)
    BY <1>3, <2>2 DEF Mine, AttemptStep, Outcomes
  <2>3. CASE /\ Mine(wires.script.gen, wires.script.stage)
             /\ wires.script.ran = "ran"
             /\ Carry(Entered(exec, AfterScript[exec.phase]), W, worker, ctl)
    <3>1. Onto(Entered(exec, AfterScript[exec.phase]), exec')
      BY <2>3, CarryStep
    <3>2. exec.phase \in Scripts
      BY <1>0, <2>3 DEF Mine, Posts
    <3> QED
      BY <2>3, <3>1, <3>2 DEF AttemptStep, Mine
  <2> QED
    BY <1>7, <2>1, <2>2, <2>3 DEF ScriptReply
<1>8. ASSUME NEW i \in Delivered, ReplanDone(i) PROVE AttemptStep(exec, exec')
  <2> DEFINE C == [ctl EXCEPT !.replan = 0]
  <2>1. CASE UNCHANGED exec
    BY <1>1, <2>1
  <2>2. CASE /\ Mine(ctl.replan, "rechecking_source")
             /\ Carry(Finished(exec, "refused"), wires, Without(i), C)
    BY <1>3, <2>2 DEF Mine, AttemptStep, Outcomes
  <2>3. CASE /\ Mine(ctl.replan, "rechecking_source")
             /\ Carry(Entered(exec, "checking_after_pause"), wires, Without(i), C)
    BY <2>3, CarryStep DEF AttemptStep, Mine
  <2> QED
    BY <1>8, <2>1, <2>2, <2>3 DEF ReplanDone
<1>9. CASE UNCHANGED exec
  BY <1>1, <1>9
<1> QED
  BY <1>2, <1>4, <1>5, <1>6, <1>7, <1>8, <1>9
     DEF Next, Owner, Answer, Outside, Machine, ExecutorDone, Plan, Start, PlanDone, ProfileReply,
         VerificationDone, Sample, Frame, SessionLost, SelectFile, RunScript, FailScript, PrintOn,
         Meddle, vars

-----------------------------------------------------------------------------
(* What an attempt tells its owner.                                        *)

\* A running attempt is in a stage; it has handed over exactly from the M24
\* on; and it does not carry a stop past it.
Sound(x) ==
    /\ x.active => x.phase \in Stages
    /\ ~x.active => x.phase \in Outcomes \cup {"idle"}
    /\ x.active => (x.handover <=> x.phase \in {"resuming", "checking_resume"})
    /\ x.active /\ x.handover => ~x.cancelled

\* The stage and the stop of RecoveryPromise, as the attempt shows them.
Shown(x) == IF ~x.active THEN x.phase ELSE IF x.handover THEN "handed over" ELSE "preparing"

PromiseStep(x, y) ==
    \/ Shown(y) = Shown(x) /\ y.cancelled = x.cancelled
    \/ Shown(x) = "preparing" /\ Shown(y) = "preparing" /\ y.cancelled = TRUE
    \/ /\ Shown(x) = "preparing" /\ ~x.cancelled
       /\ Shown(y) = "handed over" /\ y.cancelled = x.cancelled
    \/ /\ Shown(x) = "preparing" /\ y.cancelled = x.cancelled
       /\ Shown(y) \in {"refused", "uncertain"} \/ (x.cancelled /\ Shown(y) = "cancelled")
    \/ /\ Shown(x) = "handed over" /\ y.cancelled = x.cancelled
       /\ Shown(y) \in {"complete", "uncertain"}
    \/ /\ Shown(x) \in Outcomes \cup {"idle"} /\ y.cancelled = FALSE
       /\ Shown(y) \in {"preparing", "uncertain"}

\* What one answer may do to a running attempt: it stays the same attempt, and
\* only the last query completes it, and only the M24 leads to that query.
Answered(x, y) ==
    /\ y \in Attempts /\ Sound(y) /\ PromiseStep(x, y)
    /\ y.gen = x.gen /\ y.cancelled = x.cancelled
    /\ y.phase = "complete" => x.phase = "checking_resume"
    /\ y.phase = "checking_resume" => x.phase = "resuming"

LEMMA StageNames ==
    /\ Stages \cap (Outcomes \cup {"idle"}) = {}
    /\ Scripts \cap Checks = {} /\ Checks \subseteq Stages /\ Scripts \subseteq Stages
    /\ "rechecking_source" \in Stages \ (Scripts \cup Checks)
    /\ "resuming" \in Scripts /\ "checking_resume" \in Checks
    /\ "preparing" \notin Outcomes \cup {"idle"} /\ "handed over" \notin Outcomes \cup {"idle"}
    /\ "complete" \notin Stages /\ "checking_resume" \notin Outcomes
    /\ "cancelling" \notin Stages \cup Outcomes \cup {"idle"}
BY DEF Stages, Outcomes, Scripts, Checks

LEMMA GivesUp ==
    ASSUME NEW x \in Attempts, x.active, Sound(x), NEW o \in Outcomes,
           x.phase # "checking_resume" => o # "complete",
           o = "cancelled" => x.cancelled,
           o \in {"cancelled", "refused"} => ~x.handover,
           o = "complete" => x.handover
    PROVE  Answered(x, Finished(x, o))
<1>1. /\ Finished(x, o) \in Attempts /\ ~Finished(x, o).active /\ Finished(x, o).phase = o
      /\ Finished(x, o).gen = x.gen /\ Finished(x, o).cancelled = x.cancelled
  BY FinishedType
<1>2. o \in {"refused", "cancelled", "uncertain", "complete"}
  BY DEF Outcomes
<1>3. Sound(Finished(x, o))
  BY <1>1 DEF Sound
<1>4. PromiseStep(x, Finished(x, o))
  <2>1. Shown(Finished(x, o)) = o
    BY <1>1 DEF Shown
  <2>2. CASE x.handover
    BY <1>1, <1>2, <2>1, <2>2 DEF PromiseStep, Shown
  <2>3. CASE ~x.handover
    BY <1>1, <1>2, <2>1, <2>3 DEF PromiseStep, Shown
  <2> QED
    BY <2>2, <2>3
<1> QED
  BY <1>1, <1>2, <1>3, <1>4 DEF Answered

LEMMA Enters ==
    ASSUME NEW x \in Attempts, x.active, Sound(x), NEW y \in Attempts,
           y.active, y.gen = x.gen, y.cancelled = x.cancelled, y.handover = x.handover,
           y.phase = x.phase, NEW stage \in Stages,
           x.phase # "checking_resume",
           x.phase = "resuming" => stage = "checking_resume",
           stage = "checking_resume" => x.phase = "resuming"
    PROVE  Answered(x, Entered(y, stage))
<1>1. CASE x.cancelled
  <2>1. ~x.handover
    BY <1>1 DEF Sound
  <2>2. Sound(y)
    BY DEF Sound
  <2>3. Answered(y, Finished(y, "cancelled"))
    BY <1>1, <2>1, <2>2, GivesUp DEF Outcomes
  <2>4. Shown(y) = Shown(x)
    BY DEF Shown
  <2> QED
    BY <1>1, <2>3, <2>4 DEF Answered, PromiseStep, Entered
<1>2. CASE ~x.cancelled
  <2> DEFINE z == [y EXCEPT !.phase = stage,
                            !.handover = IF stage \in Scripts THEN stage = "resuming" ELSE @]
  <2>1. Entered(y, stage) = z
    BY <1>2 DEF Entered
  <2>2. z \in Attempts
    BY <2>1, EnteredType
  <2>3. /\ z.active /\ z.phase = stage /\ z.gen = x.gen /\ z.cancelled = x.cancelled
        /\ z.handover = (IF stage \in Scripts THEN stage = "resuming" ELSE x.handover)
    BY DEF Attempts
  <2> HIDE DEF z
  <2>4. x.handover <=> x.phase = "resuming"
    BY DEF Sound
  <2>5. z.handover <=> stage \in {"resuming", "checking_resume"}
    BY <2>3, <2>4, StageNames
  <2>6. Sound(z)
    BY <1>2, <2>3, <2>5 DEF Sound
  <2>7. PromiseStep(x, z)
    <3>1. CASE x.handover
      BY <2>3, <2>4, <2>5, <3>1 DEF PromiseStep, Shown
    <3>2. CASE ~x.handover
      BY <1>2, <2>3, <2>4, <2>5, <3>2 DEF PromiseStep, Shown
    <3> QED
      BY <3>1, <3>2
  <2>8. z.phase # "complete"
    BY <2>3, StageNames
  <2> QED
    BY <2>1, <2>2, <2>3, <2>6, <2>7, <2>8 DEF Answered
<1> QED
  BY <1>1, <1>2

LEMMA OnwardNames ==
    ASSUME NEW x, NEW s, NEW profile, x.phase \in Checks, x.phase # "checking_resume"
    PROVE  /\ Onward(x, s, profile) \in Scripts \cup {"rechecking_source"}
           /\ Onward(x, s, profile) # "checking_resume"
<1>1. Return(x, s, profile) \in Scripts
  BY DEF Return, Scripts
<1>2. Onward(x, s, profile) \in Scripts \cup {"rechecking_source"}
  BY <1>1 DEF Onward, Scripts
<1> QED
  BY <1>2, StageNames

LEMMA JudgedStep ==
    ASSUME NEW x \in Attempts, x.active, Sound(x), x.phase \in Checks,
           NEW s \in Printers, NEW fit \in BOOLEAN, NEW profile
    PROVE  Answered(x, Judged(x, s, fit, profile))
<1> DEFINE y == [x EXCEPT !.primed = @ \/ x.phase = "checking_prime",
                          !.idle   = @ \/ (x.phase = "checking" /\ s.state = "idle")]
<1>1. x.handover <=> x.phase = "checking_resume"
  BY StageNames DEF Sound
<1>2. CASE x.cancelled
  BY <1>1, <1>2, GivesUp DEF Judged, Outcomes, Sound
<1>3. CASE ~x.cancelled /\ ~(fit /\ Gate(x, s))
  <2>1. CASE x.phase \in {"checking_pause", "checking_resume"}
    BY <1>3, <2>1, GivesUp DEF Judged, Outcomes
  <2>2. CASE x.phase \notin {"checking_pause", "checking_resume"}
    BY <1>1, <1>3, <2>2, GivesUp DEF Judged, Outcomes
  <2> QED
    BY <2>1, <2>2
<1>4. CASE ~x.cancelled /\ fit /\ Gate(x, s) /\ x.phase = "checking_resume"
  BY <1>1, <1>4, GivesUp DEF Judged, Outcomes
<1>5. CASE ~x.cancelled /\ fit /\ Gate(x, s) /\ x.phase # "checking_resume"
  <2>1. Judged(x, s, fit, profile) = Entered(y, Onward(y, s, profile))
    BY <1>5 DEF Judged
  <2>2. y \in Attempts
    <3>1. (x.primed \/ x.phase = "checking_prime") \in BOOLEAN
      OBVIOUS
    <3>2. (x.idle \/ (x.phase = "checking" /\ s.state = "idle")) \in BOOLEAN
      OBVIOUS
    <3> QED
      BY <3>1, <3>2 DEF Attempts
  <2>3. /\ y.active /\ y.gen = x.gen /\ y.cancelled = x.cancelled /\ y.handover = x.handover
        /\ y.phase = x.phase
    BY DEF Attempts
  <2> HIDE DEF y
  <2>4. /\ Onward(y, s, profile) \in Stages /\ Onward(y, s, profile) # "checking_resume"
    BY <1>5, <2>3, OnwardNames, StageNames
  <2>5. x.phase # "resuming"
    BY StageNames
  <2> QED
    BY <1>5, <2>1, <2>2, <2>3, <2>4, <2>5, Enters
<1> QED
  BY <1>2, <1>3, <1>4, <1>5

LEMMA OntoStep ==
    ASSUME NEW x \in Attempts, x.active, NEW y, Answered(x, y), NEW z, Onto(y, z)
    PROVE  Answered(x, z)
<1>1. CASE z = y
  BY <1>1
<1>2. CASE y.active /\ z = Finished(y, "uncertain")
  <2>1. y \in Attempts /\ Sound(y) /\ PromiseStep(x, y) /\ y.gen = x.gen
    BY DEF Answered
  <2>2. /\ z \in Attempts /\ ~z.active /\ z.phase = "uncertain" /\ z.gen = y.gen
        /\ z.cancelled = y.cancelled
    BY <1>2, <2>1, FinishedType DEF Outcomes
  <2>3. Shown(z) = "uncertain" /\ Shown(y) \in {"preparing", "handed over"}
    BY <1>2, <2>1, <2>2 DEF Shown
  <2>4. Sound(z)
    BY <2>2 DEF Sound, Outcomes
  <2>5. PromiseStep(x, z)
    <3>1. z.cancelled = x.cancelled /\ y.cancelled = x.cancelled
      BY <2>2 DEF Answered
    <3>2. Shown(x) \in {"preparing", "handed over"}
      BY <2>1, <2>3, <3>1, StageNames DEF PromiseStep, Shown
    <3> QED
      BY <2>3, <3>1, <3>2 DEF PromiseStep
  <2> QED
    BY <2>1, <2>2, <2>4, <2>5 DEF Answered
<1> QED
  BY <1>1, <1>2 DEF Onto

LEMMA BegunStep ==
    ASSUME NEW x \in Attempts, ~x.active, Sound(x), NEW g \in Nat, NEW z, Onto(Begun(g), z)
    PROVE  /\ z \in Attempts /\ Sound(z) /\ PromiseStep(x, z)
           /\ z.phase \notin {"complete", "checking_resume"}
<1>1. Begun(g) \in Attempts
  BY BegunType
<1>2. /\ Begun(g).active /\ ~Begun(g).handover /\ ~Begun(g).cancelled
      /\ Begun(g).phase = "checking"
  BY DEF Begun
<1>3. Shown(x) \in Outcomes \cup {"idle"}
  BY DEF Shown, Sound
<1>4. CASE z = Begun(g)
  <2>1. Sound(z) /\ z.phase \notin {"complete", "checking_resume"}
    BY <1>2, <1>4 DEF Sound, Stages, Checks
  <2>2. Shown(z) = "preparing" /\ z.cancelled = FALSE
    BY <1>2, <1>4 DEF Shown, Begun
  <2> QED
    BY <1>1, <1>3, <1>4, <2>1, <2>2 DEF PromiseStep
<1>5. CASE z = Finished(Begun(g), "uncertain")
  <2>1. /\ z \in Attempts /\ ~z.active /\ z.phase = "uncertain" /\ z.cancelled = FALSE
    BY <1>1, <1>5, FinishedType DEF Outcomes, Begun
  <2>2. Sound(z) /\ Shown(z) = "uncertain"
    BY <2>1 DEF Sound, Shown, Outcomes
  <2> QED
    BY <1>3, <2>1, <2>2 DEF PromiseStep
<1> QED
  BY <1>4, <1>5 DEF Onto

\* What every step keeps and shows of the attempt.
LEMMA AttemptKept ==
    ASSUME TypeOK, OneErrand, Sound(exec), [Next]_vars
    PROVE  /\ Sound(exec') /\ PromiseStep(exec, exec')
           /\ exec'.phase = "complete" =>
                 \/ exec.phase = "complete" /\ exec'.gen = exec.gen
                 \/ exec.phase = "checking_resume" /\ exec'.gen = exec.gen
           /\ exec'.phase = "checking_resume" =>
                 \/ exec.phase = "checking_resume" /\ exec'.gen = exec.gen
                 \/ /\ wires.script.stage = "resuming" /\ wires.script.ran = "ran"
                    /\ exec'.gen = wires.script.gen
<1>1. exec \in Attempts /\ ctl.gen \in Nat
  BY DEF TypeOK, Controllers
<1>2. AttemptStep(exec, exec')
  BY AttemptSteps
<1>3. CASE exec' = exec
  BY <1>3 DEF PromiseStep
<1>4. CASE exec.active /\ exec' = Finished(exec, "uncertain")
  <2>1. Answered(exec, exec')
    BY <1>1, <1>4, GivesUp DEF Outcomes
  <2>2. exec'.phase = "uncertain"
    BY <1>1, <1>4, FinishedType DEF Outcomes
  <2> QED
    BY <2>1, <2>2 DEF Answered
<1>5. CASE ~exec.active /\ Onto(Begun(ctl.gen), exec')
  BY <1>1, <1>5, BegunStep
<1>6. CASE exec' = CancelAsked(exec)
  <2>1. CASE exec.active /\ ~exec.handover
    <3>1. /\ exec'.active /\ ~exec'.handover /\ exec'.cancelled = TRUE
          /\ exec'.phase = exec.phase /\ exec'.gen = exec.gen
      BY <1>1, <1>6, <2>1 DEF CancelAsked, Attempts
    <3>2. Sound(exec')
      BY <2>1, <3>1 DEF Sound
    <3>3. Shown(exec) = "preparing" /\ Shown(exec') = "preparing"
      BY <2>1, <3>1 DEF Shown
    <3>4. PromiseStep(exec, exec')
      BY <3>1, <3>3 DEF PromiseStep
    <3> QED
      BY <3>1, <3>2, <3>4
  <2>2. CASE ~(exec.active /\ ~exec.handover)
    BY <1>3, <1>6, <2>2 DEF CancelAsked
  <2> QED
    BY <2>1, <2>2
<1>7. ASSUME exec.active, exec.phase \in Checks, NEW s \in Printers, NEW fit \in BOOLEAN,
             Onto(Judged(exec, s, fit, ctl.profile), exec')
      PROVE  Answered(exec, exec')
  BY <1>1, <1>7, JudgedStep, OntoStep
<1>8. ASSUME exec.active, exec.phase \in Scripts,
             Onto(Entered(exec, AfterScript[exec.phase]), exec')
      PROVE  Answered(exec, exec')
  <2>1. /\ AfterScript[exec.phase] \in Stages
        /\ exec.phase = "resuming" => AfterScript[exec.phase] = "checking_resume"
        /\ AfterScript[exec.phase] = "checking_resume" => exec.phase = "resuming"
    BY <1>8, AfterScriptType DEF AfterScript, Scripts
  <2>2. exec.phase # "checking_resume"
    BY <1>8, StageNames
  <2>3. Answered(exec, Entered(exec, AfterScript[exec.phase]))
    BY <1>1, <1>8, <2>1, <2>2, Enters
  <2> QED
    BY <1>1, <1>8, <2>3, OntoStep
<1>9. CASE exec.active /\ exec.phase = "rechecking_source" /\ exec' = Finished(exec, "refused")
  <2>1. ~exec.handover /\ exec.phase # "checking_resume"
    BY <1>9 DEF Sound
  <2>2. Answered(exec, exec')
    BY <1>1, <1>9, <2>1, GivesUp DEF Outcomes
  <2> QED
    BY <1>9, <2>2 DEF Answered
<1>10. CASE /\ exec.active /\ exec.phase = "rechecking_source"
            /\ Onto(Entered(exec, "checking_after_pause"), exec')
  <2>1. Answered(exec, Entered(exec, "checking_after_pause"))
    BY <1>1, <1>10, Enters DEF Stages, Checks
  <2>2. Answered(exec, exec')
    BY <1>1, <1>10, <2>1, OntoStep
  <2> QED
    BY <1>10, <2>2 DEF Answered
<1>11. ASSUME exec.active, exec.phase \in Checks, Answered(exec, exec')
       PROVE  /\ Sound(exec') /\ PromiseStep(exec, exec') /\ exec'.gen = exec.gen
              /\ exec'.phase = "complete" => exec.phase = "checking_resume"
              /\ exec'.phase # "checking_resume"
  BY <1>11, StageNames DEF Answered
<1>12. ASSUME exec.active, exec.phase \in Scripts, Answered(exec, exec')
       PROVE  /\ Sound(exec') /\ PromiseStep(exec, exec') /\ exec'.gen = exec.gen
              /\ exec'.phase # "complete"
              /\ exec'.phase = "checking_resume" => exec.phase = "resuming"
  BY <1>12, StageNames DEF Answered
<1> QED
  BY <1>2, <1>3, <1>4, <1>5, <1>6, <1>7, <1>8, <1>9, <1>10, <1>11, <1>12 DEF AttemptStep

-----------------------------------------------------------------------------
(* Errands, step by step.                                                  *)

LEMMA CarryErrands ==
    ASSUME NEW x \in Attempts, NEW W \in Lanes, NEW J \in Seq(Tasks),
           NEW C \in Controllers, Carry(x, W, J, C),
           Errands(J, C.gen, x.active, x.gen, W.identity, W.profile)
    PROVE  OneErrand'
<1> DEFINE y == IF x.active /\ Busy(x, W) THEN Finished(x, "uncertain") ELSE x
           rechecks == y.active /\ y.phase = "rechecking_source"
           t == [job |-> "replan", gen |-> y.gen]
<1>1. /\ C.gen \in Nat /\ W.identity \in Nat /\ W.profile \in Nat
      /\ x.active \in BOOLEAN /\ x.gen \in Nat
  BY DEF Controllers, Lanes, Attempts
<1>2. /\ y \in Attempts /\ y.gen = x.gen /\ y.active \in {x.active, FALSE}
  <2>1. /\ Finished(x, "uncertain") \in Attempts /\ Finished(x, "uncertain").gen = x.gen
        /\ ~Finished(x, "uncertain").active
    BY FinishedType DEF Outcomes
  <2>2. Finished(x, "uncertain").active = FALSE
    BY <2>1 DEF Attempts
  <2> QED
    BY <2>1, <2>2
<1>3. exec' = y
  BY DEF Carry
<1>4. wires'.identity = W.identity /\ wires'.profile = W.profile
  BY DEF Carry, Lanes
<1>5. ctl'.gen = C.gen
  BY DEF Carry, Controllers
<1>6. worker' = IF rechecks THEN Append(J, t) ELSE J
  BY DEF Carry
<1> HIDE DEF y
<1>7. Errands(J, C.gen, y.active, y.gen, W.identity, W.profile)
  <2>1. Errands(J, C.gen, FALSE, y.gen, W.identity, W.profile)
    BY <1>1, <1>2, ErrandsRetired
  <2> QED
    BY <1>2, <2>1
<1>8. Errands(worker', C.gen, y.active, y.gen, W.identity, W.profile)
  <2>1. CASE rechecks
    <3>1. y.gen = C.gen /\ C.gen > 0
      BY <1>7, <2>1 DEF Errands
    <3>2. t \in Tasks /\ t.gen = C.gen /\ t.job = "replan"
      BY <1>1, <3>1 DEF Tasks
    <3>3. y.active \in BOOLEAN /\ y.gen \in Nat
      BY <1>2 DEF Attempts
    <3> HIDE DEF t
    <3> QED
      BY <1>1, <1>6, <1>7, <2>1, <3>1, <3>2, <3>3, ReplanSent
  <2> QED
    BY <1>6, <1>7, <2>1
<1> QED
  BY <1>3, <1>4, <1>5, <1>8 DEF OneErrand

LEMMA InvalidateErrands ==
    ASSUME TypeOK, OneErrand, Invalidate, worker' = worker
    PROVE  /\ exec'.active = FALSE /\ ctl'.gen = ctl.gen + 1
           /\ Errands(worker', ctl'.gen, FALSE, exec'.gen, wires.identity, wires.profile)
<1>1. exec \in Attempts /\ ctl \in Controllers /\ wires \in Lanes /\ worker \in Seq(Tasks)
  BY DEF TypeOK
<1>2. /\ ctl.gen \in Nat /\ wires.identity \in Nat /\ wires.profile \in Nat
      /\ exec.active \in BOOLEAN /\ exec.gen \in Nat
  BY <1>1 DEF Controllers, Lanes, Attempts
<1>3. exec'.active = FALSE /\ exec'.gen = exec.gen
  BY <1>1 DEF Invalidate, Invalidated, Finished, Attempts
<1>4. ctl'.gen = ctl.gen + 1
  BY <1>1 DEF Invalidate, Invalidated, Controllers
<1>5. Errands(worker, ctl.gen + 1, FALSE, exec.gen, wires.identity, wires.profile)
  BY <1>1, <1>2, ErrandsRetired DEF OneErrand
<1> QED
  BY <1>3, <1>4, <1>5

\* The phases in which no attempt runs.
LEMMA QuietPhases ==
    ASSUME TypeOK, PanelShowsTheAttempt, Sound(exec),
           ctl.phase \in Settled \cup Planning
    PROVE  ~exec.active
<1>1. ctl.phase \notin Stages \cup {"cancelling"}
  BY DEF Settled, Planning, Stages, Checks, Scripts
<1> QED
  BY <1>1 DEF PanelShowsTheAttempt, Sound

LEMMA OneErrandKept ==
    ASSUME TypeOK, OneErrand, PanelShowsTheAttempt, Sound(exec), [Next]_vars
    PROVE  OneErrand'
<1>1. /\ exec \in Attempts /\ ctl \in Controllers /\ wires \in Lanes
      /\ worker \in Seq(Tasks)
  BY DEF TypeOK
<1>2. /\ ctl.gen \in Nat /\ wires.identity \in Nat /\ wires.profile \in Nat
      /\ exec.active \in BOOLEAN /\ exec.gen \in Nat
      /\ wires.status \in Queries /\ wires.script \in Posts
  BY <1>1 DEF Controllers, Lanes, Attempts
<1>3. Errands(worker, ctl.gen, exec.active, exec.gen, wires.identity, wires.profile)
  BY DEF OneErrand
<1>4. ASSUME worker' = worker, ctl'.gen = ctl.gen, exec' = exec,
             wires'.identity = wires.identity, wires'.profile = wires.profile
      PROVE  OneErrand'
  BY <1>3, <1>4 DEF OneErrand
<1>5. ASSUME ~exec.active, ctl'.gen = ctl.gen + 1, exec' = exec, wires' = wires,
             NEW job \in {"plan", "verify"},
             worker' = Append(worker, [job |-> job, gen |-> ctl.gen + 1])
      PROVE  OneErrand'
  <2> DEFINE t == [job |-> job, gen |-> ctl.gen + 1]
  <2>1. t \in Tasks /\ t.gen = ctl.gen + 1
    BY <1>2 DEF Tasks
  <2> HIDE DEF t
  <2>2. Errands(Append(worker, t), ctl.gen + 1, FALSE, exec.gen, wires.identity, wires.profile)
    BY <1>1, <1>2, <1>3, <2>1, ErrandSent
  <2>3. worker' = Append(worker, t)
    BY <1>5 DEF t
  <2> QED
    BY <1>2, <1>5, <2>2, <2>3 DEF OneErrand
<1>6. CASE Plan
  <2>1. ~exec.active
    BY <1>6 DEF Plan, MayPlan
  <2>2. CASE Phase("refused") /\ UNCHANGED worker
    BY <1>1, <1>4, <1>6, <2>2 DEF Plan, Phase, Controllers
  <2>3. CASE /\ ctl' = [ctl EXCEPT !.phase = "planning", !.gen = @ + 1, !.source = FALSE,
                                   !.unloaded = seen.state \notin Running]
             /\ worker' = Append(worker, [job |-> "plan", gen |-> ctl.gen + 1])
    <3>1. ctl'.gen = ctl.gen + 1 /\ exec' = exec /\ wires' = wires
      BY <1>1, <1>6, <2>3 DEF Plan, Controllers
    <3> QED
      BY <1>5, <2>1, <2>3, <3>1
  <2> QED
    BY <1>6, <2>2, <2>3 DEF Plan
<1>7. CASE Start
  <2>1. ~exec.active
    BY <1>7, QuietPhases DEF Start, Planning
  <2>2. CASE UNCHANGED worker /\ \E kept \in BOOLEAN :
                ctl' = [ctl EXCEPT !.phase = "refused", !.source = kept]
    BY <1>1, <1>4, <1>7, <2>2 DEF Start, Controllers
  <2>3. CASE /\ ctl' = [ctl EXCEPT !.phase = "verifying_source", !.gen = @ + 1]
             /\ worker' = Append(worker, [job |-> "verify", gen |-> ctl.gen + 1])
    <3>1. ctl'.gen = ctl.gen + 1 /\ exec' = exec /\ wires' = wires
      BY <1>1, <1>7, <2>3 DEF Start, Controllers
    <3> QED
      BY <1>5, <2>1, <2>3, <3>1
  <2> QED
    BY <1>7, <2>2, <2>3 DEF Start
<1>8. CASE Cancel
  <2>1. CASE /\ ctl.phase \in {"planning", "checking_printer"}
             /\ ctl' = [ctl EXCEPT !.phase = "cancelled", !.gen = @ + 1]
             /\ UNCHANGED exec
    <3>1. ~exec.active
      BY <2>1, QuietPhases DEF Planning
    <3>2. ctl'.gen = ctl.gen + 1
      BY <1>1, <2>1 DEF Controllers
    <3>3. Errands(worker, ctl.gen + 1, FALSE, exec.gen, wires.identity, wires.profile)
      BY <1>1, <1>2, <1>3, ErrandsRetired
    <3>4. worker' = worker /\ wires' = wires
      BY <1>8 DEF Cancel
    <3> QED
      BY <1>2, <2>1, <3>1, <3>2, <3>3, <3>4 DEF OneErrand
  <2>2. CASE exec.active /\ exec' = CancelAsked(exec) /\ Phase("cancelling")
    <3>1. exec'.active = exec.active /\ exec'.gen = exec.gen
      BY <1>1, <2>2 DEF CancelAsked, Attempts
    <3>2. ctl'.gen = ctl.gen
      BY <1>1, <2>2 DEF Phase, Controllers
    <3>3. worker' = worker /\ wires' = wires
      BY <1>8 DEF Cancel
    <3> QED
      BY <1>3, <3>1, <3>2, <3>3 DEF OneErrand
  <2> QED
    BY <1>8, <2>1, <2>2 DEF Cancel
<1>9. ASSUME NEW i \in Delivered, PlanDone(i) PROVE OneErrand'
  <2>1. Errands(Without(i), ctl.gen, exec.active, exec.gen, wires.identity, wires.profile)
    BY ErrandDelivered
  <2>2. worker' = Without(i) /\ exec' = exec
    BY <1>9 DEF PlanDone
  <2>3. CASE ctl'.gen = ctl.gen /\ wires' = wires
    BY <2>1, <2>2, <2>3 DEF OneErrand
  <2>4. CASE /\ worker[i].gen = ctl.gen
             /\ ctl' = [ctl EXCEPT !.source = TRUE, !.phase = "checking_printer"]
             /\ wires' = [wires EXCEPT !.profile = ctl.gen]
    <3>1. Errand(worker, ctl.gen, i)
      BY <1>9, <2>4 DEF Errand, PlanDone
    <3>2. /\ ~exec.active
          /\ Errands(Without(i), ctl.gen, FALSE, exec.gen, wires.identity, ctl.gen)
      BY <3>1, ErrandDelivered
    <3>3. ctl'.gen = ctl.gen /\ wires'.identity = wires.identity /\ wires'.profile = ctl.gen
      BY <1>1, <2>4 DEF Controllers, Lanes
    <3> QED
      BY <1>2, <2>2, <3>2, <3>3 DEF OneErrand
  <2>5. ASSUME NEW source, ctl' = [ctl EXCEPT !.source = source, !.phase = "refused"]
        PROVE  ctl'.gen = ctl.gen
    BY <1>1, <2>5 DEF Controllers
  <2> QED
    BY <1>9, <2>3, <2>4, <2>5 DEF PlanDone
<1>10. ASSUME NEW i \in Delivered, VerificationDone(i) PROVE OneErrand'
  <2>1. Errands(Without(i), ctl.gen, exec.active, exec.gen, wires.identity, wires.profile)
    BY ErrandDelivered
  <2>2. worker' = Without(i) /\ exec' = exec /\ ctl'.gen = ctl.gen
    BY <1>1, <1>10 DEF VerificationDone, Phase, Controllers
  <2>3. CASE wires' = wires
    BY <2>1, <2>2, <2>3 DEF OneErrand
  <2>4. CASE /\ worker[i].gen = ctl.gen
             /\ wires' = [wires EXCEPT !.identity = ctl.gen]
    <3>1. Errand(worker, ctl.gen, i)
      BY <1>10, <2>4 DEF Errand, VerificationDone
    <3>2. /\ ~exec.active
          /\ Errands(Without(i), ctl.gen, FALSE, exec.gen, ctl.gen, wires.profile)
      BY <3>1, ErrandDelivered
    <3>3. wires'.identity = ctl.gen /\ wires'.profile = wires.profile
      BY <1>1, <2>4 DEF Lanes
    <3> QED
      BY <1>2, <2>2, <3>2, <3>3 DEF OneErrand
  <2> QED
    BY <1>10, <2>3, <2>4 DEF VerificationDone
<1>11. CASE ProfileReply
  <2>1. Errands(worker, ctl.gen, exec.active, exec.gen, wires.identity, 0)
    BY <1>1, <1>2, <1>3, ErrandsRetired
  <2>2. /\ worker' = worker /\ exec' = exec /\ ctl'.gen = ctl.gen
        /\ wires'.identity = wires.identity /\ wires'.profile = 0
    BY <1>1, <1>11 DEF ProfileReply, Phase, Controllers, Lanes
  <2> QED
    BY <2>1, <2>2 DEF OneErrand
<1>12. CASE IdentityReply
  <2> DEFINE W == [wires EXCEPT !.identity = 0]
  <2>1. W \in Lanes /\ W.identity = 0 /\ W.profile = wires.profile
    BY <1>1 DEF Lanes
  <2>2. Errands(worker, ctl.gen, exec.active, exec.gen, 0, wires.profile)
    BY <1>1, <1>2, <1>3, ErrandsRetired
  <2>3. CASE wires' = W /\ UNCHANGED <<exec, worker>> /\ ctl'.gen = ctl.gen
    BY <2>1, <2>2, <2>3 DEF OneErrand
  <2>4. CASE wires.identity = ctl.gen /\ Carry(Begun(ctl.gen), W, worker, ctl)
    <3>1. ctl.gen > 0
      BY <1>2, <1>12, <2>4 DEF IdentityReply
    <3>2. Begun(ctl.gen) \in Attempts /\ Begun(ctl.gen).active = TRUE
          /\ Begun(ctl.gen).gen = ctl.gen
      BY <1>2, BegunType DEF Begun
    <3>3. Errands(worker, ctl.gen, TRUE, ctl.gen, 0, wires.profile)
      BY <1>2, <1>3, <2>4, <3>1 DEF Errands
    <3> HIDE DEF W
    <3> QED
      BY <1>1, <2>1, <2>4, <3>2, <3>3, CarryErrands
  <2>5. ASSUME Phase("refused") PROVE ctl'.gen = ctl.gen
    BY <1>1, <2>5 DEF Phase, Controllers
  <2> QED
    BY <1>12, <2>3, <2>4, <2>5 DEF IdentityReply
<1>13. CASE Sample
  BY <1>1, <1>4, <1>13 DEF Sample, Lanes
\* x is what an answer makes of the running attempt.
<1>14. ASSUME NEW x \in Attempts, x.gen = exec.gen, exec.active,
              NEW W \in Lanes, W.identity = wires.identity, W.profile = wires.profile,
              NEW J \in Seq(Tasks), NEW C \in Controllers, C.gen = ctl.gen,
              Errands(J, ctl.gen, exec.active, exec.gen, wires.identity, wires.profile),
              Carry(x, W, J, C)
       PROVE  OneErrand'
  <2>1. Errands(J, ctl.gen, FALSE, x.gen, wires.identity, wires.profile)
    <3>1. x.gen \in Nat
      BY <1>2, <1>14
    <3>2. Errands(J, ctl.gen, exec.active, exec.gen, wires.identity, wires.profile)
      BY <1>14
    <3> QED
      BY <1>2, <3>1, <3>2, ErrandsRetired
  <2>2. x.active = TRUE \/ x.active = FALSE
    BY DEF Attempts
  <2>3. exec.active = TRUE
    BY <1>2, <1>14
  <2>4. Errands(J, ctl.gen, x.active, x.gen, wires.identity, wires.profile)
    BY <1>14, <2>1, <2>2, <2>3
  <2> QED
    BY <1>14, <2>4, CarryErrands
<1>15. ASSUME exec.active, NEW o \in Outcomes
       PROVE  Finished(exec, o) \in Attempts /\ Finished(exec, o).gen = exec.gen
  BY <1>1, FinishedType
<1>16. ASSUME NEW stage \in Stages
       PROVE  Entered(exec, stage) \in Attempts /\ Entered(exec, stage).gen = exec.gen
  <2>1. Entered(exec, stage) \in Attempts
    BY <1>1, EnteredType
  <2> QED
    BY <1>1, <2>1 DEF Entered, Finished, Attempts
<1>17. CASE StatusReply
  <2> DEFINE W == [wires EXCEPT !.status = NoQuery]
  <2>1. W \in Lanes /\ W.identity = wires.identity /\ W.profile = wires.profile
    <3>1. NoQuery \in Queries
      BY DEF NoQuery, Queries, Checks
    <3> QED
      BY <1>1, <3>1 DEF Lanes
  <2> HIDE DEF W
  <2>2. CASE wires' = W /\ UNCHANGED <<ctl, exec, worker>>
    BY <1>4, <2>1, <2>2
  <2>3. CASE /\ Mine(wires.status.gen, wires.status.stage)
             /\ Carry(Finished(exec, "uncertain"), W, worker, ctl)
    BY <1>1, <1>3, <1>14, <1>15, <2>1, <2>3 DEF Mine, Outcomes
  <2>4. ASSUME Mine(wires.status.gen, wires.status.stage),
               NEW s \in wires.status.snap, NEW fit \in BOOLEAN,
               Carry(Judged(exec, s, fit, ctl.profile), W, worker, ctl)
        PROVE  OneErrand'
    <3>1. s \in Printers /\ exec.active /\ exec.phase \in Checks
      BY <1>2, <2>4 DEF Mine, Queries
    <3>2. Answered(exec, Judged(exec, s, fit, ctl.profile))
      BY <1>1, <3>1, JudgedStep
    <3>3. /\ Judged(exec, s, fit, ctl.profile) \in Attempts
          /\ Judged(exec, s, fit, ctl.profile).gen = exec.gen
      BY <3>2 DEF Answered
    <3> QED
      BY <1>1, <1>3, <1>14, <2>1, <2>4, <3>1, <3>3
  <2> QED
    BY <1>17, <2>2, <2>3, <2>4 DEF StatusReply, W
<1>18. CASE ScriptReply
  <2> DEFINE W == [wires EXCEPT !.script = NoPost]
  <2>1. W \in Lanes /\ W.identity = wires.identity /\ W.profile = wires.profile
    <3>1. NoPost \in Posts
      BY DEF NoPost, Posts, Scripts
    <3> QED
      BY <1>1, <3>1 DEF Lanes
  <2> HIDE DEF W
  <2>2. CASE wires' = W /\ UNCHANGED <<ctl, exec, worker>>
    BY <1>4, <2>1, <2>2
  <2>3. CASE /\ Mine(wires.script.gen, wires.script.stage)
             /\ Carry(Finished(exec, "uncertain"), W, worker, ctl)
    BY <1>1, <1>3, <1>14, <1>15, <2>1, <2>3 DEF Mine, Outcomes
  <2>4. CASE /\ Mine(wires.script.gen, wires.script.stage)
             /\ Carry(Entered(exec, AfterScript[exec.phase]), W, worker, ctl)
    <3>1. exec.active /\ AfterScript[exec.phase] \in Stages
      BY <1>2, <2>4, AfterScriptType DEF Mine, Posts
    <3> QED
      BY <1>1, <1>3, <1>14, <1>16, <2>1, <2>4, <3>1
  <2> QED
    BY <1>18, <2>2, <2>3, <2>4 DEF ScriptReply, W
<1>19. ASSUME NEW i \in Delivered, ReplanDone(i) PROVE OneErrand'
  <2> DEFINE C == [ctl EXCEPT !.replan = 0]
  <2>1. C \in Controllers /\ C.gen = ctl.gen
    BY <1>1 DEF Controllers
  <2> HIDE DEF C
  <2>2. Errands(Without(i), ctl.gen, exec.active, exec.gen, wires.identity, wires.profile)
    BY ErrandDelivered
  <2>3. Without(i) \in Seq(Tasks)
    BY WithoutType
  <2>4. CASE ctl' = C /\ worker' = Without(i) /\ UNCHANGED <<exec, wires>>
    BY <2>1, <2>2, <2>4 DEF OneErrand
  <2>5. CASE /\ Mine(ctl.replan, "rechecking_source")
             /\ Carry(Finished(exec, "refused"), wires, Without(i), C)
    BY <1>1, <1>14, <1>15, <2>1, <2>2, <2>3, <2>5 DEF Mine, Outcomes
  <2>6. CASE /\ Mine(ctl.replan, "rechecking_source")
             /\ Carry(Entered(exec, "checking_after_pause"), wires, Without(i), C)
    <3>1. "checking_after_pause" \in Stages
      BY DEF Stages, Checks
    <3> QED
      BY <1>1, <1>14, <1>16, <2>1, <2>2, <2>3, <2>6, <3>1 DEF Mine
  <2> QED
    BY <1>19, <2>4, <2>5, <2>6 DEF ReplanDone, C
<1>20. ASSUME Invalidate, worker' = worker, wires' = wires PROVE OneErrand'
  BY <1>20, InvalidateErrands DEF OneErrand
<1>21. CASE Frame
  <2>1. CASE Invalidate
    BY <1>20, <1>21, <2>1 DEF Frame
  <2>2. CASE UNCHANGED <<exec, ctl>>
    BY <1>4, <1>21, <2>2 DEF Frame
  <2> QED
    BY <1>21, <2>1, <2>2 DEF Frame
<1>22. CASE SessionLost
  <2>1. /\ exec'.active = FALSE /\ ctl'.gen = ctl.gen + 1
        /\ Errands(worker', ctl'.gen, FALSE, exec'.gen, wires.identity, wires.profile)
    BY <1>22, InvalidateErrands DEF SessionLost
  <2>2. CASE wires' = wires
    BY <2>1, <2>2 DEF OneErrand
  <2>3. CASE wires' = FreeLanes
    <3>1. wires'.identity = 0 /\ wires'.profile = 0
      BY <2>3 DEF FreeLanes
    <3>2. Errands(worker', ctl'.gen, FALSE, exec'.gen, 0, 0)
      <4>1. worker' \in Seq(Tasks) /\ ctl'.gen \in Nat /\ FALSE \in BOOLEAN /\ 0 \in Nat
        BY <1>1, <1>2, <1>22, <2>1 DEF SessionLost
      <4>2. exec'.gen \in Nat
        BY <1>22, InvalidateType DEF SessionLost, Attempts
      <4>3. Errands(worker', ctl'.gen, FALSE, exec'.gen, 0, wires.profile)
        BY <1>2, <2>1, <4>1, <4>2, ErrandsRetired
      <4> QED
        BY <1>2, <4>1, <4>2, <4>3, ErrandsRetired
    <3> QED
      BY <2>1, <3>1, <3>2 DEF OneErrand
  <2> QED
    BY <1>22, <2>2, <2>3 DEF SessionLost
<1>23. CASE SelectFile
  BY <1>20, <1>23 DEF SelectFile
<1>24. CASE RunScript \/ FailScript
  <2>1. /\ worker' = worker /\ exec' = exec /\ ctl' = ctl
        /\ \E outcome : Answers(Head(klippy), outcome)
    BY <1>24 DEF RunScript, FailScript
  <2>2. wires'.identity = wires.identity /\ wires'.profile = wires.profile
    BY <1>1, <2>1 DEF Answers, Lanes
  <2> QED
    BY <1>4, <2>1, <2>2
<1>25. CASE PrintOn \/ Meddle \/ UNCHANGED vars
  BY <1>4, <1>25 DEF PrintOn, Meddle, vars
<1> QED
  BY <1>6, <1>7, <1>8, <1>9, <1>10, <1>11, <1>12, <1>13, <1>17, <1>18, <1>19, <1>21, <1>22,
     <1>23, <1>24, <1>25
     DEF Next, Owner, Answer, Outside, Machine, ExecutorDone

-----------------------------------------------------------------------------
(* What the owner is shown.                                                *)

LEMMA PanelKept ==
    ASSUME TypeOK, OneErrand, PanelShowsTheAttempt, Sound(exec), Sound(exec'), [Next]_vars
    PROVE  PanelShowsTheAttempt'
<1>1. /\ exec \in Attempts /\ ctl \in Controllers /\ worker \in Seq(Tasks)
      /\ ctl.gen \in Nat
  BY DEF TypeOK, Controllers
<1>2. (Settled \cup Planning) \cap (Stages \cup {"cancelling"}) = {}
  BY DEF Settled, Planning, Stages, Checks, Scripts
<1>3. ASSUME exec' = exec, ctl'.phase = ctl.phase PROVE PanelShowsTheAttempt'
  BY <1>3 DEF PanelShowsTheAttempt
<1>4. ASSUME ~exec.active, exec' = exec, ctl'.phase \in Settled \cup Planning
      PROVE  PanelShowsTheAttempt'
  BY <1>2, <1>4 DEF PanelShowsTheAttempt
<1>5. ASSUME NEW x, NEW W, NEW J, NEW C \in Controllers, Carry(x, W, J, C)
      PROVE  PanelShowsTheAttempt'
  <2>1. ctl'.phase = exec'.phase
    BY <1>5 DEF Carry, Controllers
  <2> QED
    BY <2>1, StageNames DEF PanelShowsTheAttempt, Sound
<1>6. ASSUME Invalidate PROVE PanelShowsTheAttempt'
  <2>1. ~exec'.active
    BY <1>1, <1>6, FinishedType DEF Invalidate, Invalidated, Outcomes
  <2>2. ctl'.phase \in Settled
    BY <1>1, <1>6 DEF Invalidate, Invalidated, Controllers, Settled
  <2> QED
    BY <1>2, <2>1, <2>2 DEF PanelShowsTheAttempt
<1>7. CASE Plan
  <2>1. ctl'.phase \in {"refused", "planning"}
    BY <1>1, <1>7 DEF Plan, Phase, Controllers
  <2> QED
    BY <1>4, <1>7, <2>1 DEF Plan, MayPlan, Settled, Planning
<1>8. CASE Start
  <2>1. ~exec.active
    BY <1>8, QuietPhases DEF Start, Planning
  <2>2. ctl'.phase \in {"refused", "verifying_source"}
    BY <1>1, <1>8 DEF Start, Controllers
  <2> QED
    BY <1>4, <1>8, <2>1, <2>2 DEF Start, Settled, Planning
<1>9. CASE Cancel
  <2>1. CASE /\ ctl.phase \in {"planning", "checking_printer"}
             /\ ctl' = [ctl EXCEPT !.phase = "cancelled", !.gen = @ + 1]
             /\ UNCHANGED exec
    <3>1. ~exec.active
      BY <2>1, QuietPhases DEF Planning
    <3>2. ctl'.phase = "cancelled"
      BY <1>1, <2>1 DEF Controllers
    <3> QED
      BY <1>4, <2>1, <3>1, <3>2 DEF Settled
  <2>2. CASE exec.active /\ exec' = CancelAsked(exec) /\ Phase("cancelling")
    <3>1. exec'.active
      BY <1>1, <2>2 DEF CancelAsked, Attempts
    <3>2. ctl'.phase = "cancelling"
      BY <1>1, <2>2 DEF Phase, Controllers
    <3> QED
      BY <3>1, <3>2 DEF PanelShowsTheAttempt
  <2> QED
    BY <1>9, <2>1, <2>2 DEF Cancel
\* A scan or a query answered for the current generation.
<1>10. ASSUME NEW i \in Delivered, worker[i].gen = ctl.gen, worker[i].job # "replan"
       PROVE  ~exec.active
  BY <1>10, ErrandDelivered DEF Errand
<1>11. ASSUME NEW i \in Delivered, PlanDone(i) PROVE PanelShowsTheAttempt'
  <2>1. CASE UNCHANGED ctl
    BY <1>3, <1>11, <2>1 DEF PlanDone
  <2>2. CASE worker[i].gen = ctl.gen /\ ctl'.phase \in {"refused", "checking_printer"}
    BY <1>4, <1>10, <1>11, <2>2 DEF PlanDone, Settled, Planning
  <2>3. ASSUME NEW source, NEW phase, ctl' = [ctl EXCEPT !.source = source, !.phase = phase]
        PROVE  ctl'.phase = phase
    BY <1>1, <2>3 DEF Controllers
  <2> QED
    BY <1>11, <2>1, <2>2, <2>3 DEF PlanDone
<1>12. ASSUME NEW phase, Phase(phase) PROVE ctl'.phase = phase
  BY <1>1, <1>12 DEF Phase, Controllers
<1>13. ASSUME NEW i \in Delivered, VerificationDone(i) PROVE PanelShowsTheAttempt'
  <2>1. CASE UNCHANGED ctl
    BY <1>3, <1>13, <2>1 DEF VerificationDone
  <2>2. CASE worker[i].gen = ctl.gen /\ ctl'.phase \in {"refused", "checking_remote_file"}
    BY <1>4, <1>10, <1>13, <2>2 DEF VerificationDone, Settled, Planning
  <2> QED
    BY <1>12, <1>13, <2>1, <2>2 DEF VerificationDone
<1>14. CASE ProfileReply
  <2>1. CASE UNCHANGED ctl
    BY <1>3, <1>14, <2>1 DEF ProfileReply
  <2>2. CASE wires.profile = ctl.gen /\ ctl'.phase \in {"refused", "ready"}
    <3>1. ctl.gen > 0
      BY <1>1, <1>14, <2>2 DEF ProfileReply
    <3>2. ~exec.active
      BY <2>2, <3>1 DEF OneErrand, Errands
    <3> QED
      BY <1>4, <1>14, <2>2, <3>2 DEF ProfileReply, Settled, Planning
  <2> QED
    BY <1>12, <1>14, <2>1, <2>2 DEF ProfileReply
<1>15. CASE IdentityReply
  <2>1. CASE UNCHANGED <<ctl, exec>>
    BY <1>3, <2>1
  <2>2. CASE wires.identity = ctl.gen /\ Phase("refused") /\ UNCHANGED exec
    <3>1. ctl.gen > 0
      BY <1>1, <1>15, <2>2 DEF IdentityReply
    <3>2. ~exec.active
      BY <2>2, <3>1 DEF OneErrand, Errands
    <3> QED
      BY <1>4, <1>12, <2>2, <3>2 DEF Settled
  <2>3. CASE Carry(Begun(ctl.gen), [wires EXCEPT !.identity = 0], worker, ctl)
    BY <1>1, <1>5, <2>3
  <2> QED
    BY <1>15, <2>1, <2>2, <2>3 DEF IdentityReply
<1>16. CASE StatusReply
  BY <1>1, <1>3, <1>5, <1>16 DEF StatusReply
<1>17. CASE ScriptReply
  BY <1>1, <1>3, <1>5, <1>17 DEF ScriptReply
<1>18. ASSUME NEW i \in Delivered, ReplanDone(i) PROVE PanelShowsTheAttempt'
  <2> DEFINE C == [ctl EXCEPT !.replan = 0]
  <2>1. C \in Controllers /\ C.phase = ctl.phase
    BY <1>1 DEF Controllers
  <2> HIDE DEF C
  <2>2. CASE ctl' = C /\ UNCHANGED exec
    BY <1>3, <2>1, <2>2
  <2>3. ASSUME NEW x, Carry(x, wires, Without(i), C) PROVE PanelShowsTheAttempt'
    BY <1>5, <2>1, <2>3
  <2> QED
    BY <1>18, <2>2, <2>3 DEF ReplanDone, C
<1>19. CASE Frame \/ SessionLost \/ SelectFile
  BY <1>3, <1>6, <1>19 DEF Frame, SessionLost, SelectFile
<1>20. CASE Sample \/ RunScript \/ FailScript \/ PrintOn \/ Meddle \/ UNCHANGED vars
  BY <1>3, <1>20 DEF Sample, RunScript, FailScript, PrintOn, Meddle, vars
<1> QED
  BY <1>7, <1>8, <1>9, <1>11, <1>13, <1>14, <1>15, <1>16, <1>17, <1>18, <1>19, <1>20
     DEF Next, Owner, Answer, Outside, Machine, ExecutorDone

-----------------------------------------------------------------------------
(* What an attempt knows of the script that starts the print.              *)

\* The M24 a wire reports as run, and the one the last query asks about, have
\* been run by the printer.
RanIsKnown ==
    /\ wires.script.stage = "resuming" /\ wires.script.ran = "ran"
          => wires.script.gen \in resumed
    /\ exec.phase \in {"checking_resume", "complete"} => exec.gen \in resumed

LEMMA RanIsKnownKept ==
    ASSUME TypeOK, OneErrand, Sound(exec), RanIsKnown, [Next]_vars
    PROVE  RanIsKnown'
<1>1. wires \in Lanes /\ wires.script \in Posts /\ resumed \subseteq Nat
  BY DEF TypeOK, Lanes
<1>2. resumed \subseteq resumed'
  BY DEF Next, Owner, Answer, Outside, Machine, Plan, Start, Cancel, ExecutorDone, PlanDone,
         VerificationDone, ReplanDone, ProfileReply, IdentityReply, Sample, StatusReply,
         ScriptReply, Frame, SessionLost, SelectFile, RunScript, FailScript, PrintOn, Meddle,
         Printing, vars
<1>3. exec'.phase \in {"checking_resume", "complete"} => exec'.gen \in resumed'
  BY <1>2, AttemptKept DEF RanIsKnown
<1>4. ASSUME wires'.script = wires.script
      PROVE  /\ wires'.script.stage = "resuming" /\ wires'.script.ran = "ran"
             => wires'.script.gen \in resumed'
  BY <1>2, <1>4 DEF RanIsKnown
<1>5. ASSUME wires'.script.ran # "ran" \/ wires'.script = wires.script
      PROVE  RanIsKnown'
  BY <1>3, <1>4, <1>5 DEF RanIsKnown
<1>6. ASSUME NEW x, NEW W \in Lanes, NEW J, NEW C, Carry(x, W, J, C)
      PROVE  wires'.script.ran = "waiting" \/ wires'.script = W.script
  BY <1>6 DEF Carry, Lanes
<1>7. CASE RunScript
  <2> DEFINE script == Head(klippy)
  <2>1. CASE /\ wires.script.gen = script.gen /\ wires.script.stage = script.stage
             /\ wires.script.ran = "waiting"
    <3>1. wires' = [wires EXCEPT !.script.ran = "ran"]
      BY <1>7, <2>1 DEF RunScript, Answers
    <3>2. /\ wires'.script.gen = script.gen /\ wires'.script.stage = script.stage
      BY <1>1, <2>1, <3>1 DEF Lanes, Posts
    <3>3. script.stage = "resuming" => script.gen \in resumed'
      BY <1>7 DEF RunScript
    <3> QED
      BY <1>3, <3>2, <3>3 DEF RanIsKnown
  <2>2. CASE wires' = wires
    BY <1>5, <2>2
  <2> QED
    BY <1>7, <2>1, <2>2 DEF RunScript, Answers
<1>8. CASE FailScript
  BY <1>1, <1>5, <1>8 DEF FailScript, Answers, Lanes, Posts
<1>9. CASE IdentityReply
  <2>1. [wires EXCEPT !.identity = 0] \in Lanes /\ [wires EXCEPT !.identity = 0].script = wires.script
    BY <1>1 DEF Lanes
  <2> QED
    BY <1>5, <1>6, <1>9, <2>1 DEF IdentityReply
<1>10. CASE StatusReply
  <2>1. [wires EXCEPT !.status = NoQuery] \in Lanes
    BY <1>1 DEF Lanes, NoQuery, Queries, Checks
  <2>2. [wires EXCEPT !.status = NoQuery].script = wires.script
    BY <1>1 DEF Lanes
  <2> QED
    BY <1>5, <1>6, <1>10, <2>1, <2>2 DEF StatusReply
<1>11. CASE ScriptReply
  <2>1. [wires EXCEPT !.script = NoPost] \in Lanes
    BY <1>1 DEF Lanes, NoPost, Posts, Scripts
  <2>2. [wires EXCEPT !.script = NoPost].script.ran = "waiting"
    BY <1>1 DEF Lanes, NoPost
  <2> QED
    BY <1>5, <1>6, <1>11, <2>1, <2>2 DEF ScriptReply
<1>12. ASSUME NEW i \in Delivered, ReplanDone(i) PROVE RanIsKnown'
  BY <1>1, <1>5, <1>6, <1>12 DEF ReplanDone
<1>13. CASE SessionLost
  BY <1>5, <1>13 DEF SessionLost, FreeLanes, NoPost
<1>14. ASSUME NEW i \in Delivered, PlanDone(i) \/ VerificationDone(i) PROVE RanIsKnown'
  BY <1>1, <1>5, <1>14 DEF PlanDone, VerificationDone, Lanes
<1>15. CASE ProfileReply \/ Sample
  BY <1>1, <1>5, <1>15 DEF ProfileReply, Sample, Lanes
<1>16. CASE \/ Plan \/ Start \/ Cancel \/ Frame \/ SelectFile \/ PrintOn \/ Meddle
            \/ UNCHANGED vars
  BY <1>5, <1>16 DEF Plan, Start, Cancel, Frame, SelectFile, PrintOn, Meddle, vars
<1> QED
  BY <1>7, <1>8, <1>9, <1>10, <1>11, <1>12, <1>13, <1>14, <1>15, <1>16
     DEF Next, Owner, Answer, Outside, Machine, ExecutorDone

-----------------------------------------------------------------------------
(* The answer an attempt waits for.                                        *)

NoReplan(J) == \A i \in 1..Len(J) : J[i].job # "replan"

\* Wherever generation g's errand is, no re-plan of an earlier generation is
\* left to run after it; and none at all is left of an attempt that waits for
\* anything else.
Unhindered(J, g, phase, active, stage, identity, profile) ==
    /\ g > 0 /\ g \in {identity, profile} => NoReplan(J)
    /\ phase = "ready" => NoReplan(J)
    /\ \A i \in 1..Len(J) : Errand(J, g, i) =>
          /\ J[i].job = "verify" => NoReplan(J)
          /\ \A k \in 1..Len(J) : k > i => J[k].job # "replan"
    /\ active /\ stage # "rechecking_source" => NoReplan(J)

\* The only re-plan in J is of generation g.
OnlyReplan(J, g) ==
    \E i \in 1..Len(J) : /\ J[i].job = "replan" /\ J[i].gen = g
                         /\ \A k \in 1..Len(J) : k # i => J[k].job # "replan"

\* WaitsForAnAnswer, with no other re-plan in the executor.
Waiting(x, J, C, status, script) ==
    x.active =>
        /\ x.gen = C.gen
        /\ x.phase \in Checks => status.gen = x.gen /\ status.stage = x.phase
        /\ x.phase \in Scripts => script.gen = x.gen /\ script.stage = x.phase
        /\ x.phase = "rechecking_source" => C.replan = x.gen /\ OnlyReplan(J, x.gen)

Undisturbed ==
    /\ Unhindered(worker, ctl.gen, ctl.phase, exec.active, exec.phase, wires.identity,
                  wires.profile)
    /\ Waiting(exec, worker, ctl, wires.status, wires.script)

LEMMA Clear ==
    ASSUME NEW J, NoReplan(J), NEW g, NEW phase, NEW active, NEW stage, NEW identity,
           NEW profile
    PROVE  Unhindered(J, g, phase, active, stage, identity, profile)
BY DEF Unhindered, NoReplan

LEMMA PopsReplans ==
    ASSUME TypeOK, NEW i \in Delivered, NEW g, NEW phase, NEW active, NEW stage,
           NEW identity, NEW profile,
           Unhindered(worker, g, phase, active, stage, identity, profile)
    PROVE  /\ Unhindered(Without(i), g, phase, active, stage, identity, profile)
           /\ NoReplan(worker) => NoReplan(Without(i))
           /\ Errand(worker, g, i) => NoReplan(Without(i))
           /\ \A h : /\ OnlyReplan(worker, h) /\ worker[i].job = "replan"
                     => NoReplan(Without(i)) /\ worker[i].gen = h
           /\ \A h : /\ OnlyReplan(worker, h) /\ worker[i].job # "replan"
                     => OnlyReplan(Without(i), h)
<1> DEFINE J == Without(i)
<1>1. /\ i = 1 /\ 1 \in 1..Len(worker) /\ Len(J) = Len(worker) - 1
      /\ Len(worker) \in Nat
      /\ \A k \in 1..Len(J) : J[k] = worker[k + 1]
  BY Popped
<1> HIDE DEF J
<1>2. \A k \in 1..Len(J) : k + 1 \in 1..Len(worker) /\ k + 1 # 1
  BY <1>1
<1>3. NoReplan(worker) => NoReplan(J)
  BY <1>1, <1>2 DEF NoReplan
<1>4. Errand(worker, g, i) => NoReplan(J)
  <2>1. ASSUME Errand(worker, g, 1), NEW k \in 1..Len(J) PROVE J[k].job # "replan"
    <3>1. k + 1 > 1 /\ k + 1 \in 1..Len(worker) /\ J[k] = worker[k + 1]
      BY <1>1, <1>2
    <3> QED
      BY <1>1, <2>1, <3>1 DEF Unhindered
  <2> QED
    BY <1>1, <2>1 DEF NoReplan
<1>5. ASSUME NEW h, OnlyReplan(worker, h), worker[i].job = "replan"
      PROVE  NoReplan(J) /\ worker[i].gen = h
  <2>1. PICK m \in 1..Len(worker) :
           /\ worker[m].job = "replan" /\ worker[m].gen = h
           /\ \A k \in 1..Len(worker) : k # m => worker[k].job # "replan"
    BY <1>5 DEF OnlyReplan
  <2>2. m = 1
    BY <1>1, <1>5, <2>1
  <2> QED
    BY <1>1, <1>2, <2>1, <2>2 DEF NoReplan
<1>6. ASSUME NEW h, OnlyReplan(worker, h), worker[i].job # "replan"
      PROVE  OnlyReplan(J, h)
  <2>1. PICK m \in 1..Len(worker) :
           /\ worker[m].job = "replan" /\ worker[m].gen = h
           /\ \A k \in 1..Len(worker) : k # m => worker[k].job # "replan"
    BY <1>6 DEF OnlyReplan
  <2>2. m # 1
    BY <1>1, <1>6, <2>1
  <2>3. m - 1 \in 1..Len(J) /\ (m - 1) + 1 = m
    BY <1>1, <2>2
  <2>4. J[m - 1] = worker[m]
    BY <1>1, <2>3
  <2>5. \A k \in 1..Len(J) : k # m - 1 => J[k] = worker[k + 1] /\ k + 1 # m
    BY <1>1, <2>3
  <2>6. \A k \in 1..Len(J) : k # m - 1 => J[k].job # "replan"
    BY <1>2, <2>1, <2>5
  <2> QED
    BY <2>1, <2>3, <2>4, <2>6 DEF OnlyReplan
<1>7. Unhindered(J, g, phase, active, stage, identity, profile)
  <2>1. ASSUME NEW k \in 1..Len(J), Errand(J, g, k)
        PROVE  /\ J[k].job = "verify" => NoReplan(J)
               /\ \A n \in 1..Len(J) : n > k => J[n].job # "replan"
    <3>1. /\ k + 1 \in 1..Len(worker) /\ J[k] = worker[k + 1]
          /\ Errand(worker, g, k + 1)
      BY <1>1, <1>2, <2>1 DEF Errand
    <3>2. \A n \in 1..Len(J) : n > k => n + 1 > k + 1 /\ J[n] = worker[n + 1]
      BY <1>1
    <3> QED
      BY <1>2, <1>3, <3>1, <3>2 DEF Unhindered
  <2> QED
    BY <1>3, <2>1 DEF Unhindered
<1> QED
  BY <1>3, <1>4, <1>5, <1>6, <1>7 DEF J

LEMMA CarryUndisturbed ==
    ASSUME NEW x \in Attempts, NEW W \in Lanes, NEW J \in Seq(Tasks),
           NEW C \in Controllers, Carry(x, W, J, C),
           NoReplan(J), x.active => x.gen = C.gen, OneErrand'
    PROVE  Undisturbed'
<1> DEFINE y == IF x.active /\ Busy(x, W) THEN Finished(x, "uncertain") ELSE x
           rechecks == y.active /\ y.phase = "rechecking_source"
           t == [job |-> "replan", gen |-> y.gen]
<1>1. /\ exec' = y
      /\ wires' = IF y.active /\ y.phase \in Checks
                  THEN [W EXCEPT !.status = [gen |-> y.gen, stage |-> y.phase, snap |-> {}]]
                  ELSE IF y.active /\ y.phase \in Scripts
                  THEN [W EXCEPT !.script = [gen |-> y.gen, stage |-> y.phase,
                                             ran |-> "waiting"]]
                  ELSE W
      /\ worker' = IF rechecks THEN Append(J, t) ELSE J
      /\ ctl' = [C EXCEPT !.phase = y.phase, !.replan = IF rechecks THEN y.gen ELSE @]
  BY DEF Carry
<1>2. y \in Attempts /\ (y.active => y.gen = C.gen)
  BY FinishedType DEF Outcomes
<1>3. /\ ctl'.gen = C.gen /\ ctl'.phase = y.phase
      /\ rechecks => ctl'.replan = y.gen
  BY <1>1 DEF Controllers
<1>4. t \in Tasks
  BY <1>2 DEF Tasks, Attempts
<1>5. t.job = "replan" /\ t.gen = y.gen
  OBVIOUS
<1> HIDE DEF y, t
<1>6. y.active /\ y.phase \in Checks =>
         wires'.status.gen = y.gen /\ wires'.status.stage = y.phase
  BY <1>1 DEF Lanes
<1>7. y.active /\ y.phase \in Scripts =>
         wires'.script.gen = y.gen /\ wires'.script.stage = y.phase
  BY <1>1, StageNames DEF Lanes
<1>8. CASE ~rechecks
  <2>1. NoReplan(worker')
    BY <1>1, <1>8
  <2>2. Unhindered(worker', ctl'.gen, ctl'.phase, exec'.active, exec'.phase, wires'.identity,
                   wires'.profile)
    BY <2>1, Clear
  <2>3. Waiting(exec', worker', ctl', wires'.status, wires'.script)
    BY <1>1, <1>2, <1>3, <1>6, <1>7, <1>8 DEF Waiting
  <2> QED
    BY <2>2, <2>3 DEF Undisturbed
<1>9. CASE rechecks
  <2>1. /\ Len(J) \in Nat /\ Len(worker') = Len(J) + 1 /\ worker'[Len(J) + 1] = t
        /\ \A k \in 1..Len(J) : worker'[k] = J[k]
    BY <1>1, <1>4, <1>9, LenProperties, AppendProperties
  <2>2. OnlyReplan(worker', y.gen)
    <3>1. \A k \in 1..Len(worker') : k # Len(J) + 1 => k \in 1..Len(J)
      BY <2>1
    <3>2. \A k \in 1..Len(worker') : k # Len(J) + 1 => worker'[k].job # "replan"
      BY <2>1, <3>1 DEF NoReplan
    <3>3. Len(J) + 1 \in 1..Len(worker')
      BY <2>1
    <3> QED
      BY <1>5, <2>1, <3>2, <3>3 DEF OnlyReplan
  <2>3. /\ ctl'.gen > 0 /\ wires'.identity # ctl'.gen /\ wires'.profile # ctl'.gen
        /\ \A k \in 1..Len(worker') : ~Errand(worker', ctl'.gen, k)
    <3>1. exec'.active
      BY <1>1, <1>9
    <3> QED
      BY <3>1 DEF OneErrand, Errands
  <2>4. Unhindered(worker', ctl'.gen, ctl'.phase, exec'.active, exec'.phase, wires'.identity,
                   wires'.profile)
    BY <1>1, <1>3, <1>9, <2>3 DEF Unhindered
  <2>5. Waiting(exec', worker', ctl', wires'.status, wires'.script)
    BY <1>1, <1>2, <1>3, <1>9, <2>2, StageNames DEF Waiting, Checks, Scripts
  <2> QED
    BY <2>4, <2>5 DEF Undisturbed
<1> QED
  BY <1>8, <1>9

LEMMA UndisturbedKept ==
    ASSUME TypeOK, OneErrand, OneErrand', PanelShowsTheAttempt, Sound(exec), Undisturbed,
           [Next]_vars
    PROVE  Undisturbed'
<1>1. /\ exec \in Attempts /\ ctl \in Controllers /\ wires \in Lanes
      /\ worker \in Seq(Tasks) /\ ctl.gen \in Nat
      /\ wires.status \in Queries /\ wires.script \in Posts
  BY DEF TypeOK, Controllers, Lanes
<1>2. /\ Unhindered(worker, ctl.gen, ctl.phase, exec.active, exec.phase, wires.identity,
                    wires.profile)
      /\ Waiting(exec, worker, ctl, wires.status, wires.script)
  BY DEF Undisturbed
<1>3. Len(worker) \in Nat /\ \A i \in 1..Len(worker) : worker[i] \in Tasks
  BY <1>1, LenProperties, ElementOfSeq
\* A generation nobody has run an errand for.
<1>4. /\ wires.identity # ctl.gen + 1 /\ wires.profile # ctl.gen + 1
      /\ \A i \in 1..Len(worker) : ~Errand(worker, ctl.gen + 1, i)
  <2>1. /\ wires.identity \in Nat /\ wires.profile \in Nat
        /\ \A i \in 1..Len(worker) : worker[i].gen \in Nat
    BY <1>1, <1>3 DEF Lanes, Tasks
  <2>2. /\ wires.identity <= ctl.gen /\ wires.profile <= ctl.gen
        /\ \A i \in 1..Len(worker) : worker[i].gen <= ctl.gen
    BY DEF OneErrand, Errands
  <2> QED
    BY <1>1, <2>1, <2>2 DEF Errand
<1>5. ASSUME ~exec'.active, worker' = worker, ctl'.gen = ctl.gen + 1, ctl'.phase # "ready",
             wires'.identity \in {0, wires.identity}, wires'.profile \in {0, wires.profile}
      PROVE  Undisturbed'
  BY <1>1, <1>4, <1>5 DEF Undisturbed, Unhindered, Waiting
<1>6. ASSUME ~exec.active, exec' = exec, ctl'.gen = ctl.gen + 1, ctl'.phase # "ready",
             wires' = wires, NEW job \in {"plan", "verify"},
             job = "verify" => NoReplan(worker),
             worker' = Append(worker, [job |-> job, gen |-> ctl.gen + 1])
      PROVE  Undisturbed'
  <2> DEFINE t == [job |-> job, gen |-> ctl.gen + 1]
  <2>1. t \in Tasks /\ t.job = job /\ t.gen = ctl.gen + 1
    BY <1>1 DEF Tasks
  <2> HIDE DEF t
  <2>2. /\ Len(worker') = Len(worker) + 1 /\ worker'[Len(worker) + 1] = t
        /\ \A k \in 1..Len(worker) : worker'[k] = worker[k]
    BY <1>1, <1>6, <2>1, AppendProperties DEF t
  <2>3. \A k \in 1..Len(worker') : k \in 1..Len(worker) \/ k = Len(worker) + 1
    BY <1>3, <2>2
  <2>4. job = "verify" => NoReplan(worker')
    BY <1>6, <2>1, <2>2, <2>3 DEF NoReplan
  <2>5. \A k \in 1..Len(worker') : Errand(worker', ctl.gen + 1, k) => k = Len(worker) + 1
    BY <1>4, <2>2, <2>3 DEF Errand
  <2>6. \A k \in 1..Len(worker') : ~(k > Len(worker) + 1)
    BY <1>3, <2>2
  <2>7. Unhindered(worker', ctl'.gen, ctl'.phase, exec'.active, exec'.phase, wires'.identity,
                   wires'.profile)
    <3>1. ~(ctl'.gen \in {wires'.identity, wires'.profile}) /\ ~exec'.active
      BY <1>4, <1>6
    <3>2. ASSUME NEW k \in 1..Len(worker'), Errand(worker', ctl'.gen, k)
          PROVE  /\ worker'[k].job = "verify" => NoReplan(worker')
                 /\ \A n \in 1..Len(worker') : n > k => worker'[n].job # "replan"
      <4>1. k = Len(worker) + 1
        BY <1>6, <2>5, <3>2
      <4> QED
        BY <2>1, <2>2, <2>4, <2>6, <4>1
    <3> QED
      BY <1>6, <3>1, <3>2 DEF Unhindered
  <2>8. Waiting(exec', worker', ctl', wires'.status, wires'.script)
    BY <1>6 DEF Waiting
  <2> QED
    BY <2>7, <2>8 DEF Undisturbed
\* The attempt, the executor and what the attempt waits for are left alone.
<1>7. ASSUME worker' = worker, ctl'.gen = ctl.gen, ctl'.replan = ctl.replan,
             ctl'.phase = "ready" => ctl.phase = "ready" \/ NoReplan(worker),
             exec'.active => /\ exec.active /\ exec'.gen = exec.gen
                             /\ exec'.phase = exec.phase,
             wires'.identity \in {0, wires.identity}, wires'.profile \in {0, wires.profile},
             exec'.active /\ exec'.phase \in Checks =>
                /\ wires'.status.gen = wires.status.gen
                /\ wires'.status.stage = wires.status.stage,
             exec'.active /\ exec'.phase \in Scripts =>
                /\ wires'.script.gen = wires.script.gen
                /\ wires'.script.stage = wires.script.stage
      PROVE  Undisturbed'
  <2>1. Unhindered(worker', ctl'.gen, ctl'.phase, exec'.active, exec'.phase, wires'.identity,
                   wires'.profile)
    BY <1>2, <1>7 DEF Unhindered
  <2>2. Waiting(exec', worker', ctl', wires'.status, wires'.script)
    BY <1>2, <1>7 DEF Waiting
  <2> QED
    BY <2>1, <2>2 DEF Undisturbed
<1>8. ASSUME Invalidate, worker' = worker,
             wires'.identity \in {0, wires.identity}, wires'.profile \in {0, wires.profile}
      PROVE  Undisturbed'
  <2>1. ~exec'.active /\ ctl'.gen = ctl.gen + 1
    BY <1>8, InvalidateErrands
  <2>2. ctl'.phase \in Settled
    BY <1>1, <1>8 DEF Invalidate, Invalidated, Controllers, Settled
  <2> QED
    BY <1>5, <1>8, <2>1, <2>2 DEF Settled
<1>9. ASSUME exec.active PROVE exec.gen > 0 /\ exec.gen = ctl.gen
  BY <1>9 DEF OneErrand, Errands
<1>10. CASE Plan
  <2>1. ~exec.active
    BY <1>10 DEF Plan, MayPlan
  <2>2. CASE Phase("refused") /\ UNCHANGED worker
    <3>1. ctl'.gen = ctl.gen /\ ctl'.replan = ctl.replan /\ ctl'.phase = "refused"
      BY <1>1, <2>2 DEF Phase, Controllers
    <3> QED
      BY <1>7, <1>10, <2>1, <2>2, <3>1 DEF Plan
  <2>3. CASE /\ ctl' = [ctl EXCEPT !.phase = "planning", !.gen = @ + 1, !.source = FALSE,
                                   !.unloaded = seen.state \notin Running]
             /\ worker' = Append(worker, [job |-> "plan", gen |-> ctl.gen + 1])
    <3>1. ctl'.gen = ctl.gen + 1 /\ ctl'.phase = "planning"
      BY <1>1, <2>3 DEF Controllers
    <3> QED
      BY <1>6, <1>10, <2>1, <2>3, <3>1 DEF Plan
  <2> QED
    BY <1>10, <2>2, <2>3 DEF Plan
<1>11. CASE Start
  <2>1. ~exec.active /\ NoReplan(worker)
    BY <1>2, <1>11, QuietPhases DEF Start, Planning, Unhindered
  <2>2. CASE UNCHANGED worker /\ \E kept \in BOOLEAN :
                ctl' = [ctl EXCEPT !.phase = "refused", !.source = kept]
    <3>1. ctl'.gen = ctl.gen /\ ctl'.replan = ctl.replan /\ ctl'.phase = "refused"
      BY <1>1, <2>2 DEF Controllers
    <3> QED
      BY <1>7, <1>11, <2>1, <2>2, <3>1 DEF Start
  <2>3. CASE /\ ctl' = [ctl EXCEPT !.phase = "verifying_source", !.gen = @ + 1]
             /\ worker' = Append(worker, [job |-> "verify", gen |-> ctl.gen + 1])
    <3>1. ctl'.gen = ctl.gen + 1 /\ ctl'.phase = "verifying_source"
      BY <1>1, <2>3 DEF Controllers
    <3> QED
      BY <1>6, <1>11, <2>1, <2>3, <3>1 DEF Start
  <2> QED
    BY <1>11, <2>2, <2>3 DEF Start
<1>12. CASE Cancel
  <2>1. CASE /\ ctl.phase \in {"planning", "checking_printer"}
             /\ ctl' = [ctl EXCEPT !.phase = "cancelled", !.gen = @ + 1]
             /\ UNCHANGED exec
    <3>1. ~exec.active
      BY <2>1, QuietPhases DEF Planning
    <3>2. ctl'.gen = ctl.gen + 1 /\ ctl'.phase = "cancelled"
      BY <1>1, <2>1 DEF Controllers
    <3> QED
      BY <1>5, <1>12, <2>1, <3>1, <3>2 DEF Cancel
  <2>2. CASE exec.active /\ exec' = CancelAsked(exec) /\ Phase("cancelling")
    <3>1. exec'.active = exec.active /\ exec'.gen = exec.gen /\ exec'.phase = exec.phase
      BY <1>1, <2>2 DEF CancelAsked, Attempts
    <3>2. ctl'.gen = ctl.gen /\ ctl'.replan = ctl.replan /\ ctl'.phase = "cancelling"
      BY <1>1, <2>2 DEF Phase, Controllers
    <3> QED
      BY <1>7, <1>12, <2>2, <3>1, <3>2 DEF Cancel
  <2> QED
    BY <1>12, <2>1, <2>2 DEF Cancel
\* A job other than a re-plan is delivered, and the controller keeps its generation.
<1>13. ASSUME NEW i \in Delivered, worker[i].job # "replan", worker' = Without(i),
              exec' = exec, ctl'.gen = ctl.gen, ctl'.replan = ctl.replan,
              ctl'.phase = "ready" => ctl.phase = "ready",
              wires'.status = wires.status, wires'.script = wires.script,
              \/ wires'.identity = wires.identity /\ wires'.profile = wires.profile
              \/ NoReplan(Without(i))
       PROVE  Undisturbed'
  <2>1. /\ Unhindered(Without(i), ctl.gen, ctl.phase, exec.active, exec.phase,
                      wires.identity, wires.profile)
        /\ \A h : OnlyReplan(worker, h) => OnlyReplan(Without(i), h)
    BY <1>2, <1>13, PopsReplans
  <2>2. Unhindered(worker', ctl'.gen, ctl'.phase, exec'.active, exec'.phase, wires'.identity,
                   wires'.profile)
    <3>1. CASE NoReplan(Without(i))
      BY <1>13, <3>1, Clear
    <3>2. CASE wires'.identity = wires.identity /\ wires'.profile = wires.profile
      BY <1>13, <2>1, <3>2 DEF Unhindered
    <3> QED
      BY <1>13, <3>1, <3>2
  <2>3. Waiting(exec', worker', ctl', wires'.status, wires'.script)
    BY <1>2, <1>13, <2>1 DEF Waiting
  <2> QED
    BY <2>2, <2>3 DEF Undisturbed
<1>14. ASSUME NEW i \in Delivered, PlanDone(i) PROVE Undisturbed'
  <2>1. /\ worker[i].job = "plan" /\ worker' = Without(i) /\ exec' = exec
    BY <1>14 DEF PlanDone
  <2>2. CASE UNCHANGED <<ctl, wires>>
    BY <1>13, <2>1, <2>2
  <2>3. ASSUME NEW source, ctl' = [ctl EXCEPT !.source = source, !.phase = "refused"],
               UNCHANGED wires
        PROVE  Undisturbed'
    <3>1. ctl'.gen = ctl.gen /\ ctl'.replan = ctl.replan /\ ctl'.phase = "refused"
      BY <1>1, <2>3 DEF Controllers
    <3> QED
      BY <1>13, <2>1, <2>3, <3>1
  <2>4. CASE /\ worker[i].gen = ctl.gen
             /\ ctl' = [ctl EXCEPT !.source = TRUE, !.phase = "checking_printer"]
             /\ wires' = [wires EXCEPT !.profile = ctl.gen]
    <3>1. NoReplan(Without(i))
      BY <1>2, <2>1, <2>4, PopsReplans DEF Errand
    <3>2. ctl'.gen = ctl.gen /\ ctl'.replan = ctl.replan /\ ctl'.phase = "checking_printer"
      BY <1>1, <2>4 DEF Controllers
    <3>3. wires'.status = wires.status /\ wires'.script = wires.script
      BY <1>1, <2>4 DEF Lanes
    <3> QED
      BY <1>13, <2>1, <3>1, <3>2, <3>3
  <2> QED
    BY <1>14, <2>2, <2>3, <2>4 DEF PlanDone
<1>15. CASE ProfileReply
  <2>1. /\ wires'.identity = wires.identity /\ wires'.profile = 0
        /\ wires'.status = wires.status /\ wires'.script = wires.script
        /\ ctl'.gen = ctl.gen /\ ctl'.replan = ctl.replan
    BY <1>1, <1>15 DEF ProfileReply, Phase, Lanes, Controllers
  <2>2. ctl'.phase = "ready" => ctl.phase = "ready" \/ NoReplan(worker)
    <3>1. CASE wires.profile # ctl.gen
      BY <1>15, <3>1 DEF ProfileReply
    <3>2. CASE wires.profile = ctl.gen
      <4>1. ctl.gen > 0
        BY <1>1, <1>15, <3>2 DEF ProfileReply
      <4> QED
        BY <1>2, <3>2, <4>1 DEF Unhindered
    <3> QED
      BY <3>1, <3>2
  <2> QED
    BY <1>7, <1>15, <2>1, <2>2 DEF ProfileReply
<1>16. ASSUME NEW i \in Delivered, VerificationDone(i) PROVE Undisturbed'
  <2>1. /\ worker[i].job = "verify" /\ worker' = Without(i) /\ exec' = exec
    BY <1>16 DEF VerificationDone
  <2>2. CASE UNCHANGED <<ctl, wires>>
    BY <1>13, <2>1, <2>2
  <2>3. CASE Phase("refused") /\ UNCHANGED wires
    <3>1. ctl'.gen = ctl.gen /\ ctl'.replan = ctl.replan /\ ctl'.phase = "refused"
      BY <1>1, <2>3 DEF Phase, Controllers
    <3> QED
      BY <1>13, <2>1, <2>3, <3>1
  <2>4. CASE /\ worker[i].gen = ctl.gen
             /\ Phase("checking_remote_file")
             /\ wires' = [wires EXCEPT !.identity = ctl.gen]
    <3>1. NoReplan(Without(i))
      BY <1>2, <2>1, <2>4, PopsReplans DEF Errand
    <3>2. ctl'.gen = ctl.gen /\ ctl'.replan = ctl.replan /\ ctl'.phase = "checking_remote_file"
      BY <1>1, <2>4 DEF Phase, Controllers
    <3>3. wires'.status = wires.status /\ wires'.script = wires.script
      BY <1>1, <2>4 DEF Lanes
    <3> QED
      BY <1>13, <2>1, <3>1, <3>2, <3>3
  <2> QED
    BY <1>16, <2>2, <2>3, <2>4 DEF VerificationDone
<1>17. CASE IdentityReply
  <2> DEFINE W == [wires EXCEPT !.identity = 0]
  <2>1. /\ W \in Lanes /\ W.identity = 0 /\ W.profile = wires.profile
        /\ W.status = wires.status /\ W.script = wires.script
    BY <1>1 DEF Lanes
  <2> HIDE DEF W
  <2>2. CASE wires' = W /\ UNCHANGED <<ctl, exec, worker>>
    BY <1>7, <2>1, <2>2
  <2>3. CASE wires' = W /\ Phase("refused") /\ UNCHANGED <<exec, worker>>
    <3>1. ctl'.gen = ctl.gen /\ ctl'.replan = ctl.replan /\ ctl'.phase = "refused"
      BY <1>1, <2>3 DEF Phase, Controllers
    <3> QED
      BY <1>7, <2>1, <2>3, <3>1
  <2>4. CASE wires.identity = ctl.gen /\ Carry(Begun(ctl.gen), W, worker, ctl)
    <3>1. ctl.gen > 0
      BY <1>1, <1>17, <2>4 DEF IdentityReply
    <3>2. NoReplan(worker)
      BY <1>2, <2>4, <3>1 DEF Unhindered
    <3>3. Begun(ctl.gen) \in Attempts /\ Begun(ctl.gen).gen = ctl.gen
      BY <1>1, BegunType DEF Begun
    <3> QED
      BY <1>1, <2>1, <2>4, <3>2, <3>3, CarryUndisturbed
  <2> QED
    BY <1>17, <2>2, <2>3, <2>4 DEF IdentityReply, W
<1>18. CASE Sample
  <2>1. /\ wires'.identity = wires.identity /\ wires'.profile = wires.profile
        /\ wires'.status.gen = wires.status.gen /\ wires'.status.stage = wires.status.stage
        /\ wires'.script = wires.script
    BY <1>1, <1>18 DEF Sample, Lanes, Queries
  <2> QED
    BY <1>7, <1>18, <2>1 DEF Sample
\* x is what an answer makes of the running attempt.
<1>19. ASSUME exec.active, NEW x \in Attempts, x.gen = exec.gen, NEW W \in Lanes,
              NEW J \in Seq(Tasks), NoReplan(J), NEW C \in Controllers, C.gen = ctl.gen,
              Carry(x, W, J, C)
       PROVE  Undisturbed'
  BY <1>9, <1>19, CarryUndisturbed
<1>20. ASSUME NEW o \in Outcomes
       PROVE  Finished(exec, o) \in Attempts /\ Finished(exec, o).gen = exec.gen
  BY <1>1, FinishedType
<1>21. ASSUME NEW stage \in Stages
       PROVE  Entered(exec, stage) \in Attempts /\ Entered(exec, stage).gen = exec.gen
  <2>1. Entered(exec, stage) \in Attempts
    BY <1>1, EnteredType
  <2> QED
    BY <1>1, <2>1 DEF Entered, Finished, Attempts
<1>22. CASE StatusReply
  <2> DEFINE W == [wires EXCEPT !.status = NoQuery]
  <2>1. /\ W \in Lanes /\ W.identity = wires.identity /\ W.profile = wires.profile
        /\ W.script = wires.script
    <3>1. NoQuery \in Queries
      BY DEF NoQuery, Queries, Checks
    <3> QED
      BY <1>1, <3>1 DEF Lanes
  <2> HIDE DEF W
  <2>2. CASE /\ ~Mine(wires.status.gen, wires.status.stage)
             /\ wires' = W /\ UNCHANGED <<ctl, exec, worker>>
    <3>1. ~(exec.active /\ exec.phase \in Checks)
      BY <1>2, <2>2 DEF Waiting, Mine
    <3> QED
      BY <1>7, <2>1, <2>2, <3>1
  <2>3. ASSUME Mine(wires.status.gen, wires.status.stage) PROVE exec.active /\ NoReplan(worker)
    BY <1>1, <1>2, <2>3, StageNames DEF Mine, Unhindered, Queries
  <2>4. CASE /\ Mine(wires.status.gen, wires.status.stage)
             /\ Carry(Finished(exec, "uncertain"), W, worker, ctl)
    BY <1>1, <1>19, <1>20, <2>1, <2>3, <2>4 DEF Outcomes
  <2>5. ASSUME Mine(wires.status.gen, wires.status.stage),
               NEW s \in wires.status.snap, NEW fit \in BOOLEAN,
               Carry(Judged(exec, s, fit, ctl.profile), W, worker, ctl)
        PROVE  Undisturbed'
    <3>1. s \in Printers /\ exec.active /\ exec.phase \in Checks
      BY <1>1, <2>5 DEF Mine, Queries
    <3>2. Answered(exec, Judged(exec, s, fit, ctl.profile))
      BY <1>1, <3>1, JudgedStep
    <3>3. /\ Judged(exec, s, fit, ctl.profile) \in Attempts
          /\ Judged(exec, s, fit, ctl.profile).gen = exec.gen
      BY <3>2 DEF Answered
    <3> QED
      BY <1>1, <1>19, <2>1, <2>3, <2>5, <3>3
  <2> QED
    BY <1>22, <2>2, <2>4, <2>5 DEF StatusReply, W
<1>23. CASE ScriptReply
  <2> DEFINE W == [wires EXCEPT !.script = NoPost]
  <2>1. /\ W \in Lanes /\ W.identity = wires.identity /\ W.profile = wires.profile
        /\ W.status = wires.status
    <3>1. NoPost \in Posts
      BY DEF NoPost, Posts, Scripts
    <3> QED
      BY <1>1, <3>1 DEF Lanes
  <2> HIDE DEF W
  <2>2. CASE /\ ~Mine(wires.script.gen, wires.script.stage)
             /\ wires' = W /\ UNCHANGED <<ctl, exec, worker>>
    <3>1. ~(exec.active /\ exec.phase \in Scripts)
      BY <1>2, <2>2 DEF Waiting, Mine
    <3> QED
      BY <1>7, <2>1, <2>2, <3>1
  <2>3. ASSUME Mine(wires.script.gen, wires.script.stage) PROVE exec.active /\ NoReplan(worker)
    BY <1>1, <1>2, <2>3, StageNames DEF Mine, Unhindered, Posts
  <2>4. CASE /\ Mine(wires.script.gen, wires.script.stage)
             /\ Carry(Finished(exec, "uncertain"), W, worker, ctl)
    BY <1>1, <1>19, <1>20, <2>1, <2>3, <2>4 DEF Outcomes
  <2>5. CASE /\ Mine(wires.script.gen, wires.script.stage)
             /\ Carry(Entered(exec, AfterScript[exec.phase]), W, worker, ctl)
    <3>1. AfterScript[exec.phase] \in Stages
      BY <1>1, <2>5, AfterScriptType DEF Mine, Posts
    <3> QED
      BY <1>1, <1>19, <1>21, <2>1, <2>3, <2>5, <3>1
  <2> QED
    BY <1>23, <2>2, <2>4, <2>5 DEF ScriptReply, W
<1>24. ASSUME NEW i \in Delivered, ReplanDone(i) PROVE Undisturbed'
  <2> DEFINE C == [ctl EXCEPT !.replan = 0]
  <2>1. C \in Controllers /\ C.gen = ctl.gen /\ C.phase = ctl.phase
    BY <1>1 DEF Controllers
  <2> HIDE DEF C
  <2>2. /\ worker[i].job = "replan" /\ Without(i) \in Seq(Tasks)
    BY <1>24, WithoutType DEF ReplanDone
  <2>3. ~NoReplan(worker)
    BY <2>2, Popped DEF NoReplan
  <2>4. ASSUME exec.active
        PROVE  /\ NoReplan(Without(i)) /\ worker[i].gen = exec.gen
               /\ exec.phase = "rechecking_source" /\ ctl.replan = exec.gen
    <3>1. exec.phase = "rechecking_source" /\ ctl.replan = exec.gen
          /\ OnlyReplan(worker, exec.gen)
      BY <1>2, <2>3, <2>4 DEF Unhindered, Waiting
    <3> QED
      BY <1>2, <2>2, <3>1, PopsReplans
  <2>5. CASE /\ ctl.replan = 0 \/ worker[i].gen # ctl.gen \/ ~Mine(ctl.replan, "rechecking_source")
             /\ ctl' = C /\ worker' = Without(i) /\ UNCHANGED <<exec, wires>>
    <3>1. ~exec.active
      <4> SUFFICES ASSUME exec.active PROVE FALSE
        OBVIOUS
      <4>1. exec.gen > 0 /\ exec.gen = ctl.gen
        BY <1>9
      <4>2. /\ worker[i].gen = exec.gen /\ exec.phase = "rechecking_source"
            /\ ctl.replan = exec.gen
        BY <2>4
      <4> QED
        BY <2>5, <4>1, <4>2 DEF Mine
    <3>2. Unhindered(Without(i), ctl.gen, ctl.phase, exec.active, exec.phase, wires.identity,
                     wires.profile)
      BY <1>2, PopsReplans
    <3> QED
      BY <2>1, <2>5, <3>1, <3>2 DEF Undisturbed, Waiting
  <2>6. CASE /\ Mine(ctl.replan, "rechecking_source")
             /\ Carry(Finished(exec, "refused"), wires, Without(i), C)
    BY <1>1, <1>19, <1>20, <2>1, <2>2, <2>4, <2>6 DEF Mine, Outcomes
  <2>7. CASE /\ Mine(ctl.replan, "rechecking_source")
             /\ Carry(Entered(exec, "checking_after_pause"), wires, Without(i), C)
    <3>1. "checking_after_pause" \in Stages
      BY DEF Stages, Checks
    <3> QED
      BY <1>1, <1>19, <1>21, <2>1, <2>2, <2>4, <2>7, <3>1 DEF Mine
  <2> QED
    BY <1>24, <2>5, <2>6, <2>7 DEF ReplanDone, C
<1>25. ASSUME UNCHANGED <<ctl, exec, worker>>, wires'.status = wires.status,
              wires'.identity = wires.identity, wires'.profile = wires.profile,
              wires'.script.gen = wires.script.gen, wires'.script.stage = wires.script.stage
       PROVE  Undisturbed'
  BY <1>7, <1>25
<1>26. CASE Frame \/ SelectFile
  BY <1>8, <1>25, <1>26 DEF Frame, SelectFile
<1>27. CASE SessionLost
  <2>1. wires'.identity \in {0, wires.identity} /\ wires'.profile \in {0, wires.profile}
    BY <1>27 DEF SessionLost, FreeLanes
  <2> QED
    BY <1>8, <1>27, <2>1 DEF SessionLost
<1>28. CASE RunScript \/ FailScript
  <2>1. UNCHANGED <<ctl, exec, worker>> /\ \E outcome : Answers(Head(klippy), outcome)
    BY <1>28 DEF RunScript, FailScript
  <2>2. /\ wires'.status = wires.status
        /\ wires'.identity = wires.identity /\ wires'.profile = wires.profile
        /\ wires'.script.gen = wires.script.gen /\ wires'.script.stage = wires.script.stage
    BY <1>1, <2>1 DEF Answers, Lanes, Posts
  <2> QED
    BY <1>25, <2>1, <2>2
<1>29. CASE PrintOn \/ Meddle \/ UNCHANGED vars
  BY <1>25, <1>29 DEF PrintOn, Meddle, vars
<1> QED
  BY <1>10, <1>11, <1>12, <1>14, <1>15, <1>16, <1>17, <1>18, <1>22, <1>23, <1>24, <1>26, <1>27,
     <1>28, <1>29
     DEF Next, Owner, Answer, Outside, Machine, ExecutorDone

-----------------------------------------------------------------------------
(* What an attempt knows of the printer when it moves it.                  *)

\* The scripts that move the nozzle to the print, or start the file.
Moving == {"priming_nozzle", "returning", "seeking", "resuming"}

\* Printer p is what the script of a stage counts on.
Fit(p, stage) ==
    /\ stage \in Moving => p.state # "printing" /\ p.mine /\ p.hot
    /\ stage = "resuming" => p.pos = 1 /\ p.at = "staged" /\ p.modal

\* K holds no script of generation g.
Unposted(K, g) == \A i \in 1..Len(K) : K[i].gen # g

\* Generation g has yet to start an attempt.
Outstanding(J, g, identity) == identity = g \/ \E i \in 1..Len(J) : Errand(J, g, i)

\* No script is of the generation that holds the status lane (of), or of one
\* that has yet to start.
Posted(K, of, J, g, identity) ==
    /\ \A i \in 1..Len(K) : 0 < K[i].gen /\ K[i].gen <= g
    /\ of <= g /\ Unposted(K, of)
    /\ g > 0 /\ Outstanding(J, g, identity) => Unposted(K, g) /\ of # g

\* The stages that may post over the scripts of another attempt.
First == {"pausing", "loading_file", "heating_and_waiting"}

\* An attempt's script is the last Klipper has, and behind other attempts' only
\* in its first stages; once it was answered, Klipper has none.
InTurn(K, x, of, ran) ==
    x.active =>
        /\ x.phase \notin Checks => of # x.gen
        /\ x.phase \in Scripts /\ ran = "waiting" =>
              /\ Len(K) > 0 /\ K[Len(K)].gen = x.gen /\ K[Len(K)].stage = x.phase
              /\ \A i \in 1..Len(K) : i # Len(K) => K[i].gen # x.gen
              /\ x.phase \notin First => Len(K) = 1
        /\ IF x.phase \in Scripts THEN ran # "waiting" => Len(K) = 0
                                  ELSE x.phase # "checking" => Len(K) = 0

\* The printer p is ready for the script of the generation it was last read for.
Ready(K, p, v) ==
    \A i \in 1..Len(K) : K[i].gen = v => /\ Fit(p, K[i].stage)
                                         /\ K[i].stage \in Moving => i = 1

\* A stopped printer stays what the query's answer shows.
Fresh(x, snap, p, v) ==
    x.active /\ x.phase \in Checks \ {"checking"} /\ v = x.gen =>
        \A s \in snap : s.state # "printing" => p = s

\* Stages from which the file is at the boundary, and the modes are restored.
Restored == {"checking_modal_state", "finishing_pause", "checking_pause_cleanup"}
Sought   == Restored \cup {"checking_seek", "restoring_modal_state"}

\* What was verified and cannot be read again later holds as long as nobody
\* has moved the nozzle away.
AtBoundary(x, ran, p) ==
    x.active /\ p.at = "staged" =>
        /\ x.phase \in Sought \/ (x.phase = "seeking" /\ ran = "ran")
              => p.pos = 1 /\ p.state # "printing"
        /\ x.phase \in Restored \/ (x.phase = "restoring_modal_state" /\ ran = "ran")
              => p.modal

Informed ==
    /\ Posted(klippy, wires.status.gen, worker, ctl.gen, wires.identity)
    /\ InTurn(klippy, exec, wires.status.gen, wires.script.ran)
    /\ Ready(klippy, printer, verified)
    /\ Fresh(exec, wires.status.snap, printer, verified)
    /\ AtBoundary(exec, wires.script.ran, printer)

LEMMA InformedNames ==
    /\ Moving \subseteq Scripts /\ First \subseteq Scripts /\ Moving \cap First = {}
    /\ Sought \cap First = {} /\ Sought \cap Moving = {} /\ Restored \subseteq Sought
    /\ "checking" \in Checks \ Sought /\ "resuming" \in Moving /\ "seeking" \in Moving
    /\ Scripts \cap Checks = {}
    /\ "restoring_modal_state" \in Scripts \ (First \cup Moving \cup Restored)
BY DEF Moving, First, Sought, Restored, Scripts, Checks

\* The stage that follows a status which passed, and what the status showed.
LEMMA JudgedOnward ==
    ASSUME NEW x \in Attempts, x.phase \in Checks,
           NEW s \in Printers, NEW fit \in BOOLEAN, NEW profile,
           Judged(x, s, fit, profile).active
    PROVE  LET y == Judged(x, s, fit, profile)
           IN  /\ y.gen = x.gen
               /\ y.phase \in Scripts \cup {"rechecking_source"}
               /\ x.phase = "checking" => y.phase \in First
               /\ y.phase \in Moving => s.state # "printing" /\ s.mine /\ s.hot
               /\ y.phase = "resuming" =>
                     /\ x.phase \in Restored /\ s.at = "staged"
                     /\ x.phase = "checking_modal_state" => s.modal
               /\ y.phase \in Sought => x.phase \in Sought
               /\ y.phase \in Restored => x.phase \in Restored
<1> DEFINE y == [x EXCEPT !.primed = @ \/ x.phase = "checking_prime",
                          !.idle   = @ \/ (x.phase = "checking" /\ s.state = "idle")]
           stage == Onward(y, s, profile)
<1>1. \A o \in Outcomes : ~Finished(x, o).active
  BY FinishedType
<1>2. {"cancelled", "uncertain", "refused", "complete"} = Outcomes
  BY DEF Outcomes
<1>3. /\ ~x.cancelled /\ Gate(x, s) /\ x.phase # "checking_resume"
      /\ Judged(x, s, fit, profile) = Entered(y, stage)
  BY <1>1, <1>2 DEF Judged
<1>4. y.gen = x.gen /\ y.phase = x.phase /\ y.cancelled = x.cancelled
  BY DEF Attempts
<1>5. Entered(y, stage).gen = x.gen /\ Entered(y, stage).phase = stage
  <2>1. y \in Attempts
    <3>1. (x.primed \/ x.phase = "checking_prime") \in BOOLEAN
      OBVIOUS
    <3>2. (x.idle \/ (x.phase = "checking" /\ s.state = "idle")) \in BOOLEAN
      OBVIOUS
    <3> QED
      BY <3>1, <3>2 DEF Attempts
  <2>2. ~y.cancelled
    BY <1>3, <1>4
  <2> HIDE DEF y, stage
  <2>3. Entered(y, stage) = [y EXCEPT !.phase = stage,
                 !.handover = IF stage \in Scripts THEN stage = "resuming" ELSE @]
    BY <2>2 DEF Entered
  <2>4. Entered(y, stage).gen = y.gen /\ Entered(y, stage).phase = stage
    BY <2>1, <2>3 DEF Attempts
  <2> QED
    BY <1>4, <2>4 DEF y
<1> HIDE DEF y
<1>6. Return(y, s, profile) \in {"setting_z_reference", "priming_nozzle", "returning"}
  BY DEF Return
<1>7. CASE x.phase = "checking"
  <2>1. stage \in First
    BY <1>4, <1>7 DEF Onward, First
  <2> QED
    BY <1>3, <1>5, <1>7, <2>1, InformedNames
<1>8. CASE x.phase # "checking"
  <2>1. s.state # "printing" /\ s.mine
    BY <1>3, <1>8 DEF Gate, Owned
  <2>2. s.hot \/ x.phase \in {"checking_pause", "checking_after_pause", "checking_loaded_file"}
    BY <1>3, <1>8 DEF Gate
  <2>3. CASE x.phase \in {"checking_pause", "checking_after_pause", "checking_loaded_file"}
    <3>1. stage \in {"rechecking_source", "heating_and_waiting"}
      BY <1>4, <2>3 DEF Onward
    <3> QED
      BY <1>3, <1>5, <1>8, <3>1 DEF Scripts, Moving, Sought, Restored
  <2>4. CASE x.phase \in {"checking_temperature", "checking_restored_state",
                          "checking_z_reference", "checking_prime"}
    <3>1. stage \in {"restore_state", "setting_z_reference", "priming_nozzle", "returning"}
      BY <1>4, <1>6, <2>4 DEF Onward
    <3> QED
      BY <1>3, <1>5, <1>8, <2>1, <2>2, <2>4, <3>1 DEF Scripts, Moving, Sought, Restored
  <2>5. CASE x.phase \in {"checking_return", "checking_seek"}
    <3>1. /\ x.phase = "checking_return" => stage = "seeking"
          /\ x.phase = "checking_seek" => stage = "restoring_modal_state"
      BY <1>4 DEF Onward
    <3> QED
      BY <1>3, <1>5, <1>8, <2>1, <2>2, <2>5, <3>1 DEF Scripts, Moving, Sought, Restored
  <2>6. CASE x.phase \in {"checking_modal_state", "checking_pause_cleanup"}
    <3>1. /\ stage \in {"finishing_pause", "resuming"}
          /\ s.at = "staged"
          /\ x.phase = "checking_modal_state" => s.modal
      BY <1>3, <1>4, <2>6 DEF Onward, Gate
    <3> QED
      BY <1>3, <1>5, <1>8, <2>1, <2>2, <2>6, <3>1 DEF Scripts, Moving, Sought, Restored
  <2> QED
    BY <1>3, <1>8, <2>3, <2>4, <2>5, <2>6 DEF Checks
<1> QED
  BY <1>7, <1>8

\* What has to hold of an attempt, fresh from a handler, and of the scripts
\* Klipper has, for its next request to keep Informed.
LEMMA CarryInformed ==
    ASSUME TypeOK, NEW x \in Attempts, NEW W \in Lanes, NEW J \in Seq(Tasks),
           NEW C \in Controllers, Carry(x, W, J, C), OneErrand',
           printer' = printer, verified' = verified,
           Posted(klippy, W.status.gen, J, C.gen, W.identity),
           Ready(klippy, printer, verified),
           x.active =>
              /\ x.gen = C.gen /\ x.gen > 0 /\ W.status.gen # x.gen
              /\ Unposted(klippy, x.gen)
              /\ x.phase \notin First \cup {"checking"} => Len(klippy) = 0
              /\ x.gen = verified => Fit(printer, x.phase)
              /\ x.phase \in Sought /\ printer.at = "staged"
                    => printer.pos = 1 /\ printer.state # "printing"
              /\ x.phase \in Restored /\ printer.at = "staged" => printer.modal
    PROVE  Informed'
<1> DEFINE y == IF x.active /\ Busy(x, W) THEN Finished(x, "uncertain") ELSE x
           e == [gen |-> y.gen, stage |-> y.phase, idle |-> y.idle]
           q == [gen |-> y.gen, stage |-> y.phase, snap |-> {}]
           p == [gen |-> y.gen, stage |-> y.phase, ran |-> "waiting"]
           t == [job |-> "replan", gen |-> y.gen]
<1>1. /\ exec' = y
      /\ wires' = IF y.active /\ y.phase \in Checks THEN [W EXCEPT !.status = q]
                  ELSE IF y.active /\ y.phase \in Scripts THEN [W EXCEPT !.script = p]
                  ELSE W
      /\ klippy' = IF y.active /\ y.phase \in Scripts THEN Append(klippy, e) ELSE klippy
      /\ worker' = IF y.active /\ y.phase = "rechecking_source" THEN Append(J, t) ELSE J
      /\ ctl'.gen = C.gen
  BY DEF Carry, Controllers
<1>2. /\ y \in Attempts
      /\ y.active => y = x
  BY FinishedType DEF Outcomes
<1>3. e.gen = y.gen /\ e.stage = y.phase /\ q.gen = y.gen /\ q.snap = {} /\ p.ran = "waiting"
  OBVIOUS
<1>4. y.active /\ y.phase \in Scripts => e \in Entries
  BY <1>2 DEF Entries, Attempts
<1>5. klippy \in Seq(Entries) /\ C.gen \in Nat
  BY DEF TypeOK, Controllers
<1> HIDE DEF y, e, q, p, t
<1>6. CASE ~y.active
  <2>1. wires' = W /\ klippy' = klippy /\ worker' = J
    BY <1>1, <1>6
  <2>2. /\ InTurn(klippy', exec', wires'.status.gen, wires'.script.ran)
        /\ Fresh(exec', wires'.status.snap, printer', verified')
        /\ AtBoundary(exec', wires'.script.ran, printer')
    BY <1>1, <1>6 DEF InTurn, Fresh, AtBoundary
  <2> QED
    BY <1>1, <2>1, <2>2 DEF Informed
<1>7. CASE y.active
  <2>1. /\ y = x /\ y.gen = C.gen /\ C.gen > 0 /\ exec'.active
        /\ wires'.identity = W.identity
    BY <1>1, <1>2, <1>7 DEF Lanes
  <2>2. ~Outstanding(worker', C.gen, wires'.identity)
    BY <1>1, <2>1 DEF OneErrand, Errands, Outstanding
  <2>3. CASE y.phase \in Scripts
    <3>1. /\ y.phase \notin Checks /\ y.phase # "rechecking_source"
      BY <2>3, StageNames
    <3>2. /\ klippy' = Append(klippy, e) /\ wires'.status = W.status
          /\ wires'.script = p
      BY <1>1, <1>7, <2>3, <3>1 DEF Lanes
    <3>3. /\ Len(klippy) \in Nat /\ Len(klippy') = Len(klippy) + 1
          /\ klippy'[Len(klippy) + 1] = e
          /\ \A i \in 1..Len(klippy) : klippy'[i] = klippy[i]
      BY <1>4, <1>5, <1>7, <2>3, <3>2, LenProperties, AppendProperties
    <3>4. \A i \in 1..Len(klippy') :
             \/ i \in 1..Len(klippy) /\ klippy'[i] = klippy[i] /\ i # Len(klippy')
             \/ i = Len(klippy') /\ klippy'[i] = e
      BY <3>3
    <3>5. Posted(klippy', wires'.status.gen, worker', ctl'.gen, wires'.identity)
      <4>1. \A i \in 1..Len(klippy') : 0 < klippy'[i].gen /\ klippy'[i].gen <= C.gen
        BY <1>3, <1>5, <2>1, <3>4 DEF Posted
      <4>2. Unposted(klippy', W.status.gen)
        BY <1>3, <2>1, <1>7, <3>4 DEF Posted, Unposted
      <4> QED
        BY <1>1, <2>2, <3>2, <4>1, <4>2 DEF Posted
    <3>6. InTurn(klippy', exec', wires'.status.gen, wires'.script.ran)
      <4>1. wires'.script.ran = "waiting" /\ wires'.status.gen # y.gen
        BY <1>3, <1>7, <2>1, <3>2
      <4>2. /\ Len(klippy') > 0 /\ klippy'[Len(klippy')] = e
        BY <3>3
      <4>3. \A i \in 1..Len(klippy') : i # Len(klippy') => klippy'[i].gen # y.gen
        BY <1>7, <2>1, <3>4 DEF Unposted
      <4>4. y.phase \notin First => Len(klippy') = 1
        <5>1. y.phase # "checking"
          BY <3>1, InformedNames
        <5> QED
          BY <1>7, <2>1, <3>3, <5>1
      <4> QED
        BY <1>1, <1>3, <2>3, <3>1, <4>1, <4>2, <4>3, <4>4 DEF InTurn
    <3>7. Ready(klippy', printer', verified')
      <4>1. e.gen = verified => Fit(printer, e.stage)
        BY <1>3, <1>7, <2>1
      <4>2. e.stage \in Moving => Len(klippy') = 1
        <5>1. e.stage \in Moving => e.stage \notin First \cup {"checking"}
          BY InformedNames
        <5> QED
          BY <1>3, <1>7, <2>1, <3>3, <5>1
      <4> QED
        BY <3>4, <4>1, <4>2 DEF Ready
    <3>8. /\ Fresh(exec', wires'.status.snap, printer', verified')
          /\ AtBoundary(exec', wires'.script.ran, printer')
      <4>1. Fresh(exec', wires'.status.snap, printer', verified')
        BY <1>1, <3>1 DEF Fresh
      <4>2. wires'.script.ran # "ran"
        BY <1>3, <3>2
      <4> QED
        BY <1>1, <1>7, <2>1, <4>1, <4>2 DEF AtBoundary
    <3> QED
      BY <3>5, <3>6, <3>7, <3>8 DEF Informed
  <2>4. CASE y.phase \notin Scripts
    <3>1. /\ klippy' = klippy /\ wires'.script = W.script
          /\ y.phase \in Checks => wires'.status = q
          /\ y.phase \notin Checks => wires'.status = W.status
      BY <1>1, <1>7, <2>4 DEF Lanes
    <3>2. /\ wires'.status.gen \in {y.gen, W.status.gen}
          /\ y.phase \notin Checks => wires'.status.gen = W.status.gen
          /\ y.phase \in Checks => wires'.status.snap = {}
      BY <1>3, <3>1
    <3>3. Posted(klippy', wires'.status.gen, worker', ctl'.gen, wires'.identity)
      <4>1. Unposted(klippy, y.gen) /\ Unposted(klippy, W.status.gen) /\ W.status.gen <= C.gen
        BY <1>7, <2>1 DEF Posted
      <4>2. wires'.status.gen <= C.gen /\ Unposted(klippy, wires'.status.gen)
        BY <1>5, <2>1, <3>2, <4>1
      <4> QED
        BY <1>1, <2>2, <3>1, <4>2 DEF Posted
    <3>4. y.phase \notin First
      BY <2>4, InformedNames
    <3>5. InTurn(klippy', exec', wires'.status.gen, wires'.script.ran)
      BY <1>1, <1>7, <2>1, <2>4, <3>1, <3>2, <3>4 DEF InTurn
    <3>6. Ready(klippy', printer', verified')
      BY <3>1 DEF Ready
    <3>7. Fresh(exec', wires'.status.snap, printer', verified')
      <4>1. exec'.phase \in Checks => wires'.status.snap = {}
        BY <1>1, <3>2
      <4> QED
        BY <4>1 DEF Fresh
    <3>8. AtBoundary(exec', wires'.script.ran, printer')
      <4>1. y.phase # "seeking" /\ y.phase # "restoring_modal_state"
        BY <2>4, InformedNames
      <4> QED
        BY <1>1, <1>7, <2>1, <4>1 DEF AtBoundary
    <3> QED
      BY <3>3, <3>5, <3>6, <3>7, <3>8 DEF Informed
  <2> QED
    BY <2>3, <2>4
<1> QED
  BY <1>6, <1>7

\* Klipper's next script runs or fails: the others move up.
LEMMA TakenUp ==
    ASSUME TypeOK, klippy # <<>>, klippy' = Tail(klippy)
    PROVE  /\ Len(klippy) \in Nat /\ Len(klippy) > 0 /\ Len(klippy') = Len(klippy) - 1
           /\ Head(klippy) = klippy[1] /\ klippy[1] \in Entries
           /\ \A i \in 1..Len(klippy') : /\ klippy'[i] = klippy[i + 1]
                                         /\ i + 1 \in 1..Len(klippy) /\ i + 1 # 1
<1>1. klippy \in Seq(Entries)
  BY DEF TypeOK
<1>2. /\ Len(klippy) \in Nat \ {0}
      /\ Head(klippy) = klippy[1] /\ klippy[1] \in Entries
  BY <1>1, EmptySeq, LenProperties, ElementOfSeq
<1>3. /\ Len(Tail(klippy)) = Len(klippy) - 1
      /\ \A i \in 1..Len(Tail(klippy)) : Tail(klippy)[i] = klippy[i + 1]
  BY <1>1, HeadTailProperties
<1>4. \A i \in 1..Len(klippy') : i + 1 \in 1..Len(klippy) /\ i + 1 # 1
  BY <1>2, <1>3
<1> QED
  BY <1>2, <1>3, <1>4

LEMMA MachineInformed ==
    ASSUME TypeOK, OneErrand, Undisturbed, Informed, RunScript \/ FailScript
    PROVE  Informed'
<1> DEFINE e == klippy[1]
<1>1. /\ Len(klippy) \in Nat /\ Len(klippy) > 0 /\ Len(klippy') = Len(klippy) - 1
      /\ Head(klippy) = e /\ e \in Entries
      /\ \A i \in 1..Len(klippy') : /\ klippy'[i] = klippy[i + 1]
                                    /\ i + 1 \in 1..Len(klippy) /\ i + 1 # 1
  BY TakenUp DEF RunScript, FailScript
<1>2. /\ exec' = exec /\ ctl' = ctl /\ worker' = worker /\ verified' = verified
      /\ wires \in Lanes /\ wires.script \in Posts /\ wires.status \in Queries
  BY DEF RunScript, FailScript, TypeOK, Lanes
<1>3. exec.active => exec.gen > 0
  BY DEF OneErrand, Errands
<1> DEFINE mine == /\ wires.script.gen = e.gen /\ wires.script.stage = e.stage
                   /\ wires.script.ran = "waiting"
<1>4. /\ wires'.status = wires.status /\ wires'.identity = wires.identity
      /\ \/ mine /\ wires'.script.ran \in {"ran", "failed"}
         \/ ~mine /\ wires'.script.ran = wires.script.ran
      /\ FailScript => (mine /\ wires'.script.ran = "failed") \/ ~mine
  BY <1>1, <1>2 DEF RunScript, FailScript, Answers, Lanes, Posts
<1>5. exec.active /\ exec.phase \in Scripts =>
         wires.script.gen = exec.gen /\ wires.script.stage = exec.phase
  BY DEF Undisturbed, Waiting
\* The attempt has a script with Klipper, or it has yet to post its first.
<1>6. ASSUME exec.active
      PROVE  \/ exec.phase = "checking"
             \/ /\ exec.phase \in Scripts /\ wires.script.ran = "waiting"
                /\ klippy[Len(klippy)].gen = exec.gen
                /\ klippy[Len(klippy)].stage = exec.phase
                /\ \A i \in 1..Len(klippy) : i # Len(klippy) => klippy[i].gen # exec.gen
                /\ exec.phase \notin First => Len(klippy) = 1
  BY <1>1, <1>6 DEF Informed, InTurn
<1>7. ASSUME exec.active, exec.phase \in Scripts, exec.phase \notin First
      PROVE  e.stage = exec.phase /\ mine /\ e.gen = exec.gen
  BY <1>5, <1>6, <1>7, InformedNames
<1> HIDE DEF e, mine
<1>8. Posted(klippy', wires'.status.gen, worker', ctl'.gen, wires'.identity)
  <2>1. \A i \in 1..Len(klippy') : 0 < klippy'[i].gen /\ klippy'[i].gen <= ctl.gen
    BY <1>1 DEF Informed, Posted
  <2>2. \A g : Unposted(klippy, g) => Unposted(klippy', g)
    BY <1>1 DEF Unposted
  <2> QED
    BY <1>2, <1>4, <2>1, <2>2 DEF Informed, Posted
<1>9. InTurn(klippy', exec', wires'.status.gen, wires'.script.ran)
  <2> SUFFICES ASSUME exec.active
               PROVE  InTurn(klippy', exec', wires'.status.gen, wires'.script.ran)
    BY <1>2 DEF InTurn
  <2>1. exec.phase \notin Checks => wires'.status.gen # exec.gen
    BY <1>4 DEF Informed, InTurn
  <2>2. CASE exec.phase = "checking"
    BY <1>2, <2>1, <2>2, InformedNames DEF InTurn
  <2>3. CASE exec.phase \in Scripts /\ Len(klippy) = 1
    <3>1. mine
      BY <1>5, <1>6, <2>3, InformedNames DEF e, mine
    <3>2. Len(klippy') = 0 /\ wires'.script.ran # "waiting"
      BY <1>1, <1>4, <2>3, <3>1
    <3> QED
      BY <1>2, <2>1, <2>3, <3>2, StageNames DEF InTurn
  <2>4. CASE exec.phase \in Scripts /\ Len(klippy) # 1
    <3>1. /\ wires.script.ran = "waiting" /\ exec.phase \in First
          /\ klippy[Len(klippy)].gen = exec.gen
          /\ klippy[Len(klippy)].stage = exec.phase
          /\ \A i \in 1..Len(klippy) : i # Len(klippy) => klippy[i].gen # exec.gen
      BY <1>6, <2>4, InformedNames
    <3>2. 1 \in 1..Len(klippy) /\ 1 # Len(klippy)
      BY <1>1, <2>4
    <3>3. e.gen # exec.gen
      BY <3>1, <3>2 DEF e
    <3>4. wires'.script.ran = "waiting"
      BY <1>4, <1>5, <2>4, <3>1, <3>3 DEF mine
    <3>5. Len(klippy') > 0 /\ Len(klippy') + 1 = Len(klippy) /\ Len(klippy') \in 1..Len(klippy')
      BY <1>1, <2>4
    <3>6. klippy'[Len(klippy')] = klippy[Len(klippy)]
      BY <1>1, <3>5
    <3>7. \A i \in 1..Len(klippy') : i # Len(klippy') => i + 1 # Len(klippy)
      BY <1>1
    <3>8. \A i \in 1..Len(klippy') : i # Len(klippy') => klippy'[i].gen # exec.gen
      BY <1>1, <3>1, <3>7
    <3> QED
      BY <1>2, <2>1, <2>4, <3>1, <3>4, <3>5, <3>6, <3>8 DEF InTurn
  <2> QED
    BY <1>6, <2>2, <2>3, <2>4
<1>10. Ready(klippy', printer', verified')
  <2>1. \A i \in 1..Len(klippy') : klippy'[i].gen = verified => klippy'[i].stage \notin Moving
    BY <1>1 DEF Informed, Ready
  <2> QED
    BY <1>2, <2>1, InformedNames DEF Ready, Fit
<1>11. Fresh(exec', wires'.status.snap, printer', verified')
  <2>1. ~(exec.active /\ exec.phase \in Checks \ {"checking"})
    BY <1>6, InformedNames
  <2> QED
    BY <1>2, <2>1 DEF Fresh
<1>12. AtBoundary(exec', wires'.script.ran, printer')
  <2> SUFFICES ASSUME exec.active, exec.phase \in Sought \cup {"seeking"}
               PROVE  AtBoundary(exec', wires'.script.ran, printer')
    BY <1>2, InformedNames DEF AtBoundary, Sought
  <2>1. /\ exec.phase \in {"seeking", "restoring_modal_state", "finishing_pause"}
        /\ exec.phase \in Scripts /\ exec.phase \notin First
    BY <1>6, InformedNames DEF Sought, Restored, Scripts, First, Checks
  <2>2. e.stage = exec.phase
    BY <1>7, <2>1
  <2>3. printer \in Printers
    BY DEF TypeOK
  <2>4. CASE FailScript /\ ~RunScript
    <3>1. printer' = printer
      BY <2>4 DEF FailScript
    <3>2. wires'.script.ran # "ran"
      BY <1>4, <1>7, <2>1, <2>4
    <3> QED
      BY <1>2, <3>1, <3>2 DEF Informed, AtBoundary
  <2>5. CASE RunScript
    <3>1. Runs(printer, e) /\ printer' = Effect(printer, e)
      BY <1>1, <2>5 DEF RunScript
    <3>2. CASE exec.phase = "seeking"
      <4>1. printer.state # "printing" /\ printer' = [printer EXCEPT !.pos = 1]
        BY <2>2, <3>1, <3>2 DEF Runs, Effect
      <4>2. printer'.pos = 1 /\ printer'.state # "printing"
        BY <2>3, <4>1 DEF Printers
      <4> QED
        BY <1>2, <3>2, <4>2 DEF AtBoundary, Restored
    <3>3. CASE exec.phase = "restoring_modal_state"
      <4>1. printer' = [printer EXCEPT !.modal = TRUE]
        BY <2>2, <3>1, <3>3 DEF Effect
      <4>2. /\ printer'.pos = printer.pos /\ printer'.state = printer.state
            /\ printer'.at = printer.at /\ printer'.modal
        BY <2>3, <4>1 DEF Printers
      <4> QED
        BY <1>2, <3>3, <4>2 DEF Informed, AtBoundary, Sought
    <3>4. CASE exec.phase = "finishing_pause"
      <4>1. printer' = printer
        BY <2>2, <3>1, <3>4 DEF Effect
      <4> QED
        BY <1>2, <3>4, <4>1 DEF Informed, AtBoundary
    <3> QED
      BY <2>1, <3>2, <3>3, <3>4
  <2> QED
    BY <2>4, <2>5
<1> QED
  BY <1>8, <1>9, <1>10, <1>11, <1>12 DEF Informed

LEMMA InformedKept ==
    ASSUME TypeOK, OneErrand, OneErrand', PanelShowsTheAttempt, Sound(exec), Undisturbed,
           Informed, [Next]_vars
    PROVE  Informed'
<1>1. /\ exec \in Attempts /\ ctl \in Controllers /\ wires \in Lanes
      /\ worker \in Seq(Tasks) /\ klippy \in Seq(Entries) /\ printer \in Printers
      /\ ctl.gen \in Nat /\ wires.status \in Queries /\ wires.script \in Posts
      /\ wires.status.gen \in Nat /\ exec.gen \in Nat
  BY DEF TypeOK, Controllers, Lanes, Queries, Attempts
<1>2. /\ Posted(klippy, wires.status.gen, worker, ctl.gen, wires.identity)
      /\ InTurn(klippy, exec, wires.status.gen, wires.script.ran)
      /\ Ready(klippy, printer, verified)
      /\ Fresh(exec, wires.status.snap, printer, verified)
      /\ AtBoundary(exec, wires.script.ran, printer)
  BY DEF Informed
<1>3. exec.active => exec.gen > 0 /\ exec.gen = ctl.gen
  BY DEF OneErrand, Errands
<1>4. Waiting(exec, worker, ctl, wires.status, wires.script)
  BY DEF Undisturbed
<1>5. \A i \in 1..Len(klippy) : klippy[i].gen \in Nat
  <2>1. \A i \in 1..Len(klippy) : klippy[i] \in Entries
    BY <1>1, ElementOfSeq
  <2> QED
    BY <2>1 DEF Entries
<1>6. Unposted(klippy, 0)
  BY <1>2, <1>5 DEF Posted, Unposted
\* Nobody has posted or asked for a generation that is yet to come.
<1>7. Unposted(klippy, ctl.gen + 1) /\ wires.status.gen # ctl.gen + 1
  BY <1>1, <1>2, <1>5 DEF Posted, Unposted
<1>8. ASSUME NEW of \in {0, wires.status.gen}, NEW J, NEW identity,
             NEW g \in {ctl.gen, ctl.gen + 1},
             g = ctl.gen /\ Outstanding(J, g, identity)
                => Outstanding(worker, ctl.gen, wires.identity)
      PROVE  Posted(klippy, of, J, g, identity)
  <2>1. \A i \in 1..Len(klippy) : 0 < klippy[i].gen /\ klippy[i].gen <= g
    BY <1>1, <1>2, <1>5 DEF Posted
  <2>2. of <= g /\ Unposted(klippy, of) /\ (wires.status.gen # g => of # g \/ g = 0)
    BY <1>1, <1>2, <1>6 DEF Posted
  <2>3. g > 0 /\ Outstanding(J, g, identity) => Unposted(klippy, g) /\ wires.status.gen # g
    BY <1>2, <1>7, <1>8 DEF Posted
  <2> QED
    BY <1>1, <2>1, <2>2, <2>3 DEF Posted
\* The attempt goes on as it was, or ends; the printer and Klipper are left alone.
<1>9. ASSUME UNCHANGED <<klippy, printer, verified>>,
             exec'.active => /\ exec.active /\ exec'.gen = exec.gen
                             /\ exec'.phase = exec.phase
                             /\ wires'.script.ran = wires.script.ran
                             /\ exec.phase \in Checks => wires'.status = wires.status,
             wires'.status.gen \in {0, wires.status.gen},
             ctl'.gen \in {ctl.gen, ctl.gen + 1},
             ctl'.gen = ctl.gen /\ Outstanding(worker', ctl'.gen, wires'.identity)
                => Outstanding(worker, ctl.gen, wires.identity)
      PROVE  Informed'
  <2>1. Posted(klippy', wires'.status.gen, worker', ctl'.gen, wires'.identity)
    BY <1>8, <1>9
  <2>2. InTurn(klippy', exec', wires'.status.gen, wires'.script.ran)
    BY <1>2, <1>3, <1>9 DEF InTurn
  <2>3. Ready(klippy', printer', verified')
    BY <1>2, <1>9
  <2>4. Fresh(exec', wires'.status.snap, printer', verified')
    BY <1>2, <1>9 DEF Fresh
  <2>5. AtBoundary(exec', wires'.script.ran, printer')
    BY <1>2, <1>9 DEF AtBoundary
  <2> QED
    BY <2>1, <2>2, <2>3, <2>4, <2>5 DEF Informed
<1>10. ASSUME UNCHANGED <<klippy, printer, verified, exec, worker>>, ctl'.gen = ctl.gen,
              wires'.identity \in {0, wires.identity}, wires'.status = wires.status,
              wires'.script = wires.script
       PROVE  Informed'
  <2>1. ctl.gen > 0 /\ Outstanding(worker', ctl'.gen, wires'.identity)
           => Outstanding(worker, ctl.gen, wires.identity)
    BY <1>10 DEF Outstanding
  <2>2. CASE ctl.gen > 0
    BY <1>9, <1>10, <2>1, <2>2
  <2>3. CASE ctl.gen = 0
    <3>1. Posted(klippy', wires'.status.gen, worker', ctl'.gen, wires'.identity)
      BY <1>2, <1>10, <2>3 DEF Posted
    <3> QED
      BY <1>2, <1>10, <3>1 DEF Informed
  <2> QED
    BY <1>1, <2>2, <2>3
<1>11. ASSUME Invalidate, UNCHANGED <<klippy, printer, verified, worker>>,
              wires'.status.gen \in {0, wires.status.gen}
       PROVE  Informed'
  <2>1. ~exec'.active /\ ctl'.gen = ctl.gen + 1
    BY <1>11, InvalidateErrands
  <2>2. ctl'.gen # ctl.gen
    BY <1>1, <2>1
  <2> QED
    BY <1>9, <1>11, <2>1, <2>2
<1>12. CASE Plan \/ Start
  <2>1. /\ UNCHANGED <<klippy, printer, verified, exec, wires>>
        /\ (ctl'.gen = ctl.gen /\ worker' = worker) \/ ctl'.gen = ctl.gen + 1
    <3>1. CASE Plan
      BY <1>1, <3>1 DEF Plan, Phase, Printing, Controllers
    <3>2. CASE Start
      BY <1>1, <3>2 DEF Start, Printing, Controllers
    <3> QED
      BY <1>12, <3>1, <3>2
  <2>2. ctl'.gen = ctl.gen + 1 => ctl'.gen # ctl.gen
    BY <1>1
  <2> QED
    BY <1>9, <1>10, <2>1, <2>2
<1>13. CASE Cancel
  <2>1. UNCHANGED <<klippy, printer, verified, wires, worker>>
    BY <1>13 DEF Cancel, Printing
  <2>2. exec'.active => /\ exec.active /\ exec'.gen = exec.gen /\ exec'.phase = exec.phase
    BY <1>1, <1>13 DEF Cancel, CancelAsked, Attempts
  <2>3. ctl'.gen \in {ctl.gen, ctl.gen + 1}
    BY <1>1, <1>13 DEF Cancel, Phase, Controllers
  <2> QED
    BY <1>9, <2>1, <2>2, <2>3
\* A job is delivered.
<1>14. ASSUME NEW i \in Delivered
       PROVE  /\ Outstanding(Without(i), ctl.gen, wires.identity)
                    => Outstanding(worker, ctl.gen, wires.identity)
              /\ Errand(worker, ctl.gen, i) => Outstanding(worker, ctl.gen, wires.identity)
  <2>1. /\ i \in 1..Len(worker) /\ Len(Without(i)) = Len(worker) - 1
        /\ Len(worker) \in Nat
        /\ \A k \in 1..Len(Without(i)) : Without(i)[k] = worker[k + 1]
    BY Popped
  <2>2. \A k \in 1..Len(Without(i)) : k + 1 \in 1..Len(worker)
    BY <2>1
  <2> QED
    BY <2>1, <2>2 DEF Outstanding, Errand
<1>15. ASSUME NEW i \in Delivered, PlanDone(i) PROVE Informed'
  <2>1. /\ UNCHANGED <<klippy, printer, verified, exec>> /\ worker' = Without(i)
        /\ ctl'.gen = ctl.gen /\ wires'.identity = wires.identity
        /\ wires'.status = wires.status /\ wires'.script = wires.script
    BY <1>1, <1>15 DEF PlanDone, Printing, Controllers, Lanes
  <2> QED
    BY <1>9, <1>14, <2>1
<1>16. ASSUME NEW i \in Delivered, VerificationDone(i) PROVE Informed'
  <2>1. /\ UNCHANGED <<klippy, printer, verified, exec>> /\ worker' = Without(i)
        /\ ctl'.gen = ctl.gen
        /\ wires'.status = wires.status /\ wires'.script = wires.script
        /\ wires'.identity = wires.identity \/ worker[i].gen = ctl.gen
    BY <1>1, <1>16 DEF VerificationDone, Phase, Printing, Controllers, Lanes
  <2>2. worker[i].gen = ctl.gen => Errand(worker, ctl.gen, i)
    BY <1>16 DEF VerificationDone, Errand
  <2> QED
    BY <1>9, <1>14, <2>1, <2>2
<1>17. CASE ProfileReply
  <2>1. /\ UNCHANGED <<klippy, printer, verified, exec, worker>>
        /\ ctl'.gen = ctl.gen /\ wires'.identity = wires.identity
        /\ wires'.status = wires.status /\ wires'.script = wires.script
    BY <1>1, <1>17 DEF ProfileReply, Phase, Printing, Controllers, Lanes
  <2> QED
    BY <1>10, <2>1
<1>18. CASE IdentityReply
  <2> DEFINE W == [wires EXCEPT !.identity = 0]
  <2>1. /\ W \in Lanes /\ W.identity = 0 /\ W.status = wires.status
        /\ W.script = wires.script
    BY <1>1 DEF Lanes
  <2> HIDE DEF W
  <2>2. UNCHANGED <<printer, verified>>
    BY <1>18 DEF IdentityReply
  <2>3. CASE wires' = W /\ UNCHANGED <<ctl, exec, klippy, worker>>
    BY <1>10, <2>1, <2>2, <2>3
  <2>4. CASE wires' = W /\ Phase("refused") /\ UNCHANGED <<exec, klippy, worker>>
    <3>1. ctl'.gen = ctl.gen
      BY <1>1, <2>4 DEF Phase, Controllers
    <3> QED
      BY <1>10, <2>1, <2>2, <2>4, <3>1
  <2>5. CASE wires.identity = ctl.gen /\ Carry(Begun(ctl.gen), W, worker, ctl)
    <3>1. ctl.gen > 0
      BY <1>1, <1>18, <2>5 DEF IdentityReply
    <3>2. Unposted(klippy, ctl.gen) /\ wires.status.gen # ctl.gen
      BY <1>2, <2>5, <3>1 DEF Posted, Outstanding
    <3>3. /\ Begun(ctl.gen) \in Attempts /\ Begun(ctl.gen).gen = ctl.gen
          /\ Begun(ctl.gen).phase = "checking"
      BY <1>1, BegunType DEF Begun
    <3>4. Posted(klippy, W.status.gen, worker, ctl.gen, W.identity)
      BY <1>2, <2>1, <2>5, <3>2 DEF Posted
    <3>5. Fit(printer, "checking")
      BY DEF Fit, Moving
    <3>6. "checking" \notin Sought /\ "checking" \notin Restored
      BY InformedNames
    <3> QED
      BY <1>1, <1>2, <2>1, <2>2, <2>5, <3>1, <3>2, <3>3, <3>4, <3>5, <3>6, CarryInformed
  <2> QED
    BY <1>18, <2>3, <2>4, <2>5 DEF IdentityReply, W
<1>19. CASE Sample
  <2>1. /\ UNCHANGED <<klippy, printer, exec, worker, ctl>> /\ verified' = wires.status.gen
        /\ wires'.status.gen = wires.status.gen /\ wires'.status.snap = {printer}
        /\ wires'.script = wires.script /\ wires'.identity = wires.identity
    BY <1>1, <1>19 DEF Sample, Lanes, Queries
  <2>2. Ready(klippy', printer', verified')
    BY <1>2, <2>1 DEF Ready, Posted, Unposted
  <2>3. Fresh(exec', wires'.status.snap, printer', verified')
    BY <2>1 DEF Fresh
  <2> QED
    BY <1>2, <2>1, <2>2, <2>3 DEF Informed
\* An answer ends the attempt.
<1>20. ASSUME NEW o \in Outcomes, NEW W \in Lanes, W.identity = wires.identity,
              W.status.gen \in {0, wires.status.gen},
              NEW J \in Seq(Tasks), NEW C \in Controllers, C.gen = ctl.gen,
              Outstanding(J, ctl.gen, wires.identity)
                 => Outstanding(worker, ctl.gen, wires.identity),
              UNCHANGED <<printer, verified>>, Carry(Finished(exec, o), W, J, C)
       PROVE  Informed'
  <2>1. Finished(exec, o) \in Attempts /\ ~Finished(exec, o).active
    BY <1>1, FinishedType
  <2>2. Posted(klippy, W.status.gen, J, C.gen, W.identity)
    BY <1>8, <1>20
  <2> QED
    BY <1>2, <1>20, <2>1, <2>2, CarryInformed
\* Everything the attempt has sent was answered, and it goes on to a check or to
\* the next script of the pause.
<1>21. ASSUME exec.active, Len(klippy) = 0, NEW stage \in Stages,
              NEW W \in Lanes, W.identity = wires.identity, W.status = wires.status,
              NEW J \in Seq(Tasks), NEW C \in Controllers, C.gen = ctl.gen,
              Outstanding(J, ctl.gen, wires.identity)
                 => Outstanding(worker, ctl.gen, wires.identity),
              UNCHANGED <<printer, verified>>, Carry(Entered(exec, stage), W, J, C),
              exec.phase \notin Checks, stage \notin Moving,
              stage \in Sought /\ printer.at = "staged"
                 => printer.pos = 1 /\ printer.state # "printing",
              stage \in Restored /\ printer.at = "staged" => printer.modal
       PROVE  Informed'
  <2> DEFINE x == Entered(exec, stage)
  <2>1. x \in Attempts
    BY <1>1, EnteredType
  <2>2. x.active => x.gen = exec.gen /\ x.phase = stage
    <3>1. CASE exec.cancelled
      BY <1>1, <3>1, FinishedType DEF Entered, Outcomes
    <3>2. CASE ~exec.cancelled
      BY <1>1, <2>1, <3>2 DEF Entered, Attempts
    <3> QED
      BY <3>1, <3>2
  <2> HIDE DEF x
  <2>3. Posted(klippy, W.status.gen, J, C.gen, W.identity)
    BY <1>8, <1>21
  <2>4. W.status.gen # exec.gen
    BY <1>2, <1>21 DEF InTurn
  <2>5. Unposted(klippy, exec.gen)
    BY <1>21 DEF Unposted
  <2>6. Fit(printer, stage)
    BY <1>21, InformedNames DEF Fit
  <2>7. Carry(x, W, J, C)
    BY <1>21 DEF x
  <2> QED
    BY <1>2, <1>3, <1>21, <2>1, <2>2, <2>3, <2>4, <2>5, <2>6, <2>7, CarryInformed
<1>22. CASE StatusReply
  <2> DEFINE W == [wires EXCEPT !.status = NoQuery]
  <2>1. /\ W \in Lanes /\ W.identity = wires.identity /\ W.status.gen = 0
        /\ W.script = wires.script
    <3>1. NoQuery \in Queries /\ NoQuery.gen = 0
      BY DEF NoQuery, Queries, Checks
    <3> QED
      BY <1>1, <3>1 DEF Lanes
  <2> HIDE DEF W
  <2>2. UNCHANGED <<printer, verified>>
    BY <1>22 DEF StatusReply
  <2>3. CASE /\ ~Mine(wires.status.gen, wires.status.stage)
             /\ wires' = W /\ UNCHANGED <<ctl, exec, klippy, worker>>
    <3>1. ~(exec.active /\ exec.phase \in Checks)
      BY <1>4, <2>3 DEF Waiting, Mine
    <3> QED
      BY <1>9, <2>1, <2>2, <2>3, <3>1
  <2>4. CASE Carry(Finished(exec, "uncertain"), W, worker, ctl)
    BY <1>1, <1>20, <2>1, <2>2, <2>4 DEF Outcomes
  <2>5. ASSUME Mine(wires.status.gen, wires.status.stage),
               NEW s \in wires.status.snap, NEW fit \in BOOLEAN,
               Carry(Judged(exec, s, fit, ctl.profile), W, worker, ctl)
        PROVE  Informed'
    <3> DEFINE x == Judged(exec, s, fit, ctl.profile)
    <3>1. /\ s \in Printers /\ exec.active /\ exec.phase \in Checks
          /\ wires.status.gen = exec.gen
      BY <1>1, <2>5 DEF Mine, Queries
    <3>2. x \in Attempts
      BY <1>1, <3>1, JudgedType
    <3>3. x.active =>
             /\ x.gen = exec.gen
             /\ x.phase \in Scripts \cup {"rechecking_source"}
             /\ exec.phase = "checking" => x.phase \in First
             /\ x.phase \in Moving => s.state # "printing" /\ s.mine /\ s.hot
             /\ x.phase = "resuming" =>
                   /\ exec.phase \in Restored /\ s.at = "staged"
                   /\ exec.phase = "checking_modal_state" => s.modal
             /\ x.phase \in Sought => exec.phase \in Sought
             /\ x.phase \in Restored => exec.phase \in Restored
      BY <1>1, <3>1, JudgedOnward
    <3> HIDE DEF x
    <3>4. Unposted(klippy, exec.gen)
      BY <1>2, <3>1 DEF Posted
    <3>5. exec.phase # "checking" => Len(klippy) = 0
      BY <1>2, <3>1, StageNames DEF InTurn
    <3>6. ASSUME x.active, x.gen = verified PROVE Fit(printer, x.phase)
      <4>1. CASE x.phase \notin Moving
        BY <4>1, InformedNames DEF Fit
      <4>2. CASE x.phase \in Moving
        <5>1. exec.phase # "checking"
          BY <3>3, <3>6, <4>2, InformedNames
        <5>2. printer = s
          BY <1>2, <3>1, <3>3, <3>6, <4>2, <5>1 DEF Fresh
        <5>3. x.phase = "resuming" => s.pos = 1 /\ s.modal
          BY <1>2, <3>1, <3>3, <3>6, <5>2, InformedNames DEF AtBoundary
        <5> QED
          BY <3>3, <3>6, <4>2, <5>2, <5>3 DEF Fit
      <4> QED
        BY <4>1, <4>2
    <3>7. x.active =>
             /\ x.phase \notin First \cup {"checking"} => Len(klippy) = 0
             /\ x.phase \in Sought /\ printer.at = "staged"
                   => printer.pos = 1 /\ printer.state # "printing"
             /\ x.phase \in Restored /\ printer.at = "staged" => printer.modal
      BY <1>2, <3>1, <3>3, <3>5 DEF AtBoundary
    <3>8. Posted(klippy, W.status.gen, worker, ctl.gen, W.identity)
      BY <1>8, <2>1
    <3>9. Carry(x, W, worker, ctl)
      BY <2>5 DEF x
    <3> QED
      BY <1>1, <1>2, <1>3, <2>1, <2>2, <3>1, <3>2, <3>3, <3>4, <3>6, <3>7, <3>8, <3>9,
         CarryInformed
  <2> QED
    BY <1>22, <2>3, <2>4, <2>5 DEF StatusReply, W
<1>23. CASE ScriptReply
  <2> DEFINE W == [wires EXCEPT !.script = NoPost]
  <2>1. /\ W \in Lanes /\ W.identity = wires.identity /\ W.status = wires.status
    <3>1. NoPost \in Posts
      BY DEF NoPost, Posts, Scripts
    <3> QED
      BY <1>1, <3>1 DEF Lanes
  <2> HIDE DEF W
  <2>2. UNCHANGED <<printer, verified>>
    BY <1>23 DEF ScriptReply
  <2>3. CASE /\ ~Mine(wires.script.gen, wires.script.stage)
             /\ wires' = W /\ UNCHANGED <<ctl, exec, klippy, worker>>
    <3>1. ~(exec.active /\ exec.phase \in Scripts)
      BY <1>4, <2>3 DEF Waiting, Mine
    <3>2. /\ InTurn(klippy, exec, wires.status.gen, W.script.ran)
          /\ AtBoundary(exec, W.script.ran, printer)
      <4>1. exec.active => exec.phase \notin {"seeking", "restoring_modal_state"}
        BY <3>1, InformedNames
      <4>2. InTurn(klippy, exec, wires.status.gen, W.script.ran)
        BY <1>2, <3>1 DEF InTurn
      <4> QED
        BY <1>2, <4>1, <4>2 DEF AtBoundary
    <3> QED
      BY <1>2, <2>1, <2>2, <2>3, <3>2 DEF Informed
  <2>4. CASE Carry(Finished(exec, "uncertain"), W, worker, ctl)
    BY <1>1, <1>20, <2>1, <2>2, <2>4 DEF Outcomes
  <2>5. CASE /\ Mine(wires.script.gen, wires.script.stage)
             /\ wires.script.ran = "ran"
             /\ Carry(Entered(exec, AfterScript[exec.phase]), W, worker, ctl)
    <3> DEFINE stage == AfterScript[exec.phase]
    <3>1. exec.active /\ exec.phase \in Scripts
      BY <1>1, <2>5 DEF Mine, Posts
    <3>2. /\ stage \in Stages /\ stage \notin Moving
          /\ stage \in Sought => exec.phase = "seeking" \/ exec.phase \in Sought
          /\ stage \in Restored =>
                exec.phase = "restoring_modal_state" \/ exec.phase \in Restored
      BY <3>1, AfterScriptType DEF AfterScript, Scripts, Moving, Sought, Restored
    <3>3. /\ stage \in Sought /\ printer.at = "staged"
                => printer.pos = 1 /\ printer.state # "printing"
          /\ stage \in Restored /\ printer.at = "staged" => printer.modal
      BY <1>2, <2>5, <3>1, <3>2 DEF AtBoundary
    <3>4. Len(klippy) = 0 /\ exec.phase \notin Checks
      BY <1>2, <2>5, <3>1, StageNames DEF InTurn
    <3>5. Carry(Entered(exec, stage), W, worker, ctl)
      BY <2>5
    <3> HIDE DEF stage
    <3> QED
      BY <1>1, <1>21, <2>1, <2>2, <3>1, <3>2, <3>3, <3>4, <3>5
  <2> QED
    BY <1>23, <2>3, <2>4, <2>5 DEF ScriptReply, W
<1>24. ASSUME NEW i \in Delivered, ReplanDone(i) PROVE Informed'
  <2> DEFINE C == [ctl EXCEPT !.replan = 0]
  <2>1. C \in Controllers /\ C.gen = ctl.gen
    BY <1>1 DEF Controllers
  <2> HIDE DEF C
  <2>2. Without(i) \in Seq(Tasks) /\ UNCHANGED <<printer, verified>>
    BY <1>24, WithoutType DEF ReplanDone
  <2>3. CASE ctl' = C /\ worker' = Without(i) /\ UNCHANGED <<exec, wires, klippy>>
    BY <1>9, <1>14, <2>1, <2>2, <2>3
  <2>4. CASE Carry(Finished(exec, "refused"), wires, Without(i), C)
    BY <1>1, <1>14, <1>20, <2>1, <2>2, <2>4 DEF Outcomes
  <2>5. CASE /\ Mine(ctl.replan, "rechecking_source")
             /\ Carry(Entered(exec, "checking_after_pause"), wires, Without(i), C)
    <3>1. exec.active /\ exec.phase = "rechecking_source"
      BY <2>5 DEF Mine
    <3>2. Len(klippy) = 0 /\ exec.phase \notin Checks
      BY <1>2, <3>1, StageNames DEF InTurn, Checks
    <3>3. /\ "checking_after_pause" \in Stages
          /\ "checking_after_pause" \notin Moving \cup Sought \cup Restored
      BY DEF Stages, Checks, Moving, Sought, Restored
    <3> QED
      BY <1>1, <1>14, <1>21, <2>1, <2>2, <2>5, <3>1, <3>2, <3>3
  <2> QED
    BY <1>24, <2>3, <2>4, <2>5 DEF ReplanDone, C
<1>25. CASE Frame
  BY <1>10, <1>11, <1>25 DEF Frame, Printing
<1>26. CASE SessionLost
  <2>1. wires'.status.gen \in {0, wires.status.gen}
    BY <1>26 DEF SessionLost, FreeLanes, NoQuery
  <2> QED
    BY <1>11, <1>26, <2>1 DEF SessionLost, Printing
<1>27. CASE SelectFile
  BY <1>11, <1>27 DEF SelectFile, Printing
<1>28. CASE RunScript \/ FailScript
  BY <1>28, MachineInformed
<1>29. CASE PrintOn
  <2>1. /\ UNCHANGED <<klippy, exec, ctl, wires, worker, verified>>
        /\ printer.state = "printing" /\ printer'.at = printer.at
    BY <1>1, <1>29 DEF PrintOn, Printers
  <2>2. Ready(klippy', printer', verified')
    BY <1>2, <2>1, InformedNames DEF Ready, Fit
  <2>3. Fresh(exec', wires'.status.snap, printer', verified')
    BY <1>2, <2>1 DEF Fresh
  <2>4. AtBoundary(exec', wires'.script.ran, printer')
    BY <1>2, <2>1, InformedNames DEF AtBoundary, Sought
  <2> QED
    BY <1>2, <2>1, <2>2, <2>3, <2>4 DEF Informed
<1>30. CASE Meddle
  <2>1. /\ UNCHANGED <<klippy, exec, ctl, wires, worker>> /\ verified' = 0
    BY <1>30 DEF Meddle
  <2>2. printer'.at = "staged" =>
           /\ printer.at = "staged" /\ printer'.pos = printer.pos
           /\ printer'.modal = printer.modal
           /\ printer'.state = "printing" => printer.state = "printing"
    BY <1>1, <1>30 DEF Meddle, Printers
  <2>3. Ready(klippy', printer', verified')
    BY <1>6, <2>1 DEF Ready, Unposted
  <2>4. Fresh(exec', wires'.status.snap, printer', verified')
    BY <1>3, <2>1 DEF Fresh
  <2>5. AtBoundary(exec', wires'.script.ran, printer')
    BY <1>2, <2>1, <2>2 DEF AtBoundary
  <2> QED
    BY <1>2, <2>1, <2>3, <2>4, <2>5 DEF Informed
<1>31. CASE UNCHANGED vars
  BY <1>2, <1>31 DEF vars, Informed
<1> QED
  BY <1>12, <1>13, <1>15, <1>16, <1>17, <1>18, <1>19, <1>22, <1>23, <1>24, <1>25, <1>26, <1>27,
     <1>28, <1>29, <1>30, <1>31
     DEF Next, Owner, Answer, Outside, Machine, ExecutorDone

-----------------------------------------------------------------------------
(* The inductive invariant, and what follows from it.                      *)

RInv == /\ TypeOK /\ Sound(exec) /\ OneErrand /\ PanelShowsTheAttempt /\ RanIsKnown
        /\ Undisturbed /\ Informed

LEMMA RInvInit == Init => RInv
<1> SUFFICES ASSUME Init PROVE RInv
  OBVIOUS
<1>1. TypeOK
  BY InitType
<1>2. /\ ~exec.active /\ exec.active = FALSE /\ exec.phase = "idle" /\ exec.gen = 0
  BY DEF Init, NoAttempt
<1>3. Sound(exec)
  BY <1>2, StageNames DEF Sound
<1>4. OneErrand
  <2>1. ctl.gen = 0 /\ wires.identity = 0 /\ wires.profile = 0 /\ worker = <<>>
    BY DEF Init, FreeLanes
  <2>2. Len(worker) = 0
    BY <2>1
  <2> QED
    BY <1>2, <2>1, <2>2 DEF OneErrand, Errands
<1>5. PanelShowsTheAttempt
  <2>1. ctl.phase = "idle"
    BY DEF Init
  <2> QED
    BY <1>2, <2>1, StageNames DEF PanelShowsTheAttempt, Stages, Checks, Scripts
<1>6. RanIsKnown
  BY <1>2 DEF RanIsKnown, Init, FreeLanes, NoPost
<1>7. Undisturbed
  <2>1. worker = <<>> /\ Len(worker) = 0
    BY DEF Init
  <2>2. Unhindered(worker, ctl.gen, ctl.phase, exec.active, exec.phase, wires.identity,
                   wires.profile)
    BY <2>1, Clear DEF NoReplan
  <2> QED
    BY <1>2, <2>2 DEF Undisturbed, Waiting
<1>8. Informed
  <2>1. /\ klippy = <<>> /\ worker = <<>> /\ Len(klippy) = 0 /\ Len(worker) = 0
        /\ wires.status.gen = 0 /\ ctl.gen = 0
    BY DEF Init, FreeLanes, NoQuery
  <2>2. Posted(klippy, wires.status.gen, worker, ctl.gen, wires.identity)
    BY <2>1 DEF Posted, Unposted
  <2>3. Ready(klippy, printer, verified)
    BY <2>1 DEF Ready
  <2> QED
    BY <1>2, <2>2, <2>3 DEF Informed, InTurn, Fresh, AtBoundary
<1> QED
  BY <1>1, <1>3, <1>4, <1>5, <1>6, <1>7, <1>8 DEF RInv

LEMMA RInvKept == RInv /\ [Next]_vars => RInv'
<1> SUFFICES ASSUME RInv, [Next]_vars PROVE RInv'
  OBVIOUS
<1>1. TypeOK'
  BY StepType DEF RInv
<1>2. Sound(exec')
  BY AttemptKept DEF RInv
<1>3. Sound(exec)'
  BY <1>2 DEF Sound
<1>4. OneErrand'
  BY OneErrandKept DEF RInv
<1>5. PanelShowsTheAttempt'
  BY <1>2, PanelKept DEF RInv
<1>6. RanIsKnown'
  BY RanIsKnownKept DEF RInv
<1>7. Undisturbed'
  BY <1>4, UndisturbedKept DEF RInv
<1>8. Informed'
  BY <1>4, InformedKept DEF RInv
<1> QED
  BY <1>1, <1>3, <1>4, <1>5, <1>6, <1>7, <1>8 DEF RInv

LEMMA RInvAlways == Spec => []RInv
<1> QED
  BY RInvInit, RInvKept, PTL DEF Spec

\* What the owner is shown is the attempt, and "stopping" is never shown of an
\* attempt that has ended, whatever ended it.
THEOREM PanelAlwaysShowsTheAttempt == Spec => []PanelShowsTheAttempt
<1>1. RInv => PanelShowsTheAttempt
  BY DEF RInv
<1> QED
  BY <1>1, RInvAlways, PTL

\* An attempt that is running always has the one answer it waits for on its way,
\* under the current generation, so that it will be taken; and no late re-plan
\* of an earlier attempt is ahead of its own.
THEOREM AnAttemptAlwaysWaitsForAnAnswer == Spec => []WaitsForAnAnswer
<1>1. RInv => WaitsForAnAnswer
  <2> SUFFICES ASSUME RInv PROVE WaitsForAnAnswer
    OBVIOUS
  <2>1. Waiting(exec, worker, ctl, wires.status, wires.script) /\ worker \in Seq(Tasks)
    BY DEF RInv, Undisturbed, TypeOK
  <2>2. DOMAIN worker = 1..Len(worker) /\ Len(worker) \in Nat
    BY <2>1, LenProperties
  <2>3. ASSUME NEW g, OnlyReplan(worker, g)
        PROVE  \E i \in DOMAIN worker :
                  /\ worker[i] = [job |-> "replan", gen |-> g]
                  /\ \A k \in 1..(i - 1) : worker[k].job # "replan"
    <3>1. PICK i \in 1..Len(worker) :
             /\ worker[i].job = "replan" /\ worker[i].gen = g
             /\ \A k \in 1..Len(worker) : k # i => worker[k].job # "replan"
      BY <2>3 DEF OnlyReplan
    <3>2. worker[i] \in Tasks
      BY <2>1, <2>2, ElementOfSeq
    <3>3. worker[i] = [job |-> "replan", gen |-> g]
      BY <3>1, <3>2 DEF Tasks
    <3>4. \A k \in 1..(i - 1) : k \in 1..Len(worker) /\ k # i
      BY <2>2
    <3>5. \A k \in 1..(i - 1) : worker[k].job # "replan"
      BY <3>1, <3>4
    <3> QED
      BY <2>2, <3>3, <3>5
  <2> QED
    BY <2>1, <2>3 DEF Waiting, WaitsForAnAnswer
<1> QED
  BY <1>1, RInvAlways, PTL

\* "complete" is said only of an attempt whose own M24 the printer has run,
\* whatever other clients did and however many requests were lost.
THEOREM CompleteAlwaysMeansResumed == Spec => []CompleteMeansResumed
<1>1. RInv => CompleteMeansResumed
  BY DEF RInv, RanIsKnown, CompleteMeansResumed
<1> QED
  BY <1>1, RInvAlways, PTL

\* A script is run on a printer that still is what the attempt's last status
\* showed, unless another client has acted since: the nozzle is moved and the
\* file started only with the print stopped, its own and the nozzle hot, and
\* the file only from the boundary, with the nozzle staged above it and the
\* modes restored.
THEOREM AnAttemptActsOnWhatItVerified == Spec => ActsOnWhatItVerified
<1>1. RInv => LET script == Head(klippy)
              IN  klippy # <<>> /\ script.gen = verified
                  => /\ script.stage \in Moving
                           => printer.state # "printing" /\ printer.mine /\ printer.hot
                     /\ script.stage = "resuming"
                           => printer.pos = 1 /\ printer.at = "staged" /\ printer.modal
  <2> SUFFICES ASSUME RInv, klippy # <<>>, Head(klippy).gen = verified
               PROVE  Fit(printer, Head(klippy).stage)
    BY DEF Fit
  <2>1. klippy \in Seq(Entries)
    BY DEF RInv, TypeOK
  <2>2. Head(klippy) = klippy[1] /\ 1 \in 1..Len(klippy)
    BY <2>1, EmptySeq, LenProperties
  <2>3. Ready(klippy, printer, verified)
    BY DEF RInv, Informed
  <2> QED
    BY <2>2, <2>3 DEF Ready
<1> QED
  BY <1>1, RInvAlways, PTL DEF ActsOnWhatItVerified, Moving

\* The safety part of the promise: an attempt hands the print over at most
\* once, never after a stop was asked for, and never takes the hand-over back.
THEOREM PromiseIsKept == Spec => Promise!Safety
<1> DEFINE stage == IF ~exec.active THEN exec.phase
                    ELSE IF exec.handover THEN "handed over" ELSE "preparing"
<1>1. Init => Promise!Init
  BY DEF Init, NoAttempt, Promise!Init
<1>2. RInv /\ [Next]_vars => [Promise!Next]_<<stage, exec.cancelled>>
  <2> SUFFICES ASSUME RInv, [Next]_vars
               PROVE  [Promise!Next]_<<stage, exec.cancelled>>
    OBVIOUS
  <2>1. PromiseStep(exec, exec') /\ Sound(exec) /\ Sound(exec')
    BY AttemptKept DEF RInv
  <2>2. stage = Shown(exec) /\ stage' = Shown(exec')
    BY DEF Shown
  <2>3. CASE Shown(exec') = Shown(exec) /\ exec'.cancelled = exec.cancelled
    BY <2>2, <2>3
  <2>4. CASE Shown(exec) = "preparing" /\ Shown(exec') = "preparing" /\ exec'.cancelled = TRUE
    <3>1. Promise!Stop
      BY <2>4 DEF Promise!Stop, Shown
    <3> QED
      BY <3>1 DEF Promise!Next
  <2>5. CASE /\ Shown(exec) = "preparing" /\ ~exec.cancelled
             /\ Shown(exec') = "handed over" /\ exec'.cancelled = exec.cancelled
    <3>1. Promise!HandOver
      BY <2>5 DEF Promise!HandOver, Shown
    <3> QED
      BY <3>1 DEF Promise!Next
  <2>6. CASE /\ Shown(exec) = "preparing" /\ exec'.cancelled = exec.cancelled
             /\ \/ Shown(exec') \in {"refused", "uncertain"}
                \/ exec.cancelled /\ Shown(exec') = "cancelled"
    <3>1. Promise!GiveUp
      BY <2>6 DEF Promise!GiveUp, Shown
    <3> QED
      BY <3>1 DEF Promise!Next
  <2>7. CASE /\ Shown(exec) = "handed over" /\ exec'.cancelled = exec.cancelled
             /\ Shown(exec') \in {"complete", "uncertain"}
    <3>1. Promise!Answer
      BY <2>7 DEF Promise!Answer, Shown
    <3> QED
      BY <3>1 DEF Promise!Next
  <2>8. CASE /\ Shown(exec) \in Outcomes \cup {"idle"} /\ exec'.cancelled = FALSE
             /\ Shown(exec') \in {"preparing", "uncertain"}
    <3>1. Promise!Begin
      BY <2>8 DEF Promise!Begin, Promise!Ended, Outcomes, Shown
    <3> QED
      BY <3>1 DEF Promise!Next
  <2> QED
    BY <2>1, <2>3, <2>4, <2>5, <2>6, <2>7, <2>8 DEF PromiseStep
<1> QED
  BY <1>1, <1>2, RInvAlways, PTL DEF Spec, Promise!Safety
================================================================================
