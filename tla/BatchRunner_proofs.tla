------------------------- MODULE BatchRunner_proofs -------------------------
(***************************************************************************)
(* Proofs about batch mode, for every design and any number of batches,    *)
(* stamps, layers and iterations.  Where the cores are is proved for runs  *)
(* in which no wait gives up; what was observed in which order, and that a *)
(* hang fails the run, for the other runs as well.                         *)
(***************************************************************************)
EXTENDS BatchRunner, StampTracking_proofs

LEMMA InitType == Init => TypeOK
  <1>1. [layer |-> -1, it |-> 0] \in Start
    BY ScheduleAssumption DEF Start
  <1>2. SUFFICES ASSUME Init PROVE TypeOK
    OBVIOUS
  <1>3. CoreTypeOK
    BY <1>1, <1>2, CoreAssumption DEF Init, SchedInit, CoreInit, CoreTypeOK
  <1>4. cur \in Layer /\ cur \in 0 .. NumLayers
    BY <1>2, ScheduleAssumption DEF Init, SchedInit, Layer
  <1>5. seen \in [Replica -> Start]
    BY <1>1, <1>2 DEF Init, SchedInit
  <1>6. QED
    BY <1>2, <1>3, <1>4, <1>5 DEF Init, SchedInit, TypeOK, SchedTypeOK, Phase

LEMMA NextType ==
  ASSUME TypeOK, [Next]_vars
  PROVE  TypeOK'
  <1>1. SchedTypeOK /\ cur \in Layer
    BY DEF TypeOK
  <1>2. CASE ScheduleLayerStart
    BY <1>1, <1>2, ScheduleLayerStartType DEF TypeOK, ScheduleLayerStart
  <1>3. CASE ContinueArmed
    BY <1>1, <1>3, ContinueArmedType DEF TypeOK, ContinueArmed
  <1>4. CASE PollStamps
    BY <1>1, <1>4, PollStampsType DEF TypeOK, PollStamps
  <1>5. ASSUME NEW sid \in Replica, VerifyStamp(sid) PROVE TypeOK'
    BY <1>1, <1>5, VerifyStampType DEF TypeOK, VerifyStamp
  <1>6. CASE RunWholeLayer
    <2>1. NumIter(cur) \in Nat
      BY <1>1, ScheduleAssumption DEF NumIter
    <2>2. QED BY <1>1, <1>6, <2>1, RunLayerType DEF TypeOK, RunWholeLayer, RunLayer
  <1>7. CASE JoinLayer
    BY <1>1, <1>7, JoinLayerType DEF TypeOK, JoinLayer
  <1>8. CASE AdvanceLayer
    <2>1. CoreTypeOK'
      BY <1>1, <1>8 DEF AdvanceLayer, SchedTypeOK, CoreTypeOK, coreVars
    <2>2. pmReload' \in [Replica -> BOOLEAN]
      BY <1>1, <1>8 DEF AdvanceLayer, SchedTypeOK, CheckPmReload
    <2>3. cur' \in Layer /\ cur' \in 0 .. NumLayers /\ phase' \in Phase
      BY <1>1, <1>8, ScheduleAssumption DEF AdvanceLayer, HasNextLayer, Layer, Phase
    <2>4. QED
      BY <1>1, <1>8, <2>1, <2>2, <2>3 DEF AdvanceLayer, TypeOK, SchedTypeOK, threadVars
  <1>9. CASE FinishRun
    <2>1. CoreTypeOK'
      BY <1>1, <1>9 DEF FinishRun, ContinueAie, SchedTypeOK, CoreTypeOK
    <2>2. QED
      BY <1>1, <1>9, <2>1 DEF FinishRun, TypeOK, SchedTypeOK, threadVars, Phase
  <1>10. ASSUME NEW sid \in Replica, ThreadStep(sid) PROVE TypeOK'
    <2>1. SchedTypeOK'
      BY <1>1, <1>10, ThreadStepType
    <2>2. UNCHANGED cur
      BY <1>10
      DEF ThreadStep, ThreadContinue, ThreadHit, ThreadReachesTarget, ThreadSkipsNothing,
          ThreadCount, ThreadCounted, ThreadToLock, ThreadAtLock, ThreadReturn,
          ThreadCollected, mainVars
    <2>3. QED BY <1>1, <2>1, <2>2 DEF TypeOK
  <1>11. ASSUME NEW sid \in Replica, CoreStep(sid), UNCHANGED schedVars PROVE TypeOK'
    <2>1. CoreTypeOK'
      BY <1>1, <1>11, CoreStepType DEF SchedTypeOK
    <2>2. QED
      BY <1>1, <1>11, <2>1 DEF TypeOK, SchedTypeOK, schedVars, mainVars, threadVars
  <1>12. CASE UNCHANGED vars
    BY <1>1, <1>12
    DEF TypeOK, SchedTypeOK, CoreTypeOK, vars, coreVars, schedVars, mainVars, threadVars
  <1>13. QED
    BY <1>2, <1>3, <1>4, <1>5, <1>6, <1>7, <1>8, <1>9, <1>10, <1>11, <1>12
    DEF Next, MainStep

(* The variables keep their types. *)
THEOREM TypeCorrect == Spec => []TypeOK
  BY InitType, NextType, PTL DEF Spec

-----------------------------------------------------------------------------
(* The main thread and its workers fit together, and a layer is always     *)
(* stepped to its last iteration, in every design.                         *)

LEMMA NextMain ==
  ASSUME TypeOK, MainTracking, WholeLayers, [Next]_vars
  PROVE  MainTracking' /\ WholeLayers'
  <1>1. SchedTypeOK /\ cur \in Layer
    BY DEF TypeOK
  <1>2. CASE ScheduleLayerStart
    BY <1>2, ScheduleMain DEF WholeLayers, ScheduleLayerStart
  <1>3. CASE ContinueArmed
    BY <1>3, ContinueMain DEF WholeLayers, ContinueArmed
  <1>4. CASE PollStamps
    BY <1>4, PollMain DEF WholeLayers, PollStamps
  <1>5. ASSUME NEW sid \in Replica, VerifyStamp(sid) PROVE MainTracking' /\ WholeLayers'
    BY <1>5, VerifyMain DEF WholeLayers, VerifyStamp, AfterVerify
  <1>6. CASE RunWholeLayer
    <2>1. NumIter(cur) \in 1 .. NumIter(cur)
      BY <1>1, NumIterType
    <2>2. QED
      BY <1>6, <2>1, RunLayerMain DEF WholeLayers, RunWholeLayer, RunLayer, NumIter
  <1>7. CASE JoinLayer
    BY <1>7, JoinMain DEF WholeLayers, JoinLayer, NumIter
  <1>8. CASE AdvanceLayer
    <2>1. MainTracking'
      BY <1>1, <1>8 DEF MainTracking, AdvanceLayer, TargetLayer, threadVars
    <2>2. QED BY <1>8, <2>1 DEF WholeLayers, AdvanceLayer
  <1>9. CASE FinishRun
    BY <1>9 DEF MainTracking, WholeLayers, FinishRun, TargetLayer, threadVars
  <1>10. ASSUME NEW sid \in Replica, ThreadStep(sid) PROVE MainTracking' /\ WholeLayers'
    BY <1>1, <1>10, ThreadMain, ThreadFrame DEF WholeLayers, mainVars, NumIter
  <1>11. CASE UNCHANGED schedVars
    BY <1>11, UnchangedMain DEF WholeLayers, schedVars, mainVars, NumIter
  <1>12. QED
    BY <1>2, <1>3, <1>4, <1>5, <1>6, <1>7, <1>8, <1>9, <1>10, <1>11
    DEF Next, MainStep, vars

LEMMA MainCorrect == Spec => [](MainTracking /\ WholeLayers)
  <1>1. Init => MainTracking /\ WholeLayers
    BY InitMain DEF Init, SchedInit, WholeLayers
  <1>2. TypeOK /\ MainTracking /\ WholeLayers /\ [Next]_vars => MainTracking' /\ WholeLayers'
    BY NextMain
  <1>3. QED BY <1>1, <1>2, TypeCorrect, PTL DEF Spec

-----------------------------------------------------------------------------
(* Batch mode implements LockStep.                                         *)

LEMMA InitImplements == Init => SeenTracking /\ Steps!Init
  <1>1. Init => SeenTracking
    BY InitSeen DEF Init, SeenTracking, SchedInit
  <1>2. Init => Steps!Init
    BY StepsSchedule DEF Init, SchedInit, Steps!Init
  <1>3. QED BY <1>1, <1>2

(* Every step keeps the record of what was observed, and is a step of      *)
(* LockStep or leaves what LockStep sees alone.                            *)
LEMMA NextImplements ==
  ASSUME TypeOK, MainTracking, WholeLayers, SeenTracking, [Next]_vars
  PROVE  SeenTracking' /\ [Steps!Next]_Steps!vars
  <1> DEFINE Seen == \A sid \in Replica : ReplicaSeen(sid)
  <1>1. SchedTypeOK /\ cur \in Layer /\ cur # NoLayer /\ Seen
    BY ScheduleAssumption DEF TypeOK, SeenTracking, Layer, NoLayer
  <1>2. Seen' /\ phase' # "end" => SeenTracking'
    BY DEF SeenTracking
  <1>3. CASE ScheduleLayerStart \/ ContinueArmed
    <2>1. phase' # "end"
      BY <1>3 DEF ScheduleLayerStart, ContinueArmed
    <2>2. QED BY <1>1, <1>2, <1>3, <2>1, StartSeen
  <1>4. CASE PollStamps
    <2>1. phase' # "end"
      BY <1>4 DEF PollStamps
    <2>2. QED BY <1>1, <1>2, <1>4, <2>1, PollSeen
  <1>5. ASSUME NEW r \in Replica, VerifyStamp(r)
        PROVE  SeenTracking' /\ [Steps!Next]_Steps!vars
    <2>1. phase' # "end"
      BY <1>5 DEF VerifyStamp, AfterVerify
    <2>2. QED BY <1>1, <1>2, <1>5, <2>1, VerifySeen
  <1>6. CASE RunWholeLayer
    <2>1. NumIter(cur) \in Nat /\ 1 \in 1 .. NumIter(cur)
      BY <1>1, NumIterType
    <2>2. \A sid \in Replica : IF sid \in active THEN SeenAt(sid, 1) ELSE Through(sid, cur)
      BY <1>1, <1>6 DEF RunWholeLayer, ReplicaSeen
    <2>3. Seen' /\ UNCHANGED Steps!vars
      BY <1>1, <1>6, <2>1, <2>2, RunLayerSeen DEF RunWholeLayer
    <2>4. QED BY <1>2, <1>6, <2>3 DEF RunWholeLayer, RunLayer
  <1>7. CASE JoinLayer
    <2>1. phase' # "end"
      BY <1>7 DEF JoinLayer
    <2>2. QED BY <1>1, <1>2, <1>7, <2>1, JoinSeen
  <1>8. CASE AdvanceLayer
    <2>1. /\ phase = "ran" /\ UNCHANGED <<seen, active, target>> /\ target = NumIter(cur)
          /\ active = {sid \in Replica : TargetLayer(sid) = cur}
      BY <1>1, <1>8 DEF AdvanceLayer, WholeLayers, MainTracking
    <2>2. ASSUME NEW sid \in Replica PROVE Through(sid, cur + 1)
      <3>1. CASE sid \in active
        BY <1>1, <2>1, <3>1, ThroughStepped DEF ReplicaSeen
      <3>2. CASE sid \notin active
        BY <1>1, <2>1, <3>2, TargetIsCurrent, ThroughSkipped DEF ReplicaSeen
      <3>3. QED BY <3>1, <3>2
    <2>3. CASE HasNextLayer
      <3>1. phase' = "layer" /\ cur' = cur + 1
        BY <1>8, <2>3 DEF AdvanceLayer
      <3>2. \A sid \in Replica : Through(sid, cur)'
        BY <2>1, <2>2, <3>1, SeenFrame DEF Through
      <3>3. SeenTracking'
        BY <3>1, <3>2 DEF SeenTracking, ReplicaSeen
      <3>4. QED BY <2>1, <3>1, <3>3, Quiet
    <2>4. CASE ~HasNextLayer
      <3>1. phase' = "end"
        BY <1>8, <2>4 DEF AdvanceLayer
      <3>2. \A l \in Layer : l < cur + 1
        BY <1>1, <2>4, ScheduleAssumption DEF HasNextLayer, Layer
      <3>3. ASSUME NEW sid \in Replica PROVE NextLayerFor(StampOf(sid), cur + 1) = NoLayer
        BY <1>1, <3>2, NextLayerForFirst DEF IsFirstLayer, Layer
      <3>4. \A sid \in Replica : Steps!NextObservation(sid)'.layer = NoLayer
        BY <2>1, <2>2, <3>3, SeenFrame DEF Through
      <3>5. SeenTracking'
        BY <3>1, <3>4 DEF SeenTracking, ReplicaSeen
      <3>6. QED BY <2>1, <3>1, <3>5, Quiet
    <2>5. QED BY <2>3, <2>4
  <1>9. CASE FinishRun
    <2>1. phase = "end" /\ phase' = "success" /\ UNCHANGED seen
      BY <1>9 DEF FinishRun
    <2>2. Steps!Succeed
      BY <2>1, StepsSchedule DEF Steps!Succeed, SeenTracking
    <2>3. QED BY <2>1, <2>2 DEF Steps!Next, SeenTracking, ReplicaSeen
  <1>10. ASSUME NEW r \in Replica, ThreadStep(r)
         PROVE  SeenTracking' /\ [Steps!Next]_Steps!vars
    <2>1. phase' # "end"
      BY <1>10, ThreadFrame DEF mainVars
    <2>2. QED BY <1>1, <1>2, <1>10, <2>1, ThreadSeen
  <1>11. CASE UNCHANGED schedVars
    <2>1. Seen' /\ UNCHANGED Steps!vars
      BY <1>1, <1>11, UnchangedSeen
    <2>2. phase' = "end" => \A sid \in Replica : Steps!NextObservation(sid)'.layer = NoLayer
      BY <1>11, SeenFrame DEF SeenTracking, schedVars, mainVars
    <2>3. QED BY <2>1, <2>2 DEF SeenTracking
  <1>12. QED
    BY <1>3, <1>4, <1>5, <1>6, <1>7, <1>8, <1>9, <1>10, <1>11
    DEF Next, MainStep, vars

LEMMA SeenCorrect == Spec => []SeenTracking
  <1>1. Init => SeenTracking
    BY InitImplements
  <1>2. TypeOK /\ (MainTracking /\ WholeLayers) /\ SeenTracking /\ [Next]_vars => SeenTracking'
    BY NextImplements
  <1>3. QED BY <1>1, <1>2, TypeCorrect, MainCorrect, PTL DEF Spec

(* Batch mode keeps the promise of LockStep for every design, in every     *)
(* skip mode, and whatever the cores do: the replicas are observed in      *)
(* program order and in lock step, no start is left out, and a run that    *)
(* reports success observed all of them.                                   *)
THEOREM BatchImplements == Spec => StepsInLockStep
  <1>1. Init => Steps!Init
    BY InitImplements
  <1>2. TypeOK /\ (MainTracking /\ WholeLayers) /\ SeenTracking /\ [Next]_vars
          => [Steps!Next]_Steps!vars
    BY NextImplements
  <1>3. QED
    BY <1>1, <1>2, TypeCorrect, MainCorrect, SeenCorrect, PTL
    DEF Spec, StepsInLockStep, Steps!Spec

-----------------------------------------------------------------------------
(* Where the cores are, in the designs the controller can track.           *)

(* Once the last layer is stepped nobody is armed any more. *)
LEMMA NobodyArmed ==
  ASSUME cur \in Layer, MainTracking, CoreTracking, phase = "ran", ~HasNextLayer,
         NEW sid \in Replica
  PROVE  ~scheduled[sid]
  <1>1. \A l \in Layer : l >= cur => l = cur
    BY ScheduleAssumption DEF HasNextLayer, Layer
  <1>2. cur # NoLayer
    BY ScheduleAssumption DEF Layer, NoLayer
  <1>3. CASE TargetLayer(sid) = NoLayer
    BY <1>3 DEF CoreTracking
  <1>4. CASE TargetLayer(sid) # NoLayer
    <2>1. TargetLayer(sid) = cur
      BY <1>1, <1>4, TargetFacts
    <2>2. SteppedTo(sid, target)
      BY <1>2, <1>4, <2>1 DEF CoreTracking, ReplicaTracking, MainTracking
    <2>3. QED BY <2>2 DEF SteppedTo, Verified, LetGo
  <1>5. QED BY <1>3, <1>4

LEMMA NextTracking ==
  ASSUME TypeOK, MainTracking, WholeLayers, Tracking, [Next]_vars
  PROVE  Tracking'
  <1> DEFINE Ended == phase \in {"end", "success", "exited", "fail"}
  <1>1. Tracked /\ Tracked' /\ SchedTypeOK /\ cur \in Layer
    BY DEF Tracking, Tracked, TypeOK
  <1>2. CASE Ended
    <2>1. Ended' /\ (phase' = "end" => phase = "end") /\ UNCHANGED scheduled
      BY <1>2, ThreadFrame
      DEF Next, MainStep, ScheduleLayerStart, ContinueArmed, PollStamps, VerifyStamp,
          RunWholeLayer, JoinLayer, AdvanceLayer, FinishRun, vars, schedVars, mainVars
    <2>2. QED BY <1>1, <2>1 DEF Tracking
  <1>3. CASE ~Ended
    <2>1. CoreTracking
      BY <1>3 DEF Tracking
    <2>2. CoreTracking' /\ phase' # "end" => Tracking'
      BY <1>1 DEF Tracking
    <2>3. CASE ScheduleLayerStart
      BY <1>1, <2>1, <2>2, <2>3, ScheduleCores DEF ScheduleLayerStart
    <2>4. CASE ContinueArmed
      BY <1>1, <2>1, <2>2, <2>4, ContinueCores DEF ContinueArmed
    <2>5. CASE PollStamps
      BY <1>1, <2>1, <2>2, <2>5, PollCores DEF PollStamps
    <2>6. ASSUME NEW r \in Replica, VerifyStamp(r) PROVE Tracking'
      <3>1. CASE phase' \in {"exited", "fail"}
        BY <1>1, <3>1 DEF Tracking
      <3>2. CASE phase' \notin {"exited", "fail"}
        <4>1. phase' # "end"
          BY <2>6 DEF VerifyStamp, AfterVerify
        <4>2. QED BY <1>1, <2>1, <2>2, <2>6, <3>2, <4>1, VerifyCores
      <3>3. QED BY <3>1, <3>2
    <2>7. CASE RunWholeLayer
      <3>1. NumIter(cur) \in Nat /\ 1 \in 1 .. NumIter(cur)
        BY <1>1, NumIterType
      <3>2. \A sid \in active : TargetLayer(sid) # NoLayer => SteppedTo(sid, 1)
        BY <1>1, <2>1, <2>7 DEF RunWholeLayer, CoreTracking, ReplicaTracking, SchedTypeOK
      <3>3. CoreTracking'
        BY <2>1, <2>7, <3>1, <3>2, RunLayerCores DEF RunWholeLayer
      <3>4. QED BY <2>2, <2>7, <3>3 DEF RunWholeLayer, RunLayer
    <2>8. CASE JoinLayer
      <3>1. CASE phase' = "fail"
        BY <1>1, <3>1 DEF Tracking
      <3>2. CASE phase' # "fail"
        <4>1. phase' # "end"
          BY <2>8 DEF JoinLayer
        <4>2. QED BY <1>1, <2>1, <2>2, <2>8, <3>2, <4>1, JoinCores
      <3>3. QED BY <3>1, <3>2
    <2>9. CASE AdvanceLayer
      <3>1. /\ phase = "ran" /\ target = Iterations[cur]
            /\ UNCHANGED <<coreVars, scheduled, torun>>
        BY <1>1, <2>9 DEF AdvanceLayer, WholeLayers, Tracked, NumIter
      <3>2. CASE HasNextLayer
        <4>1. CoreTracking'
          BY <1>1, <2>1, <2>9, <3>1, <3>2, NextLayerCores DEF AdvanceLayer
        <4>2. QED BY <2>2, <2>9, <3>2, <4>1 DEF AdvanceLayer
      <3>3. CASE ~HasNextLayer
        <4>1. phase' = "end"
          BY <2>9, <3>3 DEF AdvanceLayer
        <4>2. \A sid \in Replica : ~scheduled'[sid]
          BY <1>1, <2>1, <3>1, <3>3, NobodyArmed
        <4>3. QED BY <1>1, <4>1, <4>2 DEF Tracking
      <3>4. QED BY <3>2, <3>3
    <2>10. CASE FinishRun
      BY <1>3, <2>10 DEF FinishRun
    <2>11. ASSUME NEW r \in Replica, ThreadStep(r) PROVE Tracking'
      BY <1>1, <1>3, <2>1, <2>2, <2>11, ThreadCores, ThreadFrame DEF mainVars
    <2>12. ASSUME NEW r \in Replica, CoreStep(r), UNCHANGED schedVars PROVE Tracking'
      <3>1. phase' # "end"
        BY <1>3, <2>12 DEF schedVars, mainVars
      <3>2. QED BY <1>1, <2>1, <2>2, <2>12, <3>1, CoreCores
    <2>13. CASE UNCHANGED vars
      BY <1>3, <2>1, <2>2, <2>13, UnchangedCores DEF vars, schedVars, mainVars
    <2>14. QED
      BY <2>3, <2>4, <2>5, <2>6, <2>7, <2>8, <2>9, <2>10, <2>11, <2>12, <2>13
      DEF Next, MainStep
  <1>4. QED BY <1>2, <1>3

(* In a tracked design, when no wait gives up, the controller always knows *)
(* where every replica is that still has a layer to run.                   *)
THEOREM TrackingCorrect ==
  ASSUME Tracked
  PROVE  Spec => []Tracking
  <1>1. Init => Tracking
    BY InitCores DEF Init, SchedInit, Tracking
  <1>2. TypeOK /\ (MainTracking /\ WholeLayers) /\ Tracking /\ [Next]_vars => Tracking'
    BY NextTracking
  <1>3. QED BY <1>1, <1>2, TypeCorrect, MainCorrect, PTL DEF Spec

(* A replica armed ahead of time waits at the start of its layer, when no  *)
(* wait gives up.                                                          *)
THEOREM ArmedCorrect ==
  ASSUME Tracked
  PROVE  Spec => []ArmedNeverOvershoots
  <1>1. TypeOK /\ (MainTracking /\ WholeLayers) /\ Tracking => ArmedNeverOvershoots
    <2>1. SUFFICES ASSUME TypeOK, WholeLayers, Tracking, NEW sid \in Replica, scheduled[sid],
                          phase \notin {"success", "fail", "exited"}
                   PROVE  \/ at[sid].layer < TargetLayer(sid)
                          \/ HaltedAt(sid, TargetLayer(sid), 1)
      BY DEF ArmedNeverOvershoots, HaltedAt
    <2>2. CoreTracking /\ CoreTypeOK
      BY <2>1 DEF Tracking, TypeOK, SchedTypeOK
    <2>3. TargetLayer(sid) # NoLayer /\ ReplicaTracking(sid)
      BY <2>1, <2>2 DEF CoreTracking
    <2>4. phase \in {"layer", "armed", "poll", "verify", "ready", "threads", "ran"}
      BY <2>1 DEF Tracking, WholeLayers, TypeOK, SchedTypeOK, Phase
    <2>5. Armed(sid)
      BY <2>1, <2>3, <2>4
      DEF ReplicaTracking, Waiting, Verified, LetGo, SteppedTo, SteppedByThread
    <2>6. CASE HeadsFor(sid, TargetLayer(sid))
      BY <2>6 DEF HeadsFor
    <2>7. QED BY <2>5, <2>6 DEF Armed
  <1>2. QED BY <1>1, TypeCorrect, MainCorrect, TrackingCorrect, PTL

-----------------------------------------------------------------------------
(* A hang is never forgotten when iterations are stepped one by one.       *)

LEMMA NextHang ==
  ASSUME SkipMode = "none", TypeOK, HangTracking, [Next]_vars
  PROVE  HangTracking'
  <1>1. thread \in [Replica -> {"idle", "go", "wait", "ret", "done"}]
        /\ hung \in [Replica -> BOOLEAN]
    BY DEF TypeOK, SchedTypeOK
  <1>2. ASSUME NEW r \in Replica, ThreadStep(r) PROVE HangTracking'
    <2>1. phase = "threads" /\ UNCHANGED phase
      BY <1>2
      DEF HangTracking, ThreadStep, ThreadContinue, ThreadHit, ThreadReachesTarget,
          ThreadSkipsNothing, ThreadCount, ThreadCounted, ThreadToLock, ThreadAtLock,
          ThreadReturn, ThreadCollected, mainVars
    <2>2. \/ UNCHANGED hung /\ (error => error')
          \/ error' /\ hung' = [hung EXCEPT ![r] = TRUE]
      BY <1>2
      DEF ThreadStep, ThreadContinue, ThreadHit, ThreadReachesTarget, ThreadSkipsNothing,
          ThreadCount, ThreadCounted, ThreadToLock, ThreadAtLock, ThreadReturn,
          ThreadCollected
    <2>3. QED BY <2>1, <2>2 DEF HangTracking
  <1>3. CASE JoinLayer
    BY <1>3 DEF JoinLayer, RunFailed, HangTracking
  <1>4. CASE RunWholeLayer
    BY <1>4 DEF RunWholeLayer, RunLayer, HangTracking
  <1>5. ASSUME NEW r \in Replica, VerifyStamp(r) PROVE HangTracking'
    BY <1>5 DEF VerifyStamp, AfterVerify, threadVars, HangTracking
  <1>6. ASSUME NEW r \in Replica, UNCHANGED schedVars PROVE HangTracking'
    BY <1>6 DEF schedVars, mainVars, threadVars, HangTracking
  <1>7. CASE UNCHANGED vars
    BY <1>7 DEF vars, schedVars, mainVars, threadVars, HangTracking
  <1>8. CASE ScheduleLayerStart \/ ContinueArmed \/ PollStamps \/ AdvanceLayer \/ FinishRun
    BY <1>8
    DEF ScheduleLayerStart, ContinueArmed, PollStamps, AdvanceLayer, FinishRun, threadVars,
        HangTracking
  <1>9. QED
    BY <1>2, <1>3, <1>4, <1>5, <1>6, <1>7, <1>8 DEF Next, MainStep

LEMMA HangCorrect ==
  ASSUME SkipMode = "none"
  PROVE  Spec => []HangTracking
  <1>1. Init => HangTracking
    BY DEF Init, SchedInit, HangTracking
  <1>2. TypeOK /\ HangTracking /\ [Next]_vars => HangTracking'
    BY NextHang
  <1>3. QED BY <1>1, <1>2, TypeCorrect, PTL DEF Spec

(* Without a skip mode every design fails its run when a worker hung.      *)
THEOREM HangDetected ==
  ASSUME SkipMode = "none"
  PROVE  Spec => []HangFailsRun
  <1>1. TypeOK /\ HangTracking => HangFailsRun
    BY DEF HangTracking, HangFailsRun, TypeOK, SchedTypeOK
  <1>2. QED BY <1>1, TypeCorrect, HangCorrect, PTL

-----------------------------------------------------------------------------
(* A replica whose start breakpoint is processed is at that very start.    *)
LEMMA ObservationHolds ==
  ASSUME TypeOK, MainTracking, Tracking, Next, NEW sid \in Replica, seen'[sid] # seen[sid]
  PROVE  seen'[sid] = at'[sid]
  <1>1. SchedTypeOK /\ cur \in Layer
    BY DEF TypeOK
  <1>2. ASSUME NEW r \in Replica, VerifyStamp(r) PROVE seen'[sid] = at'[sid]
    <2>1. CoreTracking
      BY <1>2 DEF Tracking, VerifyStamp
    <2>2. QED BY <1>1, <1>2, <2>1, VerifyTrue
  <1>3. ASSUME NEW r \in Replica, ThreadStep(r) PROVE seen'[sid] = at'[sid]
    <2>1. Tracked /\ CoreTracking
      BY <1>3, ThreadFrame DEF Tracking
    <2>2. QED BY <1>1, <1>3, <2>1, ThreadTrue
  <1>4. QED
    BY <1>2, <1>3
    DEF Next, MainStep, ScheduleLayerStart, ContinueArmed, PollStamps, RunWholeLayer, RunLayer,
        JoinLayer, AdvanceLayer, FinishRun, schedVars

(* In a tracked design, when no wait gives up, no breakpoint is processed  *)
(* at any other place than the iteration it is reported for.               *)
THEOREM ObservationsTrue ==
  ASSUME Tracked
  PROVE  Spec => ObservationsAreTrue
  <1>1. TypeOK /\ (MainTracking /\ WholeLayers) /\ Tracking /\ [Next]_vars =>
          [\A sid \in Replica : seen'[sid] # seen[sid] => seen'[sid] = at'[sid]]_vars
    BY ObservationHolds
  <1>2. QED
    BY <1>1, TypeCorrect, MainCorrect, TrackingCorrect, PTL
    DEF Spec, ObservationsAreTrue
=============================================================================
