---------------------- MODULE InteractiveController_proofs -------------------
(***************************************************************************)
(* Proofs about interactive mode, for every design and every sequence of   *)
(* commands: what was observed in which order and that pending breakpoints *)
(* are kept also when waits time out; where the cores are and that what    *)
(* was observed is true for a design in which no wait gives up.            *)
(***************************************************************************)
EXTENDS InteractiveController, StampTracking_proofs

(* A layer is current unless the execution list is through. *)
LEMMA CurrentLayer ==
  ASSUME cur \in 0 .. NumLayers
  PROVE  cur # NoLayer <=> cur \in Layer
  BY ScheduleAssumption DEF NoLayer, Layer

LEMMA InitType == Init => TypeOK
  <1>1. [layer |-> -1, it |-> 0] \in Start
    BY ScheduleAssumption DEF Start
  <1>2. SUFFICES ASSUME Init PROVE TypeOK
    OBVIOUS
  <1>3. CoreTypeOK
    BY <1>1, <1>2, CoreAssumption DEF Init, SchedInit, CoreInit, CoreTypeOK
  <1>4. cur \in Layer /\ cur \in 0 .. NumLayers
    BY <1>2, ScheduleAssumption DEF Init, SchedInit, Layer
  <1>5. seen \in [Replica -> Start]
    BY <1>1, <1>2 DEF Init, SchedInit
  <1>6. SchedTypeOK
    BY <1>2, <1>3, <1>4, <1>5 DEF Init, SchedInit, SchedTypeOK, Phase
  <1>7. bps \in Seq(Breakpoints) /\ Len(bps) <= MaxBreakpoints
    BY <1>2, BreakpointAssumption DEF Init
  <1>8. goal \in Position
    BY <1>2, ScheduleAssumption DEF Init, Position
  <1>9. QED BY <1>2, <1>4, <1>6, <1>7, <1>8 DEF Init, TypeOK

-----------------------------------------------------------------------------
(* Types of the steps of the prompt.                                       *)

LEMMA StepLayerType ==
  ASSUME TypeOK, StepLayer
  PROVE  SchedTypeOK' /\ cur' \in Layer /\ phase' = "threads" /\ step' = "layer"
  <1>1. cur \in Layer
    BY CurrentLayer DEF TypeOK, SchedTypeOK, StepLayer
  <1>2. NumIter(cur) \in Nat /\ curIt \in Nat
    BY <1>1, NumIterType DEF TypeOK
  <1>3. QED BY <1>1, <1>2, RunLayerType DEF StepLayer, RunLayer, TypeOK

LEMMA StepIterationType ==
  ASSUME TypeOK, StepIteration
  PROVE  /\ SchedTypeOK' /\ step' \in {"none", "iter", "layer"}
         /\ \/ UNCHANGED <<coreVars, schedVars, step>>
            \/ phase' = "threads" /\ cur' \in Layer
  <1>1. CASE UNCHANGED <<coreVars, schedVars, step>>
    BY <1>1
    DEF TypeOK, SchedTypeOK, CoreTypeOK, coreVars, schedVars, mainVars, threadVars
  <1>2. CASE StepLayer
    BY <1>2, StepLayerType
  <1>3. CASE cur # NoLayer /\ RunLayer(curIt + 1, curIt) /\ step' = "iter"
    <2>1. cur \in Layer /\ curIt \in Nat /\ curIt + 1 \in Nat
      BY <1>3, CurrentLayer DEF TypeOK, SchedTypeOK
    <2>2. QED BY <1>3, <2>1, RunLayerType DEF RunLayer, TypeOK
  <1>4. QED BY <1>1, <1>2, <1>3 DEF StepIteration

(* Sorting in a breakpoint keeps the list one of breakpoints.              *)
LEMMA InsertType ==
  ASSUME bps \in Seq(Breakpoints), NEW b \in Breakpoints
  PROVE  Insert(b) \in Seq(Breakpoints) /\ Len(Insert(b)) = Len(bps) + 1
  <1>1. \A i \in 1 .. Len(bps) : bps[i] \in Breakpoints
    OBVIOUS
  <1>2. Insert(b) \in [1 .. Len(bps) + 1 -> Breakpoints]
    BY <1>1 DEF Insert
  <1>3. QED BY <1>2

(* The actions of the execution primitives, and the worker threads.        *)
Primitive ==
  \/ ScheduleLayerStart \/ ContinueArmed \/ PollStamps
  \/ \E sid \in Replica : VerifyStamp(sid)
  \/ JoinLayer
  \/ \E sid \in Replica : ThreadStep(sid)

LEMMA PrimitiveFrame ==
  ASSUME Primitive
  PROVE  UNCHANGED cur
  BY DEF Primitive, ScheduleLayerStart, ContinueArmed, PollStamps, VerifyStamp, JoinLayer,
         mainVars, ThreadStep, ThreadContinue, ThreadHit, ThreadReachesTarget,
         ThreadSkipsNothing, ThreadCount, ThreadCounted, ThreadToLock, ThreadAtLock,
         ThreadReturn, ThreadCollected

LEMMA PrimitiveType ==
  ASSUME TypeOK, MainTracking, Primitive
  PROVE  SchedTypeOK' /\ cur \in Layer /\ UNCHANGED cur /\ phase' # "idle" /\ phase # "idle"
  <1>1. ASSUME NEW sid \in Replica, ThreadStep(sid)
        PROVE  SchedTypeOK' /\ cur \in Layer /\ UNCHANGED cur /\ phase' # "idle" /\ phase # "idle"
    <2>1. phase = "threads" /\ UNCHANGED mainVars
      BY <1>1, ThreadFrame
    <2>2. cur \in Layer
      BY <2>1 DEF TypeOK
    <2>3. QED BY <1>1, <2>1, <2>2, ThreadStepType DEF TypeOK, mainVars
  <1>2. CASE ScheduleLayerStart
    BY <1>2, ScheduleLayerStartType DEF TypeOK, ScheduleLayerStart
  <1>3. CASE ContinueArmed
    BY <1>3, ContinueArmedType DEF TypeOK, ContinueArmed
  <1>4. CASE PollStamps
    BY <1>4, PollStampsType DEF TypeOK, PollStamps
  <1>5. ASSUME NEW sid \in Replica, VerifyStamp(sid)
        PROVE  SchedTypeOK' /\ cur \in Layer /\ UNCHANGED cur /\ phase' # "idle" /\ phase # "idle"
    <2>1. cur \in Layer
      BY <1>5 DEF TypeOK, VerifyStamp
    <2>2. QED
      BY <1>5, <2>1, VerifyStampType DEF TypeOK, VerifyStamp, AfterVerify
  <1>6. CASE JoinLayer
    BY <1>6, JoinLayerType DEF TypeOK, JoinLayer
  <1>7. QED BY <1>1, <1>2, <1>3, <1>4, <1>5, <1>6 DEF Primitive

LEMMA NextType ==
  ASSUME TypeOK, MainTracking, [Next]_vars
  PROVE  TypeOK'
  <1>1. SchedTypeOK /\ curIt \in Nat /\ cur \in 0 .. NumLayers
    BY DEF TypeOK, SchedTypeOK
  <1>2. CASE Primitive /\ UNCHANGED userVars
    BY <1>2, PrimitiveType DEF TypeOK, userVars
  <1>3. CASE Scheduled
    <2>1. SchedTypeOK'
      BY <1>1, <1>3 DEF Scheduled, SchedTypeOK, CoreTypeOK, coreVars, threadVars, Phase
    <2>2. QED BY <1>3, <2>1 DEF Scheduled, TypeOK, userVars
  <1>4. CASE IterationStepped
    <2>1. SchedTypeOK'
      BY <1>1, <1>4 DEF IterationStepped, SchedTypeOK, CoreTypeOK, coreVars, threadVars, Phase
    <2>2. QED BY <1>4, <2>1 DEF IterationStepped, TypeOK
  <1>5. CASE LayerStepped
    <2>1. CoreTypeOK' /\ pmReload' \in [Replica -> BOOLEAN]
      BY <1>1, <1>5
      DEF LayerStepped, SchedTypeOK, CoreTypeOK, coreVars, CheckPmReload
    <2>2. cur \in Layer /\ cur' = cur + 1
      BY <1>5 DEF LayerStepped, TypeOK
    <2>3. cur' \in 0 .. NumLayers /\ (HasNextLayer => cur' \in Layer)
      BY <2>2, ScheduleAssumption DEF HasNextLayer, Layer
    <2>4. SchedTypeOK'
      BY <1>1, <1>5, <2>1, <2>3 DEF LayerStepped, SchedTypeOK, threadVars, Phase
    <2>5. QED BY <1>5, <2>3, <2>4 DEF LayerStepped, TypeOK
  <1>6. CASE ContinueLayers
    <2>1. CASE StepLayer
      <3>1. SchedTypeOK' /\ cur' \in Layer /\ phase' = "threads" /\ step' = "layer"
        BY <2>1, StepLayerType
      <3>2. QED BY <1>6, <3>1 DEF ContinueLayers, TypeOK
    <2>2. CASE UNCHANGED <<coreVars, schedVars, step>>
      BY <1>1, <1>6, <2>2
      DEF ContinueLayers, TypeOK, SchedTypeOK, CoreTypeOK, coreVars, schedVars, mainVars,
          threadVars
    <2>3. QED BY <1>6, <2>1, <2>2 DEF ContinueLayers
  <1>7. CASE ContinueIterations
    <2>1. CASE StepIteration
      <3>1. /\ SchedTypeOK' /\ step' \in {"none", "iter", "layer"}
            /\ \/ UNCHANGED <<coreVars, schedVars, step>>
               \/ phase' = "threads" /\ cur' \in Layer
        BY <2>1, StepIterationType
      <3>2. phase' \notin {"idle", "exited"} => cur' \in Layer
        BY <3>1 DEF TypeOK, schedVars, mainVars
      <3>3. QED BY <1>7, <3>1, <3>2 DEF ContinueIterations, TypeOK
    <2>2. CASE UNCHANGED <<coreVars, schedVars, step>>
      BY <1>1, <1>7, <2>2
      DEF ContinueIterations, TypeOK, SchedTypeOK, CoreTypeOK, coreVars, schedVars, mainVars,
          threadVars
    <2>3. QED BY <1>7, <2>1, <2>2 DEF ContinueIterations
  <1>8. CASE UserStepIteration
    <2>1. /\ SchedTypeOK' /\ step' \in {"none", "iter", "layer"}
          /\ \/ UNCHANGED <<coreVars, schedVars, step>>
             \/ phase' = "threads" /\ cur' \in Layer
      BY <1>8, StepIterationType DEF UserStepIteration
    <2>2. phase' \notin {"idle", "exited"} => cur' \in Layer
      BY <2>1 DEF TypeOK, schedVars, mainVars
    <2>3. QED BY <1>8, <2>1, <2>2 DEF UserStepIteration, TypeOK
  <1>9. CASE UserStepLayer
    <2>1. SchedTypeOK' /\ cur' \in Layer /\ phase' = "threads" /\ step' = "layer"
      BY <1>9, StepLayerType DEF UserStepLayer
    <2>2. QED BY <1>9, <2>1 DEF UserStepLayer, TypeOK
  <1>10. CASE AddBreakpoint
    <2>1. bps' \in Seq(Breakpoints) /\ Len(bps') <= MaxBreakpoints
      <3>1. PICK b \in Breakpoints : bps' = Insert(b)
        BY <1>10 DEF AddBreakpoint
      <3>2. bps' \in Seq(Breakpoints) /\ Len(bps') = Len(bps) + 1
        BY <3>1, InsertType DEF TypeOK
      <3>3. QED BY <1>10, <3>2, BreakpointAssumption DEF AddBreakpoint, TypeOK
    <2>2. QED
      BY <1>1, <1>10, <2>1
      DEF AddBreakpoint, TypeOK, SchedTypeOK, CoreTypeOK, coreVars, schedVars, mainVars,
          threadVars
  <1>11. CASE UserContinue
    <2>1. bps' \in Seq(Breakpoints) /\ Len(bps') <= MaxBreakpoints
      <3>1. bps \in Seq(Breakpoints) /\ Len(bps) <= MaxBreakpoints
        BY DEF TypeOK
      <3>2. bps # <<>> => Tail(bps) \in Seq(Breakpoints) /\ Len(Tail(bps)) = Len(bps) - 1
        BY <3>1
      <3>3. bps' = bps \/ (bps # <<>> /\ bps' = Tail(bps))
        BY <1>11 DEF UserContinue
      <3>4. Len(bps) \in Nat
        BY <3>1
      <3>5. CASE bps' = bps
        BY <3>1, <3>5
      <3>6. CASE bps # <<>> /\ bps' = Tail(bps)
        <4>1. Len(bps) - 1 <= MaxBreakpoints
          BY <3>1, <3>4, BreakpointAssumption
        <4>2. QED BY <3>2, <3>6, <4>1
      <3>7. QED BY <3>3, <3>5, <3>6
    <2>2. goal' \in Position
      <3>1. [layer |-> NumLayers - 1, it |-> NumIter(NumLayers - 1)] \in Position
        <4>1. NumLayers - 1 \in Layer /\ NumLayers - 1 \in 0 .. NumLayers
          BY ScheduleAssumption DEF Layer
        <4>2. QED BY <4>1, NumIterType DEF Position
      <3>2. bps # <<>> => Head(bps) \in Breakpoints
        BY DEF TypeOK
      <3>3. Breakpoints \subseteq Position
        <4>1. Layer \subseteq 0 .. NumLayers
          BY ScheduleAssumption DEF Layer
        <4>2. QED BY <4>1, BreakpointAssumption DEF Position
      <3>4. goal \in Position
        BY DEF TypeOK
      <3>5. QED BY <1>11, <3>1, <3>2, <3>3, <3>4 DEF UserContinue
    <2>3. finish' \in BOOLEAN /\ cmd' \in {"none", "goto", "iterate"}
      BY <1>11 DEF UserContinue, TypeOK
    <2>4. QED
      BY <1>1, <1>11, <2>1, <2>2, <2>3
      DEF UserContinue, TypeOK, SchedTypeOK, CoreTypeOK, coreVars, schedVars, mainVars,
          threadVars
  <1>12. CASE UserFinish
    <2>1. SchedTypeOK'
      BY <1>1, <1>12
      DEF UserFinish, ContinueAie, SchedTypeOK, CoreTypeOK, threadVars, Phase
    <2>2. QED BY <1>12, <2>1 DEF UserFinish, TypeOK, userVars
  <1>13. ASSUME NEW sid \in Replica, CoreStep(sid), UNCHANGED <<schedVars, userVars>>
         PROVE  TypeOK'
    <2>1. CoreTypeOK'
      BY <1>1, <1>13, CoreStepType DEF SchedTypeOK
    <2>2. QED
      BY <1>13, <2>1 DEF TypeOK, SchedTypeOK, schedVars, mainVars, threadVars, userVars
  <1>14. CASE UNCHANGED vars
    BY <1>14
    DEF TypeOK, SchedTypeOK, CoreTypeOK, vars, coreVars, schedVars, mainVars, threadVars,
        userVars
  <1>15. QED
    BY <1>2, <1>3, <1>4, <1>5, <1>6, <1>7, <1>8, <1>9, <1>10, <1>11, <1>12, <1>13, <1>14
    DEF Next, MainStep, UserStep, Primitive
-----------------------------------------------------------------------------
(* The steps of interactive mode, as far as the execution state sees them. *)

(* A loop or the user starts to step, from the iteration that is shown.    *)
StartsStep ==
  /\ phase = "idle" /\ cur # NoLayer
  /\ \/ curIt # NumIter(cur) /\ RunLayer(curIt + 1, curIt) /\ step' = "iter"
     \/ RunLayer(NumIter(cur), curIt) /\ step' = "layer"
  /\ UNCHANGED curIt

(* Only the commands and the breakpoints change.                           *)
Ponders ==
  phase = "idle" /\ UNCHANGED <<coreVars, schedVars, step, curIt>>

LEMMA Kinds ==
  ASSUME [Next]_vars
  PROVE  \/ Primitive /\ UNCHANGED userVars
         \/ Scheduled \/ IterationStepped \/ LayerStepped \/ UserFinish
         \/ StartsStep \/ Ponders
         \/ \E sid \in Replica : CoreStep(sid) /\ UNCHANGED <<schedVars, userVars>>
         \/ UNCHANGED vars
  <1>1. CASE ContinueLayers
    BY <1>1 DEF ContinueLayers, StepLayer, StartsStep, Ponders
  <1>2. CASE ContinueIterations
    BY <1>2 DEF ContinueIterations, StepIteration, StepLayer, StartsStep, Ponders
  <1>3. CASE UserStepIteration
    BY <1>3 DEF UserStepIteration, AtPrompt, StepIteration, StepLayer, StartsStep, Ponders
  <1>4. CASE UserStepLayer
    BY <1>4 DEF UserStepLayer, AtPrompt, StepLayer, StartsStep
  <1>5. CASE AddBreakpoint
    BY <1>5 DEF AddBreakpoint, AtPrompt, Ponders
  <1>6. CASE UserContinue
    BY <1>6 DEF UserContinue, AtPrompt, Ponders
  <1>7. QED
    BY <1>1, <1>2, <1>3, <1>4, <1>5, <1>6 DEF Next, MainStep, UserStep, Primitive

(* The main thread and its workers fit together, whatever the user does,   *)
(* and a step goes to an iteration that the layer has.                     *)
LEMMA NextMain ==
  ASSUME TypeOK, MainTracking, StepTarget, [Next]_vars
  PROVE  MainTracking' /\ StepTarget'
  <1>1. SchedTypeOK /\ curIt \in Nat /\ cur \in 0 .. NumLayers
        /\ (cur # NoLayer => cur \in Layer /\ NumIter(cur) \in Nat \ {0})
    BY CurrentLayer, NumIterType DEF TypeOK, SchedTypeOK
  <1>2. CASE Primitive /\ UNCHANGED userVars
    <2>1. UNCHANGED <<cur, curIt, step>>
      BY <1>2, PrimitiveType DEF userVars
    <2>2. MainTracking'
      BY <1>1, <1>2, ScheduleMain, ContinueMain, PollMain, VerifyMain, JoinMain, ThreadMain
      DEF Primitive
    <2>3. phase' \in {"threads", "ran"} =>
            phase \in {"threads", "ran"} /\ UNCHANGED target
      BY <1>2, ThreadFrame
      DEF Primitive, ScheduleLayerStart, ContinueArmed, PollStamps, VerifyStamp, AfterVerify,
          JoinLayer, mainVars
    <2>4. phase' \in {"layer", "armed", "poll", "verify", "ready"} =>
            phase \in {"layer", "armed", "poll", "verify", "ready"}
      BY <1>2, ThreadFrame
      DEF Primitive, ScheduleLayerStart, ContinueArmed, PollStamps, VerifyStamp, AfterVerify,
          JoinLayer, mainVars
    <2>5. phase' \notin {"threads", "ran", "fail"} => phase \notin {"threads", "ran", "fail"}
      BY <1>2, ThreadFrame
      DEF Primitive, ScheduleLayerStart, ContinueArmed, PollStamps, VerifyStamp, AfterVerify,
          JoinLayer, mainVars
    <2>6. QED BY <2>1, <2>2, <2>3, <2>4, <2>5 DEF StepTarget, NumIter
  <1>3. CASE Scheduled
    <2>1. MainTracking'
      BY <1>3 DEF Scheduled, MainTracking, TargetLayer, threadVars
    <2>2. QED BY <1>3, <2>1 DEF Scheduled, StepTarget, userVars, NumIter
  <1>4. CASE IterationStepped
    <2>1. MainTracking'
      BY <1>4 DEF IterationStepped, MainTracking, TargetLayer, threadVars
    <2>2. cur # NoLayer => curIt' \in 1 .. NumIter(cur)
      BY <1>1, <1>4 DEF IterationStepped, StepTarget, TypeOK, Layer, NoLayer
    <2>3. QED BY <1>4, <2>1, <2>2 DEF IterationStepped, StepTarget, NumIter
  <1>5. CASE LayerStepped
    <2>1. cur \in Layer /\ cur' = cur + 1 /\ curIt' = 1
      BY <1>5 DEF LayerStepped, TypeOK
    <2>2. cur' # NoLayer => cur' \in Layer
      BY <2>1, ScheduleAssumption DEF Layer, NoLayer
    <2>3. /\ phase' \in {"layer", "idle"} /\ UNCHANGED <<active, torun, pending, thread>>
          /\ phase' = "idle" => cur' = NoLayer
      <3>1. ~HasNextLayer => cur + 1 = NumLayers
        BY <2>1, ScheduleAssumption DEF HasNextLayer, Layer
      <3>2. QED BY <1>5, <2>1, <3>1 DEF LayerStepped, threadVars, NoLayer
    <2>4. MainTracking'
      <3>1. torun = {} /\ pending = {} /\ \A sid \in Replica : thread[sid] = "idle"
        BY <1>5 DEF LayerStepped, MainTracking
      <3>2. QED BY <2>3, <3>1 DEF MainTracking
    <2>5. cur' # NoLayer => NumIter(cur') \in Nat \ {0}
      BY <2>2, NumIterType
    <2>6. QED BY <1>5, <2>1, <2>4, <2>5 DEF LayerStepped, StepTarget, NumIter
  <1>6. CASE UserFinish
    <2>1. MainTracking'
      BY <1>6 DEF UserFinish, AtPrompt, MainTracking, TargetLayer, threadVars
    <2>2. QED BY <1>6, <2>1 DEF UserFinish, AtPrompt, StepTarget, userVars, NumIter
  <1>7. CASE StartsStep
    <2>1. curIt \in 1 .. NumIter(cur) /\ NumIter(cur) \in Nat
      BY <1>1, <1>7 DEF StartsStep, StepTarget
    <2>2. CASE curIt # NumIter(cur) /\ RunLayer(curIt + 1, curIt) /\ step' = "iter"
      <3>1. curIt + 1 \in 1 .. NumIter(cur)
        BY <2>1, <2>2
      <3>2. MainTracking'
        BY <1>7, <2>2, <3>1, RunLayerMain DEF StartsStep
      <3>3. QED
        BY <1>7, <2>1, <2>2, <3>1, <3>2 DEF StartsStep, StepTarget, RunLayer, NumIter
    <2>3. CASE RunLayer(NumIter(cur), curIt) /\ step' = "layer"
      <3>1. NumIter(cur) \in 1 .. NumIter(cur)
        BY <2>1
      <3>2. MainTracking'
        BY <1>7, <2>3, <3>1, RunLayerMain DEF StartsStep
      <3>3. QED BY <1>7, <2>3, <3>2 DEF StartsStep, StepTarget, RunLayer, NumIter
    <2>4. QED BY <1>7, <2>2, <2>3 DEF StartsStep
  <1>8. CASE UNCHANGED <<schedVars, step, curIt>>
    <2>1. MainTracking'
      BY <1>8, UnchangedMain
    <2>2. QED BY <1>8, <2>1 DEF StepTarget, schedVars, mainVars, NumIter
  <1>9. QED
    BY <1>2, <1>3, <1>4, <1>5, <1>6, <1>7, <1>8, Kinds DEF Ponders, vars, userVars

LEMMA TypeAndMain == Spec => [](TypeOK /\ MainTracking /\ StepTarget)
  <1>1. Init => TypeOK /\ MainTracking /\ StepTarget
    <2>1. Init => cur \in Layer /\ curIt = 1 /\ phase = "layer" /\ step = "none"
      BY ScheduleAssumption DEF Init, SchedInit, Layer
    <2>2. Init => StepTarget
      BY <2>1, NumIterType DEF StepTarget
    <2>3. QED BY <2>2, InitType, InitMain DEF Init
  <1>2. TypeOK /\ MainTracking /\ StepTarget /\ [Next]_vars
          => TypeOK' /\ MainTracking' /\ StepTarget'
    BY NextType, NextMain
  <1>3. QED BY <1>1, <1>2, PTL DEF Spec

(* The variables keep their types.                                         *)
THEOREM TypeCorrect == Spec => []TypeOK
  BY TypeAndMain, PTL
-----------------------------------------------------------------------------
(* Interactive mode implements LockStep.                                   *)

LEMMA InitImplements == Init => SeenTracking /\ Steps!Init
  <1>1. Init => SeenTracking
    BY InitSeen DEF Init, SeenTracking, SchedInit
  <1>2. Init => Steps!Init
    BY StepsSchedule DEF Init, SchedInit, Steps!Init
  <1>3. QED BY <1>1, <1>2

(* Every step keeps the record of what was observed, and is a step of      *)
(* LockStep or leaves what LockStep sees alone.                            *)
LEMMA NextImplements ==
  ASSUME TypeOK, MainTracking, StepTarget, SeenTracking, [Next]_vars
  PROVE  SeenTracking' /\ [Steps!Next]_Steps!vars
  <1> DEFINE Seen == \A sid \in Replica : ReplicaSeen(sid)
  <1>1. SchedTypeOK /\ Seen /\ (cur # NoLayer => cur \in Layer /\ NumIter(cur) \in Nat \ {0})
    BY CurrentLayer, NumIterType DEF TypeOK, SchedTypeOK, SeenTracking
  <1>2. Seen' /\ phase' # "idle" => SeenTracking'
    BY DEF SeenTracking
  <1>3. CASE Primitive /\ UNCHANGED userVars
    <2>1. cur \in Layer /\ phase' # "idle"
      BY <1>3, PrimitiveType
    <2>2. Seen' /\ [Steps!Next]_Steps!vars
      BY <1>1, <1>3, <2>1, StartSeen, PollSeen, VerifySeen, ThreadSeen, JoinSeen
      DEF Primitive
    <2>3. QED BY <1>2, <2>1, <2>2
  <1>4. CASE Scheduled \/ IterationStepped
    <2>1. /\ phase \in {"ready", "ran"} /\ phase' = "idle" /\ UNCHANGED <<seen, active, cur>>
          /\ cur \in Layer
      BY <1>4 DEF Scheduled, IterationStepped, TypeOK
    <2>2. curIt' = IF phase = "ready" THEN 1 ELSE target
      BY <1>4 DEF Scheduled, IterationStepped, StepTarget, userVars
    <2>3. cur # NoLayer
      BY <2>1, ScheduleAssumption DEF Layer, NoLayer
    <2>4. ASSUME NEW sid \in Replica
          PROVE  IF sid \in active THEN SeenAt(sid, curIt') ELSE Through(sid, cur)
      BY <1>1, <2>1, <2>2 DEF ReplicaSeen
    <2>5. ASSUME NEW sid \in Replica
          PROVE  IF sid \in active' THEN SeenAt(sid, curIt)' ELSE Through(sid, cur)'
      BY <2>1, <2>4, SeenFrame DEF SeenAt
    <2>6. SeenTracking'
      BY <2>1, <2>3, <2>5 DEF SeenTracking, ReplicaSeen
    <2>7. QED BY <2>1, <2>6, Quiet
  <1>5. CASE LayerStepped
    <2>1. /\ phase = "ran" /\ UNCHANGED <<seen, active>> /\ target = NumIter(cur)
          /\ cur \in Layer /\ cur' = cur + 1
      BY <1>5 DEF LayerStepped, StepTarget, TypeOK
    <2>2. active = {sid \in Replica : TargetLayer(sid) = cur}
      BY <2>1, ScheduleAssumption DEF MainTracking, Layer, NoLayer
    <2>3. ASSUME NEW sid \in Replica PROVE Through(sid, cur + 1)
      <3>1. CASE sid \in active
        BY <1>1, <2>1, <3>1, ThroughStepped DEF ReplicaSeen
      <3>2. CASE sid \notin active
        BY <1>1, <2>1, <2>2, <3>2, TargetIsCurrent, ThroughSkipped DEF ReplicaSeen
      <3>3. QED BY <3>1, <3>2
    <2>4. \A sid \in Replica : Through(sid, cur)'
      BY <2>1, <2>3, SeenFrame DEF Through
    <2>5. phase' = "layer" \/ (phase' = "idle" /\ cur' = NoLayer)
      <3>1. ~HasNextLayer => cur + 1 = NumLayers
        BY <2>1, ScheduleAssumption DEF HasNextLayer, Layer
      <3>2. QED BY <1>5, <2>1, <3>1 DEF LayerStepped, NoLayer
    <2>6. SeenTracking'
      BY <2>4, <2>5 DEF SeenTracking, ReplicaSeen, NoLayer
    <2>7. QED BY <2>1, <2>5, <2>6, Quiet
  <1>6. CASE UserFinish
    <2>1. phase = "idle" /\ phase' = "exited" /\ UNCHANGED seen
      BY <1>6 DEF UserFinish, AtPrompt
    <2>2. SeenTracking'
      BY <2>1 DEF SeenTracking, ReplicaSeen
    <2>3. QED BY <2>1, <2>2, GivingUp
  <1>7. CASE StartsStep
    <2>1. phase = "idle" /\ cur # NoLayer
      BY <1>7 DEF StartsStep
    <2>2. curIt \in 1 .. NumIter(cur) /\ NumIter(cur) \in Nat
      BY <1>1, <2>1 DEF StepTarget
    <2>3. \A sid \in Replica : IF sid \in active THEN SeenAt(sid, curIt) ELSE Through(sid, cur)
      BY <2>1 DEF SeenTracking
    <2>4. ASSUME NEW t, t \in {curIt + 1, NumIter(cur)}, RunLayer(t, curIt)
          PROVE  SeenTracking' /\ [Steps!Next]_Steps!vars
      <3>1. t \in Nat /\ curIt \in 1 .. t
        BY <2>2, <2>4
      <3>2. Seen' /\ UNCHANGED Steps!vars
        BY <1>1, <2>1, <2>3, <2>4, <3>1, RunLayerSeen
      <3>3. QED BY <1>2, <2>4, <3>2 DEF RunLayer
    <2>5. QED BY <1>7, <2>4 DEF StartsStep
  <1>8. CASE UNCHANGED <<schedVars, curIt>>
    <2>1. Seen' /\ UNCHANGED Steps!vars
      BY <1>1, <1>8, UnchangedSeen
    <2>2. UNCHANGED <<seen, phase, cur, active, curIt>>
      BY <1>8 DEF schedVars, mainVars
    <2>3. \A sid \in Replica : /\ SeenAt(sid, curIt)' <=> SeenAt(sid, curIt)
                               /\ Through(sid, cur)' <=> Through(sid, cur)
      BY <2>2, SeenFrame DEF SeenAt
    <2>4. QED BY <2>1, <2>2, <2>3 DEF SeenTracking
  <1>9. QED
    BY <1>3, <1>4, <1>5, <1>6, <1>7, <1>8, Kinds DEF Ponders, vars, userVars

(* Interactive mode keeps the promise of LockStep for every design and     *)
(* whatever the user types: the replicas are observed in program order and *)
(* in lock step, no matter how iteration steps, layer steps and continues  *)
(* follow one another.                                                     *)
THEOREM InteractiveImplements == Spec => StepsInLockStep
  <1>1. Init => Steps!Init
    BY InitImplements
  <1>2. Spec => []SeenTracking
    <2>1. Init => SeenTracking
      BY InitImplements
    <2>2. (TypeOK /\ MainTracking /\ StepTarget) /\ SeenTracking /\ [Next]_vars => SeenTracking'
      BY NextImplements
    <2>3. QED BY <2>1, <2>2, TypeAndMain, PTL DEF Spec
  <1>3. (TypeOK /\ MainTracking /\ StepTarget) /\ SeenTracking /\ [Next]_vars
          => [Steps!Next]_Steps!vars
    BY NextImplements
  <1>4. QED
    BY <1>1, <1>2, <1>3, TypeAndMain, PTL DEF Spec, StepsInLockStep, Steps!Spec
-----------------------------------------------------------------------------
(* Where the cores are, in the designs the controller can track.  With one *)
(* batch step_layer recomputes the reload state of the right replicas.     *)

LEMMA RecomputedRight ==
  ASSUME Batches = 1, cur \in Layer
  PROVE  \A sid \in Replica : sid \in Recomputed <=> RunsReplica(cur, sid)
  <1>1. ASSUME NEW sid \in Replica PROVE StampOf(sid) = sid
    <2>1. StampsPerBatch \in Nat /\ sid \in 0 .. StampsPerBatch - 1
      BY ScheduleAssumption DEF Replica
    <2>2. QED BY <2>1 DEF StampOf
  <1>2. QED BY <1>1 DEF Recomputed, RunsReplica

LEMMA NextTracking ==
  ASSUME Batches = 1, TypeOK, MainTracking, StepTarget, Tracking, [Next]_vars
  PROVE  Tracking'
  <1> DEFINE Known == phase \notin {"exited", "fail"} /\ cur # NoLayer
             Stepped == phase = "idle" => \A sid \in active : SteppedTo(sid, curIt)
  <1>1. Tracked /\ Tracked' /\ SchedTypeOK
        /\ (cur # NoLayer => cur \in Layer /\ NumIter(cur) \in Nat \ {0})
    BY CurrentLayer, NumIterType DEF Tracking, Tracked, TypeOK, SchedTypeOK
  <1>2. Known => CoreTracking /\ Stepped
    BY DEF Tracking
  <1>3. (Known' => CoreTracking' /\ Stepped') => Tracking'
    BY <1>1 DEF Tracking
  <1>4. CASE Primitive /\ UNCHANGED userVars
    <2>1. cur \in Layer /\ phase' # "idle" /\ UNCHANGED cur
      BY <1>4, PrimitiveType
    <2>2. phase \notin {"exited", "fail"}
      BY <1>4, ThreadFrame
      DEF Primitive, ScheduleLayerStart, ContinueArmed, PollStamps, VerifyStamp, JoinLayer
    <2>3. CoreTracking
      BY <1>2, <2>1, <2>2, ScheduleAssumption DEF Layer, NoLayer
    <2>4. phase' \notin {"exited", "fail"} => CoreTracking'
      BY <1>1, <1>4, <2>1, <2>3, ScheduleCores, ContinueCores, PollCores, VerifyCores,
         JoinCores, ThreadCores
      DEF Primitive
    <2>5. QED BY <1>3, <2>1, <2>4
  <1>5. CASE Scheduled \/ IterationStepped
    <2>1. /\ phase \in {"ready", "ran"} /\ phase' = "idle" /\ cur \in Layer
          /\ UNCHANGED <<coreVars, cur, scheduled, pmReload, active, torun>>
      BY <1>5 DEF Scheduled, IterationStepped, TypeOK
    <2>2. curIt' = IF phase = "ready" THEN 1 ELSE target
      BY <1>5 DEF Scheduled, IterationStepped, StepTarget, userVars
    <2>3. CoreTracking /\ \A sid \in active : TargetLayer(sid) # NoLayer
      BY <1>2, <2>1, ScheduleAssumption DEF MainTracking, Layer, NoLayer
    <2>4. \A sid : TargetLayer(sid)' = TargetLayer(sid)
      BY <2>1 DEF TargetLayer
    <2>5. ASSUME NEW sid \in Replica, TargetLayer(sid) # NoLayer
          PROVE  IF sid \in active THEN SteppedTo(sid, curIt)' ELSE Armed(sid)'
      <3>1. IF sid \in active THEN SteppedTo(sid, curIt') ELSE Armed(sid)
        BY <2>1, <2>2, <2>3, <2>5 DEF CoreTracking, ReplicaTracking
      <3>2. QED
        BY <2>1, <3>1, ArmedFrame
        DEF SteppedTo, Verified, HaltedAt, LetGo, coreVars
    <2>6. CoreTracking'
      BY <2>1, <2>3, <2>4, <2>5 DEF CoreTracking, ReplicaTracking
    <2>7. Stepped'
      BY <1>1, <2>1, <2>3, <2>5 DEF SchedTypeOK
    <2>8. QED BY <1>3, <2>6, <2>7
  <1>6. CASE LayerStepped
    <2>1. /\ phase = "ran" /\ target = Iterations[cur] /\ cur \in Layer /\ cur' = cur + 1
          /\ UNCHANGED <<coreVars, scheduled, torun>>
      BY <1>1, <1>6 DEF LayerStepped, StepTarget, TypeOK, Tracked, NumIter
    <2>2. CASE HasNextLayer
      <3>1. CoreTracking
        BY <1>2, <2>1, ScheduleAssumption DEF Layer, NoLayer
      <3>2. pmReload' = [sid \in Replica |-> IF RunsReplica(cur, sid)
                                               THEN CheckPmReload(sid) ELSE pmReload[sid]]
        BY <1>6, <2>1, RecomputedRight DEF LayerStepped
      <3>3. phase' = "layer"
        BY <1>6, <2>2 DEF LayerStepped
      <3>4. CoreTracking'
        BY <1>1, <2>1, <2>2, <3>1, <3>2, <3>3, NextLayerCores
      <3>5. QED BY <1>3, <3>3, <3>4
    <2>3. CASE ~HasNextLayer
      <3>1. cur' = NoLayer
        BY <2>1, <2>3, ScheduleAssumption DEF HasNextLayer, Layer, NoLayer
      <3>2. QED BY <1>3, <3>1 DEF NoLayer
    <2>4. QED BY <2>2, <2>3
  <1>7. CASE UserFinish
    BY <1>3, <1>7 DEF UserFinish
  <1>8. CASE StartsStep
    <2>1. phase = "idle" /\ cur # NoLayer
      BY <1>8 DEF StartsStep
    <2>2. curIt \in 1 .. NumIter(cur) /\ NumIter(cur) \in Nat
      BY <1>1, <2>1 DEF StepTarget
    <2>3. CoreTracking /\ \A sid \in active : SteppedTo(sid, curIt)
      BY <1>2, <2>1
    <2>4. ASSUME NEW t, t \in {curIt + 1, NumIter(cur)}, RunLayer(t, curIt)
          PROVE  Tracking'
      <3>1. t \in Nat /\ curIt \in 1 .. t
        BY <2>2, <2>4
      <3>2. CoreTracking'
        BY <2>1, <2>3, <2>4, <3>1, RunLayerCores
      <3>3. QED BY <1>3, <2>4, <3>2 DEF RunLayer
    <2>5. QED BY <1>8, <2>4 DEF StartsStep
  <1>9. ASSUME NEW r \in Replica, CoreStep(r), UNCHANGED <<schedVars, userVars>>
        PROVE  Tracking'
    <2>1. UNCHANGED <<phase, cur, active, curIt>>
      BY <1>9 DEF schedVars, mainVars, userVars
    <2>2. Known => CoreTracking'
      BY <1>1, <1>2, <1>9, CoreCores
    <2>3. Known => Stepped'
      <3>1. ASSUME NEW sid \in active, SteppedTo(sid, curIt) PROVE SteppedTo(sid, curIt)'
        <4>1. sid \in Replica
          BY <1>1 DEF SchedTypeOK
        <4>2. PICK i : i = curIt
          OBVIOUS
        <4>3. SteppedTo(sid, i)'
          BY <1>1, <1>9, <3>1, <4>1, <4>2, SteppedToKept
        <4>4. QED BY <2>1, <4>2, <4>3
      <3>2. QED BY <1>2, <2>1, <3>1
    <2>4. QED BY <1>3, <2>1, <2>2, <2>3 DEF NoLayer
  <1>10. CASE UNCHANGED <<coreVars, schedVars, curIt>>
    <2>1. UNCHANGED <<phase, cur, active, curIt, scheduled, pmReload>>
      BY <1>10 DEF schedVars, mainVars
    <2>2. Known => CoreTracking'
      BY <1>2, <1>10, UnchangedCores
    <2>3. Known => Stepped'
      BY <1>2, <1>10, <2>1 DEF SteppedTo, Verified, HaltedAt, LetGo, coreVars
    <2>4. QED BY <1>3, <2>1, <2>2, <2>3 DEF NoLayer
  <1>11. QED
    BY <1>4, <1>5, <1>6, <1>7, <1>8, <1>9, <1>10, Kinds DEF Ponders, vars, userVars

(* In a tracked design of one batch, when no wait gives up, the controller *)
(* knows where every replica is, whatever the user does.                   *)
THEOREM TrackingCorrect ==
  ASSUME Tracked, Batches = 1
  PROVE  Spec => []Tracking
  <1>1. Init => Tracking
    BY InitCores DEF Init, SchedInit, Tracking
  <1>2. (TypeOK /\ MainTracking /\ StepTarget) /\ Tracking /\ [Next]_vars => Tracking'
    BY NextTracking
  <1>3. QED BY <1>1, <1>2, TypeAndMain, PTL DEF Spec

(* When no wait gives up, every replica of the current layer is stopped at *)
(* the prompt at the start of the iteration that is shown, or is let go    *)
(* for good.                                                               *)
THEOREM StoppedCorrect ==
  ASSUME Tracked, Batches = 1
  PROVE  Spec => []StoppedUnlessFinished
  <1>1. Tracking => StoppedUnlessFinished
    <2>1. SUFFICES ASSUME Tracking, AtPrompt, cur # NoLayer, NEW sid \in active
                   PROVE  \/ Parked(sid)
                          \/ /\ ~IsLeftmost(sid) /\ mode[sid] = "off"
                             /\ curIt = NumIter(cur)
                             /\ NextLayerFor(StampOf(sid), cur + 1) = NoLayer
      BY DEF StoppedUnlessFinished
    <2>2. SteppedTo(sid, curIt)
      BY <2>1 DEF Tracking, AtPrompt
    <2>3. NumIter(cur) = Iterations[cur]
      BY <2>1 DEF Tracking, Tracked, NumIter
    <2>4. QED BY <2>2, <2>3 DEF SteppedTo, HaltedAt, LetGo, Parked, Here
  <1>2. QED BY <1>1, TrackingCorrect, PTL

(* A replica whose start breakpoint is processed is at that very start.    *)
LEMMA ObservationHolds ==
  ASSUME TypeOK, MainTracking, Tracking, Next, NEW sid \in Replica, seen'[sid] # seen[sid]
  PROVE  seen'[sid] = at'[sid]
  <1>1. phase \in {"verify", "threads"} => cur \in Layer /\ CoreTracking /\ Tracked
    <2>1. phase \in {"verify", "threads"} => cur \in Layer
      BY DEF TypeOK
    <2>2. QED BY <2>1, ScheduleAssumption DEF Tracking, Layer, NoLayer
  <1>2. ASSUME NEW r \in Replica, VerifyStamp(r) PROVE seen'[sid] = at'[sid]
    BY <1>1, <1>2, VerifyTrue DEF VerifyStamp, TypeOK
  <1>3. ASSUME NEW r \in Replica, ThreadStep(r) PROVE seen'[sid] = at'[sid]
    BY <1>1, <1>3, ThreadFrame, ThreadTrue DEF TypeOK
  <1>4. QED
    BY <1>2, <1>3, Kinds
    DEF Primitive, ScheduleLayerStart, ContinueArmed, PollStamps, JoinLayer, Scheduled,
        IterationStepped, LayerStepped, UserFinish, StartsStep, RunLayer, Ponders, vars,
        schedVars

(* In a tracked design of one batch, when no wait gives up, no breakpoint  *)
(* is processed at any other place than the iteration it is reported for.  *)
THEOREM ObservationsTrue ==
  ASSUME Tracked, Batches = 1
  PROVE  Spec => ObservationsAreTrue
  <1>1. (TypeOK /\ MainTracking /\ StepTarget) /\ Tracking /\ [Next]_vars =>
          [\A sid \in Replica : seen'[sid] # seen[sid] => seen'[sid] = at'[sid]]_vars
    BY ObservationHolds
  <1>2. QED
    BY <1>1, TypeAndMain, TrackingCorrect, PTL DEF Spec, ObservationsAreTrue
-----------------------------------------------------------------------------
(* Breakpoints.                                                            *)

(* The iterations the user asks for are iterations the layers have.        *)
InRange == \A b \in Breakpoints : b.it \in 1 .. NumIter(b.layer)

(* Positions are ordered by the execution list.                            *)
LEMMA BeforeOrder ==
  ASSUME NEW a \in Position, NEW b \in Position, NEW c \in Position
  PROVE  /\ ~Before(a, a)
         /\ Before(a, b) => ~Before(b, a)
         /\ ~Before(b, a) /\ ~Before(c, b) => ~Before(c, a)
  BY ScheduleAssumption DEF Position, Before

LEMMA BreakpointType ==
  ASSUME NEW b \in Breakpoints
  PROVE  b \in Position /\ b.layer \in Layer
  <1>1. Layer \subseteq 0 .. NumLayers
    BY ScheduleAssumption DEF Layer
  <1>2. QED BY <1>1, BreakpointAssumption DEF Position

(* The pending breakpoints are in execution order. *)
Sorted(s) == \A i, j \in DOMAIN s : i < j => ~Before(s[j], s[i])

(* A breakpoint is sorted in after the ones that do not come later.        *)
LEMMA InsertSorted ==
  ASSUME bps \in Seq(Breakpoints), Sorted(bps), NEW b \in Breakpoints
  PROVE  Sorted(Insert(b))
  <1> DEFINE N == Len(bps)
             P(i) == ~Before(b, bps[i])
             A(i) == i <= N /\ P(i)
             B(i) == ~A(i) /\ (i = 1 \/ P(i - 1))
             C(i) == ~A(i) /\ ~B(i)
  <1>1. N \in Nat /\ DOMAIN bps = 1 .. N /\ \A i \in 1 .. N : bps[i] \in Position
    BY BreakpointType
  <1>2. b \in Position
    BY BreakpointType
  <1>3. \A i \in 1 .. N : ~Before(bps[i], b) \/ P(i)
    BY <1>1, <1>2, BeforeOrder
  <1>4. ASSUME NEW i \in 1 .. N, NEW j \in 1 .. N, i <= j, P(j) PROVE P(i)
    <2>1. CASE i = j
      BY <1>4, <2>1
    <2>2. CASE i < j
      <3>1. ~Before(bps[j], bps[i])
        BY <1>1, <2>2 DEF Sorted
      <3>2. QED BY <1>1, <1>2, <1>4, <3>1, BeforeOrder
    <2>3. QED BY <1>1, <1>4, <2>1, <2>2
  <1>5. \A i \in 1 .. N + 1 :
          /\ A(i) => Insert(b)[i] = bps[i]
          /\ B(i) => Insert(b)[i] = b
          /\ C(i) => Insert(b)[i] = bps[i - 1]
    BY DEF Insert
  <1>6. ASSUME NEW i \in 1 .. N + 1, NEW j \in 1 .. N + 1, i < j
        PROVE  ~Before(Insert(b)[j], Insert(b)[i])
    <2>1. /\ i \in 1 .. N /\ j - 1 \in 1 .. N /\ i <= j - 1
          /\ i # 1 => i - 1 \in 1 .. N /\ i - 1 < j - 1
      BY <1>1, <1>6
    <2>2. A(j) => A(i)
      BY <1>1, <1>4, <1>6, <2>1
    <2>3. B(j) => A(i)
      BY <1>1, <1>4, <1>6, <2>1
    <2>4. CASE C(j)
      <3>1. Insert(b)[j] = bps[j - 1] /\ ~P(j - 1) /\ bps[j - 1] \in Position
        BY <1>1, <1>5, <2>1, <2>4
      <3>2. CASE A(i)
        <4>1. i = j - 1 \/ ~Before(bps[j - 1], bps[i])
          BY <1>1, <2>1 DEF Sorted
        <4>2. QED BY <1>1, <1>5, <2>1, <3>1, <3>2, <4>1, BeforeOrder
      <3>3. CASE B(i)
        BY <1>2, <1>5, <3>1, <3>3, BeforeOrder
      <3>4. CASE C(i)
        <4>1. i # 1 /\ Insert(b)[i] = bps[i - 1]
          BY <1>5, <3>4
        <4>2. QED BY <1>1, <2>1, <3>1, <4>1 DEF Sorted
      <3>5. QED BY <3>2, <3>3, <3>4
    <2>5. CASE A(j)
      <3>1. Insert(b)[j] = bps[j] /\ Insert(b)[i] = bps[i] /\ j \in 1 .. N
        BY <1>5, <1>6, <2>2, <2>5
      <3>2. QED BY <1>1, <1>6, <2>1, <3>1 DEF Sorted
    <2>6. CASE B(j)
      BY <1>1, <1>2, <1>5, <2>1, <2>3, <2>6, BeforeOrder
    <2>7. QED BY <2>4, <2>5, <2>6
  <1>7. DOMAIN Insert(b) = 1 .. N + 1
    BY DEF Insert
  <1>8. QED BY <1>6, <1>7 DEF Sorted
(* The loops of continue_execution never go beyond their goal.             *)
LEMMA NextBreakpoints ==
  ASSUME InRange, TypeOK, StepTarget, BreakpointTracking, [Next]_vars
  PROVE  BreakpointTracking'
  <1> DEFINE Ordered == Sorted(bps)
             Ahead   == cmd # "none" /\ ~finish =>
                          goal \in Breakpoints /\ \A i \in DOMAIN bps : ~Before(bps[i], goal)
             Goes    == cmd = "goto" =>
                          /\ step # "iter"
                          /\ step = "layer" /\ ~finish => cur < goal.layer
                          /\ finish => bps = <<>>
             Iterates == cmd = "iterate" =>
                           /\ cur >= goal.layer /\ goal \in Breakpoints
                           /\ step = "iter" => curIt < goal.it /\ ~finish
                           /\ step = "layer" => cur > goal.layer
                           /\ finish => cur = NoLayer \/
                                          (cur = NumLayers - 1 /\ curIt = NumIter(cur))
  <1>1. BreakpointTracking <=> Ordered /\ Ahead /\ Goes /\ Iterates
    BY DEF BreakpointTracking, Sorted
  <1>2. BreakpointTracking' <=> Ordered' /\ Ahead' /\ Goes' /\ Iterates'
    BY DEF BreakpointTracking, Sorted
  <1>3. Ordered /\ Ahead /\ Goes /\ Iterates
    BY <1>1
  <1>4. /\ cur \in 0 .. NumLayers /\ curIt \in Nat /\ goal \in Position
        /\ \A b \in Breakpoints : b \in Position /\ b.layer \in Layer /\ b.it \in 1 .. NumIter(b.layer)
        /\ phase = "idle" => step = "none"
        /\ cmd \in {"none", "goto", "iterate"} /\ finish \in BOOLEAN
    BY BreakpointType DEF TypeOK, SchedTypeOK, InRange, StepTarget
  <1>5. ASSUME UNCHANGED <<cur, curIt, bps, finish, step, cmd, goal>>
        PROVE  BreakpointTracking'
    BY <1>3, <1>5 DEF BreakpointTracking, NumIter, Sorted
  <1>6. CASE Primitive /\ UNCHANGED userVars
    <2>1. UNCHANGED cur
      BY <1>6, PrimitiveFrame
    <2>2. QED BY <1>5, <1>6, <2>1 DEF userVars
  <1>7. CASE Scheduled
    BY <1>5, <1>7 DEF Scheduled, userVars
  <1>8. CASE IterationStepped
    <2>1. /\ step = "iter" /\ step' = "none" /\ curIt' = curIt + 1
          /\ finish' = (finish \/ (cur = NumLayers - 1 /\ curIt' = NumIter(cur)))
          /\ UNCHANGED <<cur, bps, cmd, goal>>
      BY <1>8 DEF IterationStepped
    <2>2. cmd # "goto"
      BY <1>3, <2>1
    <2>3. cmd = "iterate" => ~finish
      BY <1>3, <2>1
    <2>4. Ordered' /\ Ahead' /\ Goes'
      BY <1>3, <2>1, <2>2
    <2>5. Iterates'
      BY <1>3, <2>1, <2>3 DEF NumIter
    <2>6. QED BY <1>2, <2>4, <2>5
  <1>9. CASE LayerStepped
    <2>1. /\ step = "layer" /\ step' = "none" /\ cur \in Layer /\ cur' = cur + 1
          /\ IF HasNextLayer THEN UNCHANGED finish ELSE finish' = TRUE
          /\ UNCHANGED <<bps, cmd, goal>>
      BY <1>9 DEF LayerStepped, TypeOK
    <2>2. ~HasNextLayer <=> cur' = NoLayer
      BY <2>1, ScheduleAssumption DEF HasNextLayer, Layer, NoLayer
    <2>3. Ordered' /\ Ahead'
      BY <1>3, <1>4, <2>1
    <2>4. Goes'
      <3>1. SUFFICES ASSUME cmd = "goto", finish' PROVE bps = <<>>
        BY <2>1
      <3>2. CASE finish
        BY <1>3, <3>1, <3>2
      <3>3. CASE ~finish
        <4>1. cur < goal.layer /\ goal.layer \in Layer
          BY <1>3, <1>4, <2>1, <3>1, <3>3
        <4>2. HasNextLayer
          BY <2>1, <4>1, ScheduleAssumption DEF HasNextLayer, Layer
        <4>3. QED BY <2>1, <3>1, <3>3, <4>2
      <3>4. QED BY <3>2, <3>3
    <2>5. Iterates'
      <3>1. SUFFICES ASSUME cmd = "iterate"
                     PROVE  cur' >= goal.layer /\ goal \in Breakpoints
                            /\ (finish' => cur' = NoLayer)
        BY <2>1 DEF NoLayer
      <3>2. cur > goal.layer /\ goal \in Breakpoints /\ goal.layer \in Layer
        BY <1>3, <1>4, <2>1, <3>1
      <3>3. finish => ~HasNextLayer
        BY <1>3, <2>1, <3>1, ScheduleAssumption DEF HasNextLayer, Layer, NoLayer
      <3>4. cur' >= goal.layer
        BY <2>1, <3>2 DEF Layer
      <3>5. QED BY <2>1, <2>2, <3>2, <3>3, <3>4
    <2>6. QED BY <1>2, <2>3, <2>4, <2>5
  <1>10. CASE ContinueLayers
    <2>1. phase = "idle" /\ cmd = "goto" /\ step = "none"
          /\ UNCHANGED <<curIt, bps, finish, goal>>
      BY <1>4, <1>10 DEF ContinueLayers
    <2>2. UNCHANGED cur
      BY <1>10 DEF ContinueLayers, StepLayer, RunLayer, schedVars, mainVars
    <2>3. CASE cur < goal.layer /\ StepLayer /\ UNCHANGED cmd
      BY <1>2, <1>3, <2>1, <2>2, <2>3 DEF StepLayer
    <2>4. CASE cur >= goal.layer /\ finish /\ StepLayer /\ cmd' = "none"
      BY <1>2, <1>3, <2>1, <2>2, <2>4
    <2>5. CASE /\ cur >= goal.layer /\ ~finish /\ cmd' = "iterate"
               /\ UNCHANGED <<coreVars, schedVars, step>>
      BY <1>2, <1>3, <2>1, <2>2, <2>5
    <2>6. QED BY <1>10, <2>3, <2>4, <2>5 DEF ContinueLayers
  <1>11. CASE ContinueIterations
    <2>1. phase = "idle" /\ cmd = "iterate" /\ step = "none"
          /\ UNCHANGED <<curIt, bps, finish, goal>>
      BY <1>4, <1>11 DEF ContinueIterations
    <2>2. UNCHANGED cur
      BY <1>11
      DEF ContinueIterations, StepIteration, StepLayer, RunLayer, schedVars, mainVars
    <2>3. Ordered' /\ Ahead' /\ Goes'
      BY <1>3, <1>11, <2>1 DEF ContinueIterations
    <2>4. CASE cmd' = "none"
      BY <1>2, <2>3, <2>4
    <2>5. CASE curIt < goal.it /\ StepIteration /\ UNCHANGED cmd
      <3>1. CASE UNCHANGED step
        BY <1>2, <1>3, <2>1, <2>2, <2>3, <2>5, <3>1 DEF NumIter
      <3>2. CASE cur # NoLayer /\ curIt = NumIter(cur) /\ step' = "layer"
        <4>1. cur # goal.layer
          BY <1>3, <1>4, <2>1, <2>5, <3>2, NumIterType
        <4>2. cur > goal.layer
          BY <1>3, <1>4, <2>1, <4>1 DEF Position
        <4>3. Iterates'
          BY <1>3, <2>1, <2>2, <3>2, <4>2 DEF NumIter
        <4>4. QED BY <1>2, <2>3, <4>3
      <3>3. CASE cur # NoLayer /\ curIt # NumIter(cur) /\ step' = "iter"
        <4>1. ~finish
          BY <1>3, <2>1, <3>3
        <4>2. Iterates'
          BY <1>3, <2>1, <2>2, <2>5, <3>3, <4>1 DEF NumIter
        <4>3. QED BY <1>2, <2>3, <4>2
      <3>4. QED BY <2>5, <3>1, <3>2, <3>3 DEF StepIteration, StepLayer
    <2>6. QED BY <1>11, <2>4, <2>5 DEF ContinueIterations
  <1>12. CASE UserStepIteration \/ UserStepLayer
    <2>1. cmd = "none" /\ UNCHANGED <<bps, cmd>>
      BY <1>12 DEF UserStepIteration, UserStepLayer, AtPrompt
    <2>2. QED BY <1>2, <1>3, <2>1
  <1>13. CASE AddBreakpoint
    <2>1. cmd = "none" /\ UNCHANGED cmd
      BY <1>13 DEF AddBreakpoint, AtPrompt
    <2>2. PICK b \in Breakpoints : bps' = Insert(b)
      BY <1>13 DEF AddBreakpoint
    <2>3. bps \in Seq(Breakpoints)
      BY DEF TypeOK
    <2>4. Sorted(Insert(b))
      BY <1>3, <2>3, InsertSorted
    <2>5. Ordered'
      BY <2>2, <2>4 DEF Sorted, Before
    <2>6. QED BY <1>2, <2>1, <2>5
  <1>14. CASE UserContinue
    <2>1. /\ cmd = "none" /\ step = "none" /\ UNCHANGED <<cur, curIt, step>> /\ ~finish
      BY <1>4, <1>14 DEF UserContinue, AtPrompt, schedVars, mainVars
    <2>2. CASE UNCHANGED <<bps, cmd, goal>>
      BY <1>2, <1>3, <2>1, <2>2
    <2>3. CASE bps = <<>> /\ finish' = TRUE /\ cmd' = "goto" /\ UNCHANGED bps
      BY <1>2, <1>3, <2>1, <2>3
    <2>4. CASE /\ bps # <<>> /\ cmd' = "goto" /\ goal' = Head(bps) /\ bps' = Tail(bps)
               /\ UNCHANGED finish
      <3>1. bps \in Seq(Breakpoints) /\ Len(bps) \in Nat /\ Len(bps) >= 1
        BY <2>4 DEF TypeOK
      <3>2. /\ goal' = bps[1] /\ DOMAIN bps = 1 .. Len(bps) /\ bps[1] \in Breakpoints
            /\ DOMAIN bps' = 1 .. Len(bps) - 1
            /\ \A i \in 1 .. Len(bps) - 1 : bps'[i] = bps[i + 1]
        BY <2>4, <3>1
      <3>3. \A i \in 1 .. Len(bps) - 1 : 1 \in DOMAIN bps /\ i + 1 \in DOMAIN bps /\ 1 < i + 1
        BY <3>1, <3>2
      <3>4. \A i \in DOMAIN bps' : ~Before(bps'[i], goal')
        BY <1>3, <3>2, <3>3 DEF Sorted
      <3>5. \A i, j \in DOMAIN bps' : i < j => ~Before(bps'[j], bps'[i])
        <4>1. \A i, j \in 1 .. Len(bps) - 1 : i < j => i + 1 < j + 1
          BY <3>1
        <4>2. QED BY <1>3, <3>2, <3>3, <4>1 DEF Sorted
      <3>6. Ordered' /\ Ahead'
        BY <3>2, <3>4, <3>5 DEF Sorted, Before
      <3>7. Goes' /\ Iterates'
        BY <2>1, <2>4
      <3>8. QED BY <1>2, <3>6, <3>7
    <2>5. QED BY <1>14, <2>2, <2>3, <2>4 DEF UserContinue
  <1>15. CASE UserFinish
    BY <1>5, <1>15 DEF UserFinish, userVars
  <1>16. ASSUME UNCHANGED <<schedVars, userVars>> PROVE BreakpointTracking'
    BY <1>5, <1>16 DEF schedVars, mainVars, userVars
  <1>17. QED
    BY <1>6, <1>7, <1>8, <1>9, <1>10, <1>11, <1>12, <1>13, <1>14, <1>15, <1>16
    DEF Next, MainStep, UserStep, Primitive, vars
LEMMA BreakpointsCorrect ==
  ASSUME InRange
  PROVE  Spec => []BreakpointTracking
  <1>1. Init => BreakpointTracking
    BY DEF Init, BreakpointTracking
  <1>2. (TypeOK /\ MainTracking /\ StepTarget) /\ BreakpointTracking /\ [Next]_vars
          => BreakpointTracking'
    BY NextBreakpoints
  <1>3. QED BY <1>1, <1>2, TypeAndMain, PTL DEF Spec

(* The position of a run that has been kept does not go beyond the goal.   *)
LEMMA StepKeepsGoal ==
  ASSUME InRange, TypeOK, StepTarget, BreakpointTracking, Next,
         cmd # "none", ~finish, ~Before(goal, Here)
  PROVE  ~Before(goal, Here')
  <1>1. /\ cur \in 0 .. NumLayers /\ curIt \in Nat /\ cmd \in {"goto", "iterate"}
        /\ goal \in Breakpoints /\ goal \in Position /\ goal.layer \in Layer
        /\ goal.it \in 1 .. NumIter(goal.layer)
    BY BreakpointType DEF TypeOK, SchedTypeOK, BreakpointTracking, InRange
  <1>2. cur < goal.layer \/ (cur = goal.layer /\ curIt <= goal.it)
    BY <1>1 DEF Before, Here, Position
  <1>3. CASE IterationStepped
    <2>1. cur >= goal.layer /\ curIt < goal.it
      BY <1>1, <1>3 DEF BreakpointTracking, IterationStepped
    <2>2. cur' = goal.layer /\ curIt' <= goal.it
      BY <1>1, <1>2, <1>3, <2>1 DEF IterationStepped, Position, Layer
    <2>3. curIt' \in Nat /\ goal.layer \in Int /\ goal.it \in Nat
      BY <1>1, <1>3 DEF IterationStepped, Position
    <2>4. Here' = [layer |-> cur', it |-> curIt']
      BY DEF Here
    <2>5. QED BY <2>2, <2>3, <2>4 DEF Before
  <1>4. CASE LayerStepped
    <2>1. step = "layer" /\ cur' = cur + 1 /\ curIt' = 1
      BY <1>4 DEF LayerStepped
    <2>2. cur < goal.layer
      BY <1>1, <1>2, <2>1 DEF BreakpointTracking, Layer
    <2>3. cur' < goal.layer \/ (cur' = goal.layer /\ curIt' <= goal.it)
      BY <1>1, <2>1, <2>2 DEF Position, Layer
    <2>4. goal.layer \in Int /\ goal.it \in Nat /\ cur' \in Int
      BY <1>1, <2>1 DEF Position
    <2>5. Here' = [layer |-> cur', it |-> 1]
      BY <2>1 DEF Here
    <2>6. QED BY <2>1, <2>3, <2>4, <2>5 DEF Before
  <1>5. CASE UNCHANGED <<cur, curIt>>
    BY <1>5 DEF Here
  <1>6. QED
    BY <1>3, <1>4, <1>5, Kinds, PrimitiveFrame
    DEF Scheduled, UserFinish, StartsStep, RunLayer, Ponders, vars, userVars, schedVars,
        mainVars

(* A continue never runs past a breakpoint that lies ahead, neither the    *)
(* one it goes to nor one that is still pending, whatever breakpoints were *)
(* added in whatever order, as long as they name iterations that exist.    *)
THEOREM BreakpointsKept ==
  ASSUME InRange
  PROVE  Spec => NoBreakpointPassed
  <1>1. ASSUME TypeOK, MainTracking, StepTarget, BreakpointTracking, Next, cmd # "none",
               ~Before(goal, Here),
               NEW b \in ToSet(bps) \cup (IF finish THEN {} ELSE {goal}), ~Before(b, Here)
        PROVE  ~Before(b, Here')
    <2>1. ToSet(bps) = {bps[i] : i \in DOMAIN bps}
      BY DEF ToSet
    <2>2. CASE IterationStepped \/ LayerStepped
      <3>1. finish => bps = <<>>
        <4>1. cmd \in {"goto", "iterate"}
          BY <1>1 DEF TypeOK
        <4>2. CASE IterationStepped
          BY <1>1, <4>1, <4>2 DEF IterationStepped, BreakpointTracking
        <4>3. CASE LayerStepped
          <5>1. step = "layer" /\ cur \in Layer
            BY <1>1, <4>3 DEF LayerStepped, TypeOK
          <5>2. goal \in Position /\ ~(cur > goal.layer)
            BY <1>1, <5>1 DEF Before, Here, TypeOK, Position, Layer
          <5>3. QED BY <1>1, <4>1, <5>1, <5>2 DEF BreakpointTracking
        <4>4. QED BY <2>2, <4>2, <4>3
      <3>2. ~finish
        <4>1. DOMAIN <<>> = {}
          OBVIOUS
        <4>2. QED BY <1>1, <2>1, <3>1, <4>1
      <3>3. /\ goal \in Breakpoints
            /\ \A i \in DOMAIN bps : bps[i] \in Breakpoints /\ ~Before(bps[i], goal)
        BY <1>1, <3>2 DEF BreakpointTracking, TypeOK
      <3>4. b = goal \/ (b \in Breakpoints /\ ~Before(b, goal))
        BY <1>1, <2>1, <3>2, <3>3
      <3>5. ~Before(goal, Here')
        BY <1>1, <3>2, StepKeepsGoal
      <3>6. Here' \in Position
        <4>1. TypeOK'
          BY <1>1, NextType
        <4>2. QED BY <4>1 DEF Here, Position, TypeOK, SchedTypeOK
      <3>7. QED BY <3>3, <3>4, <3>5, <3>6, BreakpointType, BeforeOrder
    <2>3. CASE UNCHANGED <<cur, curIt>>
      BY <1>1, <2>3 DEF Here
    <2>4. QED
      BY <1>1, <2>2, <2>3, Kinds, PrimitiveFrame
      DEF Scheduled, UserFinish, StartsStep, RunLayer, Ponders, vars, userVars, schedVars,
          mainVars
  <1>2. (TypeOK /\ MainTracking /\ StepTarget) /\ BreakpointTracking /\ [Next]_vars =>
          [cmd # "none" /\ ~Before(goal, Here) =>
             \A b \in ToSet(bps) \cup (IF finish THEN {} ELSE {goal}) :
               ~Before(b, Here) => ~Before(b, Here')]_vars
    BY <1>1
  <1>3. QED
    BY <1>2, TypeAndMain, BreakpointsCorrect, PTL DEF Spec, NoBreakpointPassed
=============================================================================
