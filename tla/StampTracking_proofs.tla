------------------------ MODULE StampTracking_proofs ------------------------
(***************************************************************************)
(* Lemmas about the schedule, type correctness of every action of the      *)
(* execution primitives, and what each of them does to the tracking of the *)
(* replicas, for the proofs about batch mode and about interactive mode.   *)
(***************************************************************************)
EXTENDS StampTracking, TLAPS

(* A replica id names a stamp of the overlay. *)
LEMMA StampOfType == \A sid \in Replica : StampOf(sid) \in Stamp
  BY ScheduleAssumption DEF Replica, StampOf, Stamp

(* get_next_layer_for_stamp returns the first layer that has the stamp. *)
LEMMA NextLayerForFirst ==
  ASSUME NEW s, NEW from,
         NextLayerFor(s, from) # NoLayer
  PROVE  IsFirstLayer(s, from, NextLayerFor(s, from))
  BY DEF NextLayerFor

LEMMA NextLayerForType ==
  ASSUME NEW s, NEW from
  PROVE  NextLayerFor(s, from) \in Layer \cup {NoLayer}
  BY NextLayerForFirst DEF IsFirstLayer

(* A stamp of the layer the search begins with need not be looked for. *)
LEMMA NextLayerForHere ==
  ASSUME NEW l \in Layer, NEW s \in Nat, s < StampCount[l]
  PROVE  NextLayerFor(s, l) = l
  <1>1. IsFirstLayer(s, l, l)
    BY DEF IsFirstLayer, Layer
  <1>2. \A i \in Layer : IsFirstLayer(s, l, i) => i = l
    <2>1. SUFFICES ASSUME NEW i \in Layer, IsFirstLayer(s, l, i), i # l
                   PROVE  FALSE
      OBVIOUS
    <2>2. l \in l .. i - 1
      BY <2>1 DEF IsFirstLayer, Layer
    <2>3. s >= StampCount[l]
      BY <2>1, <2>2 DEF IsFirstLayer
    <2>4. QED BY <2>3, ScheduleAssumption DEF Layer
  <1>3. QED BY <1>1, <1>2 DEF NextLayerFor

(* A layer without the stamp does not change the outcome. *)
LEMMA NextLayerForSkip ==
  ASSUME NEW l \in Layer, NEW s \in Nat, ~(s < StampCount[l])
  PROVE  NextLayerFor(s, l) = NextLayerFor(s, l + 1)
  <1>1. \A i \in Layer : IsFirstLayer(s, l, i) <=> IsFirstLayer(s, l + 1, i)
    <2>1. SUFFICES ASSUME NEW i \in Layer, s < StampCount[i]
                   PROVE  IsFirstLayer(s, l, i) <=> IsFirstLayer(s, l + 1, i)
      BY DEF IsFirstLayer
    <2>2. i # l
      BY <2>1
    <2>3. (i >= l) <=> (i >= l + 1)
      BY <2>2 DEF Layer
    <2>4. ASSUME i >= l + 1
          PROVE  (l .. i - 1) = {l} \cup ((l + 1) .. i - 1)
      BY <2>4 DEF Layer
    <2>5. s >= StampCount[l]
      BY ScheduleAssumption DEF Layer
    <2>6. ASSUME i >= l + 1
          PROVE  (\A j \in l .. i - 1 : s >= StampCount[j])
                   <=> (\A j \in (l + 1) .. i - 1 : s >= StampCount[j])
      BY <2>4, <2>5, <2>6
    <2>7. QED BY <2>1, <2>3, <2>6 DEF IsFirstLayer
  <1>2. \A i : IsFirstLayer(s, l, i) <=> IsFirstLayer(s, l + 1, i)
    BY <1>1 DEF IsFirstLayer
  <1>3. QED BY <1>2 DEF NextLayerFor

-----------------------------------------------------------------------------
(* Types of what the core steps compute. *)

LEMMA NextStartType ==
  ASSUME CoreTypeOK, NEW sid \in Replica
  PROVE  NextStart(sid) \in Start
  <1>1. at[sid] \in Start
    BY DEF CoreTypeOK
  <1>2. NextLayerFor(StampOf(sid), at[sid].layer + 1) \in Layer \cup {NoLayer}
    BY NextLayerForType
  <1>3. at[sid].layer \in -1 .. NumLayers /\ at[sid].it \in Nat
    BY <1>1 DEF Start
  <1>4. NextLayerFor(StampOf(sid), at[sid].layer + 1) \in -1 .. NumLayers
    BY <1>2, ScheduleAssumption DEF Layer, NoLayer
  <1>5. QED BY <1>3, <1>4 DEF NextStart, Start

LEMMA StartPcType ==
  ASSUME NEW l \in Layer, NEW sid \in Replica
  PROVE  StartPcOf(l, sid) \in Nat
  BY StampOfType, ScheduleAssumption DEF StartPcOf

LEMMA PcEventType ==
  ASSUME CoreTypeOK, NEW sid \in Replica, NEW pc \in Nat, NEW reloaded \in BOOLEAN,
         at' \in [Replica -> Start], PcEvent(sid, pc, reloaded)
  PROVE  CoreTypeOK'
  <1>1. halt' \in [Replica -> Nat]
    BY DEF CoreTypeOK, PcEvent
  <1>2. edge' \in [Replica -> BOOLEAN]
    BY DEF CoreTypeOK, PcEvent, Fires
  <1>3. count' \in [Replica -> Nat]
    BY DEF CoreTypeOK, PcEvent
  <1>4. QED BY <1>1, <1>2, <1>3 DEF CoreTypeOK, PcEvent

(* The cores keep their types. *)
LEMMA CoreStepType ==
  ASSUME CoreTypeOK, NEW sid \in Replica, CoreStep(sid)
  PROVE  CoreTypeOK'
  <1>1. CASE CoreStart(sid)
    <2>1. at' \in [Replica -> Start]
      BY <1>1, NextStartType DEF CoreStart, CoreTypeOK
    <2>2. Reloads(sid) \in BOOLEAN
      BY DEF Reloads
    <2>3. CASE PcEvent(sid, bp[sid], Reloads(sid))
      BY <2>1, <2>2, <2>3, PcEventType DEF CoreTypeOK
    <2>4. CASE /\ edge' = [edge EXCEPT ![sid] = @ \/ Reloads(sid)]
               /\ UNCHANGED <<halt, bp, mode, count>>
      BY <2>1, <2>2, <2>4 DEF CoreTypeOK
    <2>5. QED BY <1>1, <2>3, <2>4 DEF CoreStart
  <1>2. CASE CorePostLayer(sid)
    <2>1. at' \in [Replica -> Start]
      BY <1>2 DEF CorePostLayer, CoreTypeOK, Start
    <2>2. QED BY <1>2, <2>1, PcEventType DEF CorePostLayer, CoreTypeOK
  <1>3. CASE CoreAlias(sid)
    BY <1>3, PcEventType DEF CoreAlias, CoreTypeOK
  <1>4. QED BY <1>1, <1>2, <1>3 DEF CoreStep

LEMMA ReleaseType ==
  ASSUME CoreTypeOK, NEW S, Release(S), UNCHANGED <<at, edge, count>>
  PROVE  CoreTypeOK'
  BY DEF CoreTypeOK, Release, ContinueAie

-----------------------------------------------------------------------------
(* Type correctness of the actions of the main thread and of the workers.  *)

LEMMA TargetLayerType ==
  ASSUME cur \in Layer, NEW sid \in Replica
  PROVE  TargetLayer(sid) \in Layer \cup {NoLayer}
  BY NextLayerForType DEF TargetLayer

LEMMA ScheduleLayerStartType ==
  ASSUME SchedTypeOK, cur \in Layer, ScheduleLayerStart
  PROVE  SchedTypeOK'
  <1>1. bp' \in [Replica -> Nat]
    <2>1. \A sid \in Resolved(ToArm) : StartPcOf(TargetLayer(sid), sid) \in Nat
      BY TargetLayerType, StartPcType DEF Resolved, ToArm
    <2>2. QED BY <2>1 DEF ScheduleLayerStart, SchedTypeOK, CoreTypeOK
  <1>2. mode' \in [Replica -> {"off", "pc", "combo", "count"}]
    BY DEF ScheduleLayerStart, SchedTypeOK, CoreTypeOK
  <1>3. edge' \in [Replica -> BOOLEAN]
    BY DEF ScheduleLayerStart, SchedTypeOK, CoreTypeOK
  <1>4. CoreTypeOK'
    BY <1>1, <1>2, <1>3 DEF ScheduleLayerStart, SchedTypeOK, CoreTypeOK
  <1>5. scheduled' \in [Replica -> BOOLEAN]
    BY DEF ScheduleLayerStart, SchedTypeOK
  <1>6. active' \subseteq Replica /\ torun' \subseteq Replica /\ pending' \subseteq Replica
    BY DEF ScheduleLayerStart, ToArm
  <1>7. QED
    BY <1>4, <1>5, <1>6 DEF ScheduleLayerStart, SchedTypeOK, Phase, threadVars

LEMMA ContinueArmedType ==
  ASSUME SchedTypeOK, ContinueArmed
  PROVE  SchedTypeOK'
  <1>1. CoreTypeOK'
    BY DEF ContinueArmed, ContinueAie, SchedTypeOK, CoreTypeOK
  <1>2. QED BY <1>1 DEF ContinueArmed, SchedTypeOK, Phase, threadVars

LEMMA PollStampsType ==
  ASSUME SchedTypeOK, PollStamps
  PROVE  SchedTypeOK'
  BY DEF PollStamps, SchedTypeOK, CoreTypeOK, coreVars, Phase, threadVars

(* A stamp passes the check of its PC, or the run stops. *)
VerifyPasses(sid) ==
  /\ TRUE \in PcsMatchTarget(sid, StartPcOf(cur, sid), pmReload[sid])
  /\ seen' = [seen EXCEPT ![sid] = [layer |-> cur, it |-> 1]]
  /\ mode' = [mode EXCEPT ![sid] = IF pmReload[sid] THEN "pc" ELSE @]
  /\ pmReload'  = [pmReload EXCEPT ![sid] = FALSE]
  /\ scheduled' = [scheduled EXCEPT ![sid] = FALSE]
  /\ pending' = pending \ {sid}
  /\ phase' = AfterVerify(pending')

LEMMA PcsMatchType ==
  ASSUME NEW sid, NEW pc, NEW combo
  PROVE  PcsMatchTarget(sid, pc, combo) \subseteq BOOLEAN
  <1>1. \A p : Near(p, pc, combo) \in BOOLEAN
    BY DEF Near
  <1>2. CASE halt[sid] # 0
    <2>1. (Near(halt[sid], pc, combo) \/ halt[sid] >= pc) \in BOOLEAN
      OBVIOUS
    <2>2. QED BY <1>2, <2>1 DEF PcsMatchTarget
  <1>3. CASE ~(halt[sid] # 0)
    BY <1>1, <1>3 DEF PcsMatchTarget
  <1>4. QED BY <1>2, <1>3

LEMMA VerifyOutcomes ==
  ASSUME NEW sid \in Replica, VerifyStamp(sid)
  PROVE  \/ VerifyPasses(sid)
         \/ phase' \in {"exited", "fail"} /\ UNCHANGED <<seen, mode, pmReload, scheduled, pending>>
  <1>1. PICK matches \in PcsMatchTarget(sid, StartPcOf(cur, sid), pmReload[sid]) :
          IF matches /\ cur < ExitAt THEN VerifyPasses(sid)
          ELSE /\ phase' \in {"exited", "fail"}
               /\ UNCHANGED <<seen, mode, pmReload, scheduled, pending>>
    BY PcsMatchType DEF VerifyStamp, VerifyPasses
  <1>2. QED BY <1>1

(* A worker finds its replica at the next iteration, or records a hang. *)
HitPasses(sid) ==
  /\ it' = [it EXCEPT ![sid] = @ + 1]
  /\ seen' = [seen EXCEPT ![sid] = [layer |-> cur, it |-> it'[sid]]]
  /\ thread' = [thread EXCEPT ![sid] = "go"]
  /\ UNCHANGED <<hung, error>>

HitFails(sid) ==
  /\ error' = TRUE
  /\ hung' = [hung EXCEPT ![sid] = TRUE]
  /\ thread' = [thread EXCEPT ![sid] = "ret"]
  /\ UNCHANGED <<it, seen>>

LEMMA HitOutcomes ==
  ASSUME NEW sid \in Replica, ThreadHit(sid)
  PROVE  HitPasses(sid) \/ HitFails(sid)
  BY DEF ThreadHit, HitPasses, HitFails

LEMMA VerifyStampType ==
  ASSUME SchedTypeOK, cur \in Layer, NEW sid \in Replica, VerifyStamp(sid)
  PROVE  SchedTypeOK'
  <1>1. CASE phase' \in {"exited", "fail"} /\ UNCHANGED <<seen, mode, pmReload, scheduled, pending>>
    BY <1>1 DEF VerifyStamp, SchedTypeOK, CoreTypeOK, Phase, threadVars
  <1>2. CASE VerifyPasses(sid)
    <2>1. CoreTypeOK'
      BY <1>2 DEF VerifyStamp, VerifyPasses, SchedTypeOK, CoreTypeOK
    <2>2. [layer |-> cur, it |-> 1] \in Start
      BY ScheduleAssumption DEF Start, Layer
    <2>3. seen' \in [Replica -> Start]
      BY <1>2, <2>2 DEF VerifyPasses, SchedTypeOK
    <2>4. phase' \in Phase
      BY <1>2 DEF VerifyPasses, AfterVerify, Phase
    <2>5. scheduled' \in [Replica -> BOOLEAN] /\ pmReload' \in [Replica -> BOOLEAN]
      BY <1>2 DEF VerifyPasses, SchedTypeOK
    <2>6. pending' \subseteq Replica
      BY <1>2 DEF VerifyPasses, SchedTypeOK
    <2>7. QED
      BY <2>1, <2>3, <2>4, <2>5, <2>6 DEF VerifyStamp, SchedTypeOK, threadVars
  <1>3. QED BY <1>1, <1>2, VerifyOutcomes

LEMMA RunLayerType ==
  ASSUME SchedTypeOK, NEW t \in Nat, NEW f \in Nat, RunLayer(t, f)
  PROVE  SchedTypeOK'
  BY DEF RunLayer, SchedTypeOK, CoreTypeOK, coreVars, Phase

LEMMA JoinLayerType ==
  ASSUME SchedTypeOK, JoinLayer
  PROVE  SchedTypeOK'
  <1>1. CoreTypeOK'
    BY ReleaseType DEF JoinLayer, SchedTypeOK
  <1>2. error' \in BOOLEAN /\ phase' \in Phase
    BY DEF JoinLayer, RunFailed, SchedTypeOK, Phase
  <1>3. QED BY <1>1, <1>2 DEF JoinLayer, SchedTypeOK

LEMMA SkipReturnsType ==
  ASSUME SchedTypeOK, NEW sid \in Replica, NEW ok \in BOOLEAN, SkipReturns(sid, ok),
         CoreTypeOK', UNCHANGED <<mainVars, result, seen>>
  PROVE  SchedTypeOK'
  BY DEF SkipReturns, SchedTypeOK, mainVars

(* The worker threads keep the types. *)
LEMMA ThreadStepType ==
  ASSUME SchedTypeOK, cur \in Layer, NEW sid \in Replica, ThreadStep(sid)
  PROVE  SchedTypeOK'
  <1>1. CASE ThreadContinue(sid)
    BY <1>1 DEF ThreadContinue, ContinueAie, SchedTypeOK, CoreTypeOK, mainVars
  <1>2. CASE ThreadHit(sid)
    <2>1. CoreTypeOK'
      BY <1>2 DEF ThreadHit, SchedTypeOK, CoreTypeOK, coreVars
    <2>0. HitPasses(sid) \/ HitFails(sid)
      BY <1>2, HitOutcomes
    <2>2. it' \in [Replica -> Nat]
      BY <2>0 DEF HitPasses, HitFails, SchedTypeOK
    <2>3. [layer |-> cur, it |-> it'[sid]] \in Start
      BY <2>2, ScheduleAssumption DEF Start, Layer
    <2>4. seen' \in [Replica -> Start]
      BY <2>0, <2>3 DEF HitPasses, HitFails, SchedTypeOK
    <2>5. /\ thread' \in [Replica -> {"idle", "go", "wait", "ret", "done"}]
          /\ hung' \in [Replica -> BOOLEAN] /\ error' \in BOOLEAN
      BY <2>0 DEF HitPasses, HitFails, SchedTypeOK
    <2>6. QED
      BY <1>2, <2>1, <2>2, <2>4, <2>5 DEF ThreadHit, SchedTypeOK, mainVars
  <1>3. CASE ThreadReachesTarget(sid)
    BY <1>3 DEF ThreadReachesTarget, SchedTypeOK, CoreTypeOK, coreVars, mainVars
  <1>4. CASE ThreadSkipsNothing(sid)
    <2>1. CoreTypeOK'
      BY <1>4 DEF ThreadSkipsNothing, SchedTypeOK, CoreTypeOK, coreVars
    <2>2. QED BY <1>4, <2>1, SkipReturnsType DEF ThreadSkipsNothing
  <1>5. CASE ThreadCount(sid)
    <2>1. target - it[sid] \in Nat
      BY <1>5 DEF ThreadCount, SchedTypeOK
    <2>2. CoreTypeOK'
      BY <1>5, <2>1 DEF ThreadCount, ContinueAie, SchedTypeOK, CoreTypeOK
    <2>3. QED BY <1>5, <2>2 DEF ThreadCount, SchedTypeOK, mainVars
  <1>6. CASE ThreadCounted(sid)
    <2>1. CoreTypeOK'
      BY <1>6 DEF ThreadCounted, SchedTypeOK, CoreTypeOK
    <2>2. QED BY <1>6, <2>1, SkipReturnsType DEF ThreadCounted
  <1>7. CASE ThreadToLock(sid)
    <2>1. CASE Release({sid}) /\ SkipReturns(sid, TRUE)
      <3>1. CoreTypeOK'
        BY <1>7, <2>1, ReleaseType DEF ThreadToLock, SchedTypeOK
      <3>2. QED BY <1>7, <2>1, <3>1, SkipReturnsType DEF ThreadToLock
    <2>2. CASE /\ bp' = [bp EXCEPT ![sid] = PostLayerPc[StampOf(sid)]]
               /\ ContinueAie({sid})
               /\ thread' = [thread EXCEPT ![sid] = "wait"]
               /\ UNCHANGED <<mode, it, hung, error>>
      <3>1. PostLayerPc[StampOf(sid)] \in Nat
        BY StampOfType, CoreAssumption
      <3>2. CoreTypeOK'
        BY <1>7, <2>2, <3>1 DEF ThreadToLock, ContinueAie, SchedTypeOK, CoreTypeOK
      <3>3. QED BY <1>7, <2>2, <3>2 DEF ThreadToLock, SchedTypeOK, mainVars
    <2>3. QED BY <1>7, <2>1, <2>2 DEF ThreadToLock
  <1>8. CASE ThreadAtLock(sid)
    <2>1. CoreTypeOK'
      BY <1>8 DEF ThreadAtLock, SchedTypeOK, CoreTypeOK, coreVars
    <2>2. PICK ok \in PcsMatchTarget(sid, PostLayerPc[StampOf(sid)], FALSE) : SkipReturns(sid, ok)
      BY <1>8 DEF ThreadAtLock
    <2>3. ok \in BOOLEAN
      BY PcsMatchType
    <2>4. QED BY <1>8, <2>1, <2>2, <2>3, SkipReturnsType DEF ThreadAtLock
  <1>9. CASE ThreadReturn(sid)
    BY <1>9 DEF ThreadReturn, SchedTypeOK, CoreTypeOK, coreVars, mainVars
  <1>10. CASE ThreadCollected(sid)
    BY <1>10 DEF ThreadCollected, SchedTypeOK, CoreTypeOK, coreVars, mainVars
  <1>11. QED
    BY <1>1, <1>2, <1>3, <1>4, <1>5, <1>6, <1>7, <1>8, <1>9, <1>10 DEF ThreadStep

-----------------------------------------------------------------------------
(* The layer a replica is armed for, and what a tracked design says of it. *)

(* The leftmost replica is no exception: it takes part in every layer.     *)
LEMMA TargetIsNext ==
  ASSUME cur \in Layer, NEW sid \in Replica
  PROVE  TargetLayer(sid) = NextLayerFor(StampOf(sid), cur)
  <1>1. CASE IsLeftmost(sid)
    <2>1. StampOf(sid) = 0 /\ 0 < StampCount[cur]
      BY <1>1, ScheduleAssumption DEF IsLeftmost
    <2>2. QED BY <1>1, <2>1, NextLayerForHere DEF TargetLayer
  <1>2. QED BY <1>1 DEF TargetLayer

LEMMA TargetFacts ==
  ASSUME cur \in Layer, NEW sid \in Replica, TargetLayer(sid) # NoLayer
  PROVE  /\ TargetLayer(sid) \in Layer
         /\ TargetLayer(sid) >= cur
         /\ RunsReplica(TargetLayer(sid), sid)
  <1>1. IsFirstLayer(StampOf(sid), cur, TargetLayer(sid))
    BY TargetIsNext, NextLayerForFirst
  <1>2. QED BY <1>1 DEF IsFirstLayer, RunsReplica

LEMMA TargetIsCurrent ==
  ASSUME cur \in Layer, NEW sid \in Replica
  PROVE  TargetLayer(sid) = cur <=> RunsReplica(cur, sid)
  <1>1. cur # NoLayer
    BY ScheduleAssumption DEF Layer, NoLayer
  <1>2. StampOf(sid) \in Nat
    BY StampOfType DEF Stamp
  <1>3. QED BY <1>1, <1>2, TargetIsNext, TargetFacts, NextLayerForHere DEF RunsReplica

(* A replica that sits out the current layer keeps its target.             *)
LEMMA TargetKept ==
  ASSUME cur \in Layer, NEW sid \in Replica, TargetLayer(sid) # cur
  PROVE  /\ ~IsLeftmost(sid)
         /\ NextLayerFor(StampOf(sid), cur + 1) = TargetLayer(sid)
  <1>1. ~RunsReplica(cur, sid)
    BY TargetIsCurrent
  <1>2. StampOf(sid) \in Nat
    BY StampOfType DEF Stamp
  <1>3. QED
    BY <1>1, <1>2, NextLayerForSkip, TargetIsNext DEF RunsReplica, TargetLayer

LEMMA TrackedFacts ==
  ASSUME Tracked, NEW l \in Layer, NEW sid \in Replica, RunsReplica(l, sid)
  PROVE  /\ StartPcOf(l, sid) # 0
         /\ StartPcOf(l, sid) # PostLayerPc[StampOf(sid)]
         /\ <<ElfOf(l, sid), StartPcOf(l, sid)>> \notin AliasPc
         /\ \A k \in Layer : ElfOf(k, sid) # ElfOf(l, sid) => PmReloadEn[StampOf(sid)]
  <1>1. StampOf(sid) \in 0 .. StampCount[l] - 1
    BY StampOfType, ScheduleAssumption DEF Stamp, RunsReplica
  <1>2. QED BY <1>1 DEF Tracked, StartPcOf, ElfOf

-----------------------------------------------------------------------------
(* What LockStep says of the next observation of a replica.                *)

(* The abstract specification works on the same schedule.                  *)
LEMMA StepsSchedule ==
  /\ Steps!NoLayer = NoLayer
  /\ \A sid : Steps!StampOf(sid) = StampOf(sid)
  /\ \A s, from : Steps!NextLayerFor(s, from) = NextLayerFor(s, from)
  /\ \A l : Steps!Observed(l) = IF SkipMode = "none" THEN Iterations[l] ELSE 1
  /\ Steps!Replica = Replica
  <1>1. \A s, from : Steps!NextLayerFor(s, from) = NextLayerFor(s, from)
    BY DEF Steps!NextLayerFor, NextLayerFor, Steps!IsFirstLayer, IsFirstLayer, Steps!Layer,
           Layer, Steps!NoLayer, NoLayer
  <1>2. QED
    BY <1>1 DEF Steps!NoLayer, NoLayer, Steps!StampOf, StampOf, Steps!Observed, Steps!Replica, Replica

LEMMA NextObservationIs ==
  ASSUME NEW sid
  PROVE  Steps!NextObservation(sid) =
           IF seen[sid].layer >= 0 /\
              seen[sid].it < (IF SkipMode = "none" THEN Iterations[seen[sid].layer] ELSE 1)
             THEN [layer |-> seen[sid].layer, it |-> seen[sid].it + 1]
             ELSE [layer |-> NextLayerFor(StampOf(sid), seen[sid].layer + 1), it |-> 1]
  BY StepsSchedule DEF Steps!NextObservation

-----------------------------------------------------------------------------
(* What the cores do to a replica that is armed or stepped.                *)

LEMMA CoreStepFrame ==
  ASSUME SchedTypeOK, NEW r \in Replica, CoreStep(r), NEW sid \in Replica \ {r}
  PROVE  /\ at'[sid] = at[sid] /\ halt'[sid] = halt[sid] /\ edge'[sid] = edge[sid]
         /\ bp' = bp /\ mode' = mode
  BY DEF CoreStep, CoreStart, CorePostLayer, CoreAlias, PcEvent, SchedTypeOK,
         CoreTypeOK

LEMMA CoreStepRuns ==
  ASSUME NEW r \in Replica, CoreStep(r)
  PROVE  halt[r] = 0 /\ bp' = bp /\ mode' = mode
  BY DEF CoreStep, CoreStart, CorePostLayer, CoreAlias, PcEvent, Running

(* The predicates depend on the replica's own part of the state only.      *)
LEMMA ArmedFrame ==
  ASSUME NEW sid, UNCHANGED cur, Armed(sid),
         at'[sid] = at[sid], halt'[sid] = halt[sid], edge'[sid] = edge[sid],
         bp'[sid] = bp[sid], mode'[sid] = mode[sid],
         pmReload'[sid] = pmReload[sid], scheduled'[sid] = scheduled[sid],
         sid \in torun' <=> sid \in torun
  PROVE  Armed(sid)'
  BY DEF Armed, HeadsFor, HaltedAt, TargetLayer, NextStart, Reloads

(* An armed core comes to its next layer and nowhere else.                 *)
LEMMA ArmedCore ==
  ASSUME SchedTypeOK, cur \in Layer, Tracked, NEW sid \in Replica,
         TargetLayer(sid) # NoLayer,
         Armed(sid), CoreStep(sid), UNCHANGED schedVars
  PROVE  Armed(sid)'
  <1> DEFINE T == TargetLayer(sid)
  <1>1. CoreTypeOK
    BY DEF SchedTypeOK
  <1>2. T \in Layer /\ RunsReplica(T, sid)
    BY <1>1, TargetFacts
  <1>3. halt[sid] = 0 /\ bp' = bp /\ mode' = mode
    BY CoreStepRuns
  <1>4. /\ HeadsFor(sid, T) /\ sid \notin torun
        /\ pmReload[sid] => ~edge[sid]
    BY <1>3 DEF Armed, HaltedAt
  <1>5. /\ bp[sid] = StartPcOf(T, sid)
        /\ mode[sid] = IF pmReload[sid] THEN "combo" ELSE "pc"
    BY DEF Armed
  <1>6. /\ UNCHANGED <<cur, pmReload, scheduled, torun>>
        /\ TargetLayer(sid)' = T
    BY DEF schedVars, mainVars, TargetLayer
  <1>7. bp[sid] # 0 /\ bp[sid] # PostLayerPc[StampOf(sid)]
    BY <1>2, <1>5, TrackedFacts
  <1>8. NextStart(sid) = [layer |-> T, it |-> 1] /\ (pmReload[sid] <=> Reloads(sid))
    BY <1>4 DEF HeadsFor
  <1>9. CASE CoreStart(sid)
    <2>1. PcEvent(sid, bp[sid], Reloads(sid)) /\ at' = [at EXCEPT ![sid] = NextStart(sid)]
      BY <1>2, <1>5, <1>7, <1>8, <1>9 DEF CoreStart
    <2>2. Fires(sid, Reloads(sid))
      BY <1>5, <1>8 DEF Fires
    <2>3. halt'[sid] = bp[sid]
      BY <1>1, <2>1, <2>2 DEF PcEvent, CoreTypeOK
    <2>4. at'[sid] = [layer |-> T, it |-> 1]
      BY <1>1, <1>8, <2>1 DEF CoreTypeOK
    <2>5. HaltedAt(sid, TargetLayer(sid), 1)'
      BY <1>6, <1>7, <2>3, <2>4 DEF HaltedAt
    <2>6. QED BY <1>3, <1>4, <1>5, <1>6, <2>5 DEF Armed
  <1>10. CASE CoreAlias(sid)
    <2>1. Reloads(sid)
      <3>1. SUFFICES ASSUME ~Reloads(sid) PROVE FALSE
        OBVIOUS
      <3>2. at[sid].layer \in Layer /\ at[sid].layer >= 0
        BY <1>10 DEF CoreAlias, Layer
      <3>3. ElfOf(at[sid].layer, sid) = ElfOf(T, sid)
        BY <1>2, <1>8, <3>1, <3>2 DEF Reloads
      <3>4. <<ElfOf(T, sid), StartPcOf(T, sid)>> \in AliasPc
        BY <1>5, <1>10, <3>3 DEF CoreAlias
      <3>5. QED BY <1>2, <3>4, TrackedFacts
    <2>2. ~Fires(sid, FALSE)
      BY <1>4, <1>5, <1>8, <2>1 DEF Fires
    <2>3. PcEvent(sid, bp[sid], FALSE) /\ UNCHANGED at
      BY <1>10 DEF CoreAlias
    <2>4. halt'[sid] = 0 /\ ~edge'[sid]
      BY <1>1, <1>4, <1>8, <2>1, <2>2, <2>3 DEF PcEvent, CoreTypeOK
    <2>5. HeadsFor(sid, TargetLayer(sid))'
      BY <1>4, <1>6, <2>3 DEF HeadsFor, NextStart, Reloads
    <2>6. QED BY <1>3, <1>4, <1>5, <1>6, <2>4, <2>5 DEF Armed
  <1>11. CASE CorePostLayer(sid)
    BY <1>7, <1>11 DEF CorePostLayer, AtPostLayer
  <1>12. QED BY <1>9, <1>10, <1>11 DEF CoreStep

(* A released replica stays released, wherever its core runs to.           *)
LEMMA LetGoFrame ==
  ASSUME NEW sid, UNCHANGED cur, LetGo(sid),
         mode'[sid] = mode[sid], scheduled'[sid] = scheduled[sid]
  PROVE  LetGo(sid)'
  BY DEF LetGo

LEMMA SteppedToFrame ==
  ASSUME NEW sid, NEW i, UNCHANGED cur, SteppedTo(sid, i),
         at'[sid] = at[sid], halt'[sid] = halt[sid], bp'[sid] = bp[sid],
         mode'[sid] = mode[sid], pmReload'[sid] = pmReload[sid],
         scheduled'[sid] = scheduled[sid]
  PROVE  SteppedTo(sid, i)'
  BY DEF SteppedTo, Verified, HaltedAt, LetGo

(* A core that its worker lets run comes to the next iteration.            *)
LEMMA SteppedCore ==
  ASSUME SchedTypeOK, cur \in Layer, Tracked, NEW sid \in Replica, TargetLayer(sid) = cur,
         SteppedByThread(sid), target <= Iterations[cur],
         CoreStep(sid), UNCHANGED schedVars
  PROVE  SteppedByThread(sid)'
  <1>1. CoreTypeOK
    BY DEF SchedTypeOK
  <1>2. RunsReplica(cur, sid)
    BY TargetIsCurrent
  <1>3. halt[sid] = 0 /\ bp' = bp /\ mode' = mode
    BY CoreStepRuns
  <1>4. UNCHANGED <<cur, scheduled, pmReload, target, it, thread, error>>
    BY DEF schedVars, mainVars, threadVars
  <1>5. CASE LetGo(sid) /\ it[sid] = Iterations[cur]
    BY <1>3, <1>4, <1>5, LetGoFrame DEF SteppedByThread
  <1>6. ASSUME Verified(sid), ~(LetGo(sid) /\ it[sid] = Iterations[cur])
        PROVE  SteppedByThread(sid)'
    <2>1. /\ bp[sid] = StartPcOf(cur, sid) /\ mode[sid] = "pc"
          /\ bp[sid] # 0 /\ bp[sid] # PostLayerPc[StampOf(sid)]
          /\ <<ElfOf(cur, sid), bp[sid]>> \notin AliasPc
      BY <1>2, <1>6, TrackedFacts DEF Verified
    <2>2. Verified(sid)'
      BY <1>3, <1>4, <1>6 DEF Verified
    <2>3. CASE thread[sid] = "go" \/ (thread[sid] \in {"ret", "done"} /\ ~error)
      BY <1>3, <1>6, <2>3 DEF SteppedByThread, HaltedAt
    <2>4. CASE thread[sid] \in {"ret", "done"} /\ error
      BY <1>4, <2>2, <2>4 DEF SteppedByThread
    <2>5. CASE thread[sid] = "wait"
      <3>1. at[sid] = [layer |-> cur, it |-> it[sid]] /\ it[sid] < target
        BY <1>3, <1>6, <2>5 DEF SteppedByThread, HaltedAt
      <3>2. it[sid] < Iterations[cur] /\ it[sid] \in Nat /\ Iterations[cur] \in Nat
        BY <3>1, ScheduleAssumption DEF SchedTypeOK
      <3>3. CASE CoreStart(sid)
        <4>1. NextStart(sid) = [layer |-> cur, it |-> it[sid] + 1]
          BY <3>1, <3>2 DEF NextStart, Layer
        <4>2. /\ PcEvent(sid, bp[sid], Reloads(sid))
              /\ at' = [at EXCEPT ![sid] = NextStart(sid)]
          BY <2>1, <3>3, <4>1 DEF CoreStart
        <4>3. halt'[sid] # 0
          BY <1>1, <2>1, <4>2 DEF PcEvent, Fires, CoreTypeOK
        <4>4. HaltedAt(sid, cur, it[sid] + 1)'
          BY <1>1, <1>4, <4>1, <4>2, <4>3 DEF HaltedAt, CoreTypeOK
        <4>5. QED BY <1>4, <2>2, <2>5, <3>1, <4>4 DEF SteppedByThread
      <3>4. CASE CoreAlias(sid)
        BY <2>1, <3>1, <3>4 DEF CoreAlias
      <3>5. CASE CorePostLayer(sid)
        BY <2>1, <3>5 DEF CorePostLayer, AtPostLayer
      <3>6. QED BY <3>3, <3>4, <3>5 DEF CoreStep
    <2>6. thread[sid] \in {"go", "wait", "ret", "done"}
      BY DEF SteppedByThread, SchedTypeOK
    <2>7. QED BY <2>3, <2>4, <2>5, <2>6
  <1>7. QED BY <1>5, <1>6 DEF SteppedByThread

-----------------------------------------------------------------------------
(* Every primitive keeps the variables of the main thread together.        *)

LEMMA NumIterType ==
  ASSUME NEW l \in Layer
  PROVE  NumIter(l) \in Nat \ {0} /\ NumIter(l) <= Iterations[l]
  BY ScheduleAssumption DEF NumIter

LEMMA InitMain == SchedInit => MainTracking
  BY DEF SchedInit, MainTracking

LEMMA ScheduleMain ==
  ASSUME MainTracking, ScheduleLayerStart
  PROVE  MainTracking'
  BY DEF MainTracking, ScheduleLayerStart, TargetLayer, threadVars

LEMMA ContinueMain ==
  ASSUME MainTracking, ContinueArmed
  PROVE  MainTracking'
  BY DEF MainTracking, ContinueArmed, TargetLayer, threadVars

LEMMA PollMain ==
  ASSUME MainTracking, PollStamps
  PROVE  MainTracking'
  BY DEF MainTracking, PollStamps, TargetLayer, threadVars

LEMMA VerifyMain ==
  ASSUME MainTracking, NEW sid \in Replica, VerifyStamp(sid)
  PROVE  MainTracking'
  BY DEF MainTracking, VerifyStamp, AfterVerify, TargetLayer, threadVars

(* run_layer is called with a target the layer has.                        *)
LEMMA RunLayerMain ==
  ASSUME MainTracking, phase \in {"ready", "idle"}, NEW t, NEW f, t \in 1 .. NumIter(cur),
         RunLayer(t, f)
  PROVE  MainTracking'
  BY DEF MainTracking, RunLayer, TargetLayer, NumIter

LEMMA JoinMain ==
  ASSUME MainTracking, JoinLayer
  PROVE  MainTracking'
  BY DEF MainTracking, JoinLayer, TargetLayer

(* A worker thread takes steps only while the main thread waits for it.    *)
LEMMA ThreadFrame ==
  ASSUME MainTracking, NEW sid \in Replica, ThreadStep(sid)
  PROVE  phase = "threads" /\ sid \in active /\ UNCHANGED mainVars
  BY DEF MainTracking, ThreadStep, ThreadContinue, ThreadHit, ThreadReachesTarget,
         ThreadSkipsNothing, ThreadCount, ThreadCounted, ThreadToLock, ThreadAtLock,
         ThreadReturn, ThreadCollected

LEMMA ThreadMain ==
  ASSUME SchedTypeOK, MainTracking, NEW sid \in Replica, ThreadStep(sid)
  PROVE  MainTracking'
  <1>1. phase = "threads" /\ sid \in active /\ UNCHANGED mainVars
    BY ThreadFrame
  <1>2. \A r \in Replica \ {sid} : thread'[r] = thread[r]
    BY DEF SchedTypeOK, ThreadStep, ThreadContinue, ThreadHit, ThreadReachesTarget,
           ThreadSkipsNothing, ThreadCount, ThreadCounted, ThreadToLock, ThreadAtLock,
           ThreadReturn, ThreadCollected, SkipReturns
  <1>3. QED BY <1>1, <1>2 DEF MainTracking, mainVars, TargetLayer, NumIter

(* Neither do the cores nor a stutter touch what the main thread knows.    *)
LEMMA UnchangedMain ==
  ASSUME MainTracking, UNCHANGED schedVars
  PROVE  MainTracking'
  BY DEF MainTracking, schedVars, mainVars, threadVars, TargetLayer

-----------------------------------------------------------------------------
(* What was observed: every primitive keeps the record, and is a step of   *)
(* LockStep or leaves what LockStep sees alone.                            *)

LEMMA InitSeen ==
  ASSUME SchedInit, NEW sid \in Replica
  PROVE  ReplicaSeen(sid) /\ Through(sid, cur)
  <1>1. Through(sid, cur)
    BY NextObservationIs DEF SchedInit, Through
  <1>2. QED BY <1>1 DEF SchedInit, ReplicaSeen

(* A replica that sits out the current layer was observed beyond it.       *)
LEMMA ThroughSkipped ==
  ASSUME cur \in Layer, NEW sid \in Replica, ~RunsReplica(cur, sid), Through(sid, cur)
  PROVE  Through(sid, cur + 1)
  BY StampOfType, NextLayerForSkip DEF Through, RunsReplica, Stamp

(* A replica observed at the last iteration of the layer is through it.    *)
LEMMA ThroughStepped ==
  ASSUME cur \in Layer, NEW sid \in Replica, SeenAt(sid, NumIter(cur))
  PROVE  Through(sid, cur + 1)
  <1>1. cur >= 0 /\ Iterations[cur] \in Nat \ {0}
    BY ScheduleAssumption DEF Layer
  <1>2. SkipMode = "none" => NumIter(cur) = Iterations[cur]
    BY DEF NumIter
  <1>3. QED BY <1>1, <1>2, NextObservationIs DEF SeenAt, Through

(* What is left to observe of a replica once the layer is verified.        *)
LEMMA NextAfterSeen ==
  ASSUME cur \in Layer, NEW sid \in Replica, NEW i \in 1 .. Iterations[cur], SeenAt(sid, i)
  PROVE  \/ Steps!NextObservation(sid).layer > cur
         \/ /\ Steps!NextObservation(sid) = [layer |-> cur, it |-> i + 1]
            /\ SkipMode = "none" /\ i < Iterations[cur]
  <1>1. cur >= 0 /\ Iterations[cur] \in Nat \ {0} /\ cur \in Int
    BY ScheduleAssumption DEF Layer
  <1>2. NextLayerFor(StampOf(sid), cur + 1) > cur
    <2>1. CASE NextLayerFor(StampOf(sid), cur + 1) = NoLayer
      BY <2>1, ScheduleAssumption DEF NoLayer, Layer
    <2>2. CASE NextLayerFor(StampOf(sid), cur + 1) # NoLayer
      BY <1>1, <2>2, NextLayerForFirst DEF IsFirstLayer, Layer
    <2>3. QED BY <2>1, <2>2
  <1>3. CASE SkipMode = "none" /\ i < Iterations[cur]
    BY <1>1, <1>3, NextObservationIs DEF SeenAt
  <1>4. CASE SkipMode # "none" \/ ~(i < Iterations[cur])
    <2>1. Steps!NextObservation(sid) = [layer |-> NextLayerFor(StampOf(sid), cur + 1), it |-> 1]
      BY <1>1, <1>4, NextObservationIs DEF SeenAt
    <2>2. QED BY <1>2, <2>1
  <1>5. QED BY <1>3, <1>4

LEMMA NextAfterThrough ==
  ASSUME cur \in Layer, NEW sid \in Replica, Through(sid, cur)
  PROVE  \/ Steps!NextObservation(sid).layer > cur
         \/ Steps!NextObservation(sid) = [layer |-> cur, it |-> 1] /\ RunsReplica(cur, sid)
  <1>1. CASE RunsReplica(cur, sid)
    BY <1>1, StampOfType, NextLayerForHere DEF Through, RunsReplica, Stamp
  <1>2. CASE ~RunsReplica(cur, sid)
    <2>1. Steps!NextObservation(sid).layer = TargetLayer(sid) /\ TargetLayer(sid) # cur
      BY <1>2, TargetIsNext, TargetIsCurrent DEF Through
    <2>2. TargetLayer(sid) = NoLayer \/ (TargetLayer(sid) \in Layer /\ TargetLayer(sid) >= cur)
      BY TargetFacts
    <2>3. QED BY <2>1, <2>2, ScheduleAssumption DEF NoLayer, Layer
  <1>3. QED BY <1>1, <1>2

(* A step that observes nothing leaves the record as it is.                *)
LEMMA SeenFrame ==
  ASSUME NEW sid \in Replica, seen'[sid] = seen[sid]
  PROVE  /\ \A l : Through(sid, l) <=> Steps!NextObservation(sid)' =
                      [layer |-> NextLayerFor(StampOf(sid), l), it |-> 1]
         /\ UNCHANGED cur => \A i : SeenAt(sid, i)' <=> SeenAt(sid, i)
         /\ UNCHANGED cur => (Through(sid, cur)' <=> Through(sid, cur))
         /\ Steps!NextObservation(sid)' = Steps!NextObservation(sid)
  <1>1. Steps!NextObservation(sid)' = Steps!NextObservation(sid)
    BY DEF Steps!NextObservation
  <1>2. QED BY <1>1 DEF Through, SeenAt

LEMMA Quiet ==
  ASSUME UNCHANGED seen, phase \notin {"success", "exited", "fail"},
         phase' \notin {"success", "exited", "fail"}
  PROVE  UNCHANGED Steps!vars
  BY DEF Steps!vars

(* A run that gives up has promised nothing. *)
LEMMA GivingUp ==
  ASSUME UNCHANGED seen, phase \notin {"success", "exited", "fail"},
         phase' \in {"exited", "fail"}
  PROVE  Steps!Next
  BY DEF Steps!Next, Steps!Stop

LEMMA StartSeen ==
  ASSUME \A sid \in Replica : ReplicaSeen(sid),
         ScheduleLayerStart \/ ContinueArmed
  PROVE  (\A sid \in Replica : ReplicaSeen(sid)') /\ UNCHANGED Steps!vars
  <1>1. /\ UNCHANGED <<seen, cur>> /\ phase \in {"layer", "armed"}
        /\ phase' \in {"armed", "poll"}
    BY DEF ScheduleLayerStart, ContinueArmed
  <1>2. \A sid \in Replica : ReplicaSeen(sid)'
    BY <1>1, SeenFrame DEF ReplicaSeen
  <1>3. QED BY <1>1, <1>2, Quiet

LEMMA PollSeen ==
  ASSUME MainTracking, \A sid \in Replica : ReplicaSeen(sid), PollStamps
  PROVE  (\A sid \in Replica : ReplicaSeen(sid)') /\ UNCHANGED Steps!vars
  <1>1. /\ UNCHANGED <<seen, cur, active, pending>> /\ phase = "poll" /\ phase' = "verify"
        /\ pending = active
    BY DEF PollStamps, MainTracking
  <1>2. \A sid \in Replica : ReplicaSeen(sid)'
    BY <1>1, SeenFrame DEF ReplicaSeen
  <1>3. QED BY <1>1, <1>2, Quiet

(* The start of a layer is observed replica by replica. *)
LEMMA VerifySeen ==
  ASSUME SchedTypeOK, cur \in Layer, MainTracking, \A sid \in Replica : ReplicaSeen(sid),
         NEW r \in Replica, VerifyStamp(r)
  PROVE  (\A sid \in Replica : ReplicaSeen(sid)') /\ Steps!Next
  <1>1. phase = "verify" /\ r \in pending /\ pending \subseteq active /\ UNCHANGED <<cur, active>>
    BY DEF VerifyStamp, MainTracking
  <1>2. CASE phase' \in {"exited", "fail"} /\ UNCHANGED seen
    BY <1>1, <1>2, GivingUp DEF ReplicaSeen
  <1>3. CASE VerifyPasses(r)
    <2>1. /\ seen' = [seen EXCEPT ![r] = [layer |-> cur, it |-> 1]]
          /\ pending' = pending \ {r}
          /\ phase' \in {"ready", "verify"}
          /\ phase' = "ready" => pending' = {}
      BY <1>3 DEF VerifyPasses, AfterVerify
    <2>2. seen'[r] = [layer |-> cur, it |-> 1] /\ \A sid \in Replica \ {r} : seen'[sid] = seen[sid]
      BY <2>1 DEF SchedTypeOK
    <2>3. SeenAt(r, 1)'
      BY <1>1, <2>2 DEF SeenAt
    <2>4. ReplicaSeen(r)'
      BY <1>1, <2>1, <2>3 DEF ReplicaSeen
    <2>5. ASSUME NEW sid \in Replica, sid # r PROVE ReplicaSeen(sid)'
      <3>1. CASE sid \in active \ pending
        <4>1. SeenAt(sid, 1)'
          BY <1>1, <2>2, <2>5, <3>1, SeenFrame DEF ReplicaSeen
        <4>2. QED BY <1>1, <2>1, <3>1, <4>1 DEF ReplicaSeen
      <3>2. CASE sid \notin active \ pending
        <4>1. Through(sid, cur)'
          BY <1>1, <2>2, <2>5, <3>2, SeenFrame DEF ReplicaSeen
        <4>2. sid \notin active' \ pending' /\ (phase' = "ready" => sid \notin active')
          BY <1>1, <2>1, <2>5, <3>2
        <4>3. QED BY <2>1, <4>1, <4>2 DEF ReplicaSeen
      <3>3. QED BY <3>1, <3>2
    <2>6. Steps!NextObservation(r) = [layer |-> cur, it |-> 1]
      <3>1. TargetLayer(r) = cur
        BY <1>1, ScheduleAssumption DEF MainTracking, Layer, NoLayer
      <3>2. Through(r, cur) /\ RunsReplica(cur, r)
        BY <1>1, <3>1, TargetIsCurrent DEF ReplicaSeen
      <3>3. QED BY <3>1, <3>2, TargetIsNext DEF Through
    <2>7. ASSUME NEW sid \in Replica
          PROVE  \/ Steps!NextObservation(sid).layer > cur
                 \/ Steps!NextObservation(sid).layer = cur
      <3>1. CASE sid \in active \ pending
        <4>1. SeenAt(sid, 1) /\ 1 \in 1 .. Iterations[cur]
          BY <1>1, <3>1, ScheduleAssumption DEF ReplicaSeen
        <4>2. QED BY <4>1, NextAfterSeen
      <3>2. CASE sid \notin active \ pending
        BY <1>1, <3>2, NextAfterThrough DEF ReplicaSeen
      <3>3. QED BY <3>1, <3>2
    <2>8. Steps!InStep(Steps!NextObservation(r))
      BY <2>6, <2>7, StepsSchedule DEF Steps!InStep
    <2>9. Steps!Observe(r)
      <3>1. cur # NoLayer
        BY ScheduleAssumption DEF Layer, NoLayer
      <3>2. QED BY <1>1, <2>1, <2>6, <2>8, <3>1, StepsSchedule DEF Steps!Observe
    <2>10. QED BY <2>4, <2>5, <2>9, StepsSchedule DEF Steps!Next
  <1>4. QED BY <1>2, <1>3, VerifyOutcomes

(* run_layer starts at the iteration that was observed last.               *)
LEMMA RunLayerSeen ==
  ASSUME SchedTypeOK, \A sid \in Replica : ReplicaSeen(sid), phase \in {"ready", "idle"},
         NEW t \in Nat, NEW f \in 1 .. t,
         \A sid \in Replica : IF sid \in active THEN SeenAt(sid, f) ELSE Through(sid, cur),
         RunLayer(t, f)
  PROVE  (\A sid \in Replica : ReplicaSeen(sid)') /\ UNCHANGED Steps!vars
  <1>1. /\ UNCHANGED <<seen, cur, active>> /\ phase' = "threads" /\ target' = t
        /\ thread' = [sid \in Replica |-> IF sid \in active THEN "go" ELSE "idle"]
        /\ it' = [sid \in Replica |-> f]
    BY DEF RunLayer
  <1>2. ASSUME NEW sid \in Replica PROVE ReplicaSeen(sid)'
    <2>1. CASE sid \in active
      <3>1. SeenByThread(sid)'
        BY <1>1, <2>1, SeenFrame DEF SeenByThread
      <3>2. QED BY <1>1, <2>1, <3>1 DEF ReplicaSeen
    <2>2. CASE sid \notin active
      BY <1>1, <2>2, SeenFrame DEF ReplicaSeen
    <2>3. QED BY <2>1, <2>2
  <1>3. QED BY <1>1, <1>2, Quiet

(* A worker that reads the PC of its next iteration observes it; the other *)
(* steps of the workers observe nothing.                                   *)
LEMMA HitObserves ==
  ASSUME SchedTypeOK, cur \in Layer, MainTracking, \A sid \in Replica : ReplicaSeen(sid),
         NEW r \in Replica, ThreadHit(r), HitPasses(r)
  PROVE  (\A sid \in Replica : ReplicaSeen(sid)') /\ Steps!Next
  <1>1. phase = "threads" /\ r \in active /\ UNCHANGED mainVars
    BY ThreadFrame DEF ThreadStep
  <1>2. /\ SkipMode = "none" /\ thread[r] = "wait"
        /\ it'[r] = it[r] + 1 /\ thread'[r] = "go" /\ UNCHANGED error
        /\ seen' = [seen EXCEPT ![r] = [layer |-> cur, it |-> it[r] + 1]]
        /\ seen'[r] = [layer |-> cur, it |-> it[r] + 1]
        /\ \A sid \in Replica \ {r} :
             seen'[sid] = seen[sid] /\ it'[sid] = it[sid] /\ thread'[sid] = thread[sid]
    BY DEF ThreadHit, HitPasses, SchedTypeOK
  <1>3. /\ it[r] \in 1 .. target /\ SeenAt(r, it[r]) /\ it[r] < target
        /\ target \in Nat /\ target <= Iterations[cur] /\ Iterations[cur] \in Nat
    BY <1>1, <1>2, NumIterType, ScheduleAssumption
    DEF ReplicaSeen, SeenByThread, MainTracking, SchedTypeOK
  <1>4. UNCHANGED <<phase, cur, active, pending, target>>
    BY <1>1 DEF mainVars
  <1>5. ReplicaSeen(r)'
    <2>1. SeenByThread(r)'
      BY <1>2, <1>3, <1>4 DEF SeenByThread, SeenAt
    <2>2. QED BY <1>1, <1>4, <2>1 DEF ReplicaSeen
  <1>6. ASSUME NEW sid \in Replica, sid # r PROVE ReplicaSeen(sid)'
    <2>1. CASE sid \in active
      <3>1. SeenByThread(sid)'
        BY <1>1, <1>2, <1>4, <1>6, <2>1, SeenFrame DEF ReplicaSeen, SeenByThread
      <3>2. QED BY <1>1, <1>4, <2>1, <3>1 DEF ReplicaSeen
    <2>2. CASE sid \notin active
      BY <1>1, <1>2, <1>4, <1>6, <2>2, SeenFrame DEF ReplicaSeen
    <2>3. QED BY <2>1, <2>2
  <1>7. Steps!NextObservation(r) = [layer |-> cur, it |-> it[r] + 1]
    <2>1. cur >= 0 /\ it[r] < Iterations[cur]
      BY <1>3 DEF Layer
    <2>2. QED BY <1>2, <1>3, <2>1, NextObservationIs DEF SeenAt
  <1>8. ASSUME NEW sid \in Replica
        PROVE  \/ Steps!NextObservation(sid).layer > cur
               \/ /\ Steps!NextObservation(sid).layer = cur
                  /\ Steps!NextObservation(sid).it > 1
    <2>1. CASE sid \in active
      <3>1. SeenAt(sid, it[sid]) /\ it[sid] \in 1 .. Iterations[cur]
        BY <1>1, <1>3, <2>1 DEF ReplicaSeen, SeenByThread
      <3>2. QED BY <3>1, NextAfterSeen
    <2>2. CASE sid \notin active
      <3>1. ~RunsReplica(cur, sid)
        BY <1>1, <2>2, TargetIsCurrent, ScheduleAssumption DEF MainTracking, Layer, NoLayer
      <3>2. QED BY <1>1, <2>2, <3>1, NextAfterThrough DEF ReplicaSeen
    <2>3. QED BY <2>1, <2>2
  <1>9. Steps!InStep(Steps!NextObservation(r))
    BY <1>7, <1>8, StepsSchedule DEF Steps!InStep
  <1>10. Steps!Observe(r)
    <2>1. cur # NoLayer
      BY ScheduleAssumption DEF Layer, NoLayer
    <2>2. QED BY <1>1, <1>2, <1>4, <1>7, <1>9, <2>1, StepsSchedule DEF Steps!Observe
  <1>11. QED BY <1>5, <1>6, <1>10, StepsSchedule DEF Steps!Next

LEMMA ThreadSeen ==
  ASSUME SchedTypeOK, cur \in Layer, MainTracking, \A sid \in Replica : ReplicaSeen(sid),
         NEW r \in Replica, ThreadStep(r)
  PROVE  (\A sid \in Replica : ReplicaSeen(sid)') /\ [Steps!Next]_Steps!vars
  <1>1. CASE ThreadHit(r) /\ HitPasses(r)
    BY <1>1, HitObserves
  <1>2. CASE ~(ThreadHit(r) /\ HitPasses(r))
    <2>1. phase = "threads" /\ r \in active /\ UNCHANGED mainVars
      BY ThreadFrame
    <2>0. ThreadHit(r) => thread[r] = "wait" /\ HitFails(r)
      BY <1>2, HitOutcomes DEF ThreadHit
    <2>2. /\ UNCHANGED <<seen, it>>
          /\ SkipMode = "none" /\ error => error'
          /\ \A sid \in Replica \ {r} : thread'[sid] = thread[sid]
      BY <2>0
      DEF SchedTypeOK, ThreadStep, ThreadContinue, HitFails, ThreadReachesTarget,
          ThreadSkipsNothing, ThreadCount, ThreadCounted, ThreadToLock, ThreadAtLock,
          ThreadReturn, ThreadCollected, SkipReturns
    <2>3. it[r] \in 1 .. target /\ SeenByThread(r) /\ target \in Nat
      BY <2>1 DEF ReplicaSeen, SeenByThread, SchedTypeOK
    <2>4. SkipMode = "none" =>
            /\ thread'[r] = "wait" => it[r] < target
            /\ thread'[r] \in {"ret", "done"} /\ ~error' => it[r] = target
      BY <2>0, <2>3
      DEF SchedTypeOK, SeenByThread, ThreadStep, ThreadContinue, HitFails,
          ThreadReachesTarget, ThreadSkipsNothing, ThreadCount, ThreadCounted, ThreadToLock,
          ThreadAtLock, ThreadReturn, ThreadCollected
    <2>5. UNCHANGED <<phase, cur, active, pending, target>>
      BY <2>1 DEF mainVars
    <2>6. ASSUME NEW sid \in Replica PROVE ReplicaSeen(sid)'
      <3>1. CASE sid \in active
        <4>1. SeenByThread(sid) /\ (SeenAt(sid, it[sid])' <=> SeenAt(sid, it[sid]))
          BY <2>1, <2>2, <2>5, <3>1, SeenFrame DEF ReplicaSeen
        <4>2. SeenByThread(sid)'
          BY <2>2, <2>4, <2>5, <4>1 DEF SeenByThread
        <4>3. QED BY <2>1, <2>5, <3>1, <4>2 DEF ReplicaSeen
      <3>2. CASE sid \notin active
        BY <2>1, <2>2, <2>5, <3>2, SeenFrame DEF ReplicaSeen
      <3>3. QED BY <3>1, <3>2
    <2>7. QED BY <2>1, <2>2, <2>5, <2>6, Quiet
  <1>3. QED BY <1>1, <1>2

(* Without an error every worker came to its target. *)
LEMMA JoinSeen ==
  ASSUME MainTracking, \A sid \in Replica : ReplicaSeen(sid), JoinLayer
  PROVE  (\A sid \in Replica : ReplicaSeen(sid)') /\ [Steps!Next]_Steps!vars
  <1>1. phase = "threads" /\ UNCHANGED <<seen, cur, active, target>>
    BY DEF JoinLayer
  <1>2. CASE error'
    <2>1. phase' = "fail"
      BY <1>2 DEF JoinLayer
    <2>2. QED BY <1>1, <2>1, GivingUp DEF ReplicaSeen
  <1>3. CASE ~error'
    <2>1. phase' = "ran" /\ ~error /\ \A sid \in active : thread[sid] = "done"
      BY <1>3 DEF JoinLayer, Joined, RunFailed
    <2>2. ASSUME NEW sid \in Replica PROVE ReplicaSeen(sid)'
      <3>1. CASE sid \in active
        <4>1. SeenAt(sid, target)
          BY <1>1, <2>1, <3>1 DEF ReplicaSeen, SeenByThread, SeenAt
        <4>2. QED BY <1>1, <2>1, <3>1, <4>1, SeenFrame DEF ReplicaSeen
      <3>2. CASE sid \notin active
        BY <1>1, <2>1, <3>2, SeenFrame DEF ReplicaSeen
      <3>3. QED BY <3>1, <3>2
    <2>3. QED BY <1>1, <2>1, <2>2, Quiet
  <1>4. QED BY <1>2, <1>3

(* Neither do the cores nor a stutter touch what was observed.             *)
LEMMA UnchangedSeen ==
  ASSUME \A sid \in Replica : ReplicaSeen(sid), UNCHANGED schedVars
  PROVE  (\A sid \in Replica : ReplicaSeen(sid)') /\ UNCHANGED Steps!vars
  <1>1. /\ UNCHANGED <<seen, phase, cur, active, pending, target, thread, it, error>>
    BY DEF schedVars, mainVars, threadVars
  <1>2. ASSUME NEW sid \in Replica PROVE ReplicaSeen(sid)'
    <2>1. SeenByThread(sid)' <=> SeenByThread(sid)
      BY <1>1, SeenFrame DEF SeenByThread
    <2>2. QED BY <1>1, <2>1, SeenFrame DEF ReplicaSeen
  <1>3. QED BY <1>1, <1>2 DEF Steps!vars

-----------------------------------------------------------------------------
(* Where the cores are: every primitive keeps track of the replicas.       *)

LEMMA InitCores ==
  ASSUME Tracked, SchedInit
  PROVE  CoreTracking
  <1>1. cur \in Layer /\ cur = 0
    BY ScheduleAssumption DEF SchedInit, Layer
  <1>2. ASSUME NEW sid \in Replica, TargetLayer(sid) # NoLayer
        PROVE  ReplicaTracking(sid)
    <2>1. NextStart(sid) = [layer |-> TargetLayer(sid), it |-> 1]
      BY <1>1, TargetIsNext DEF SchedInit, CoreInit, NextStart
    <2>2. ~Reloads(sid)
      BY DEF SchedInit, CoreInit, Reloads
    <2>3. Waiting(sid)
      BY <1>1, <1>2, <2>1, <2>2, TargetFacts, CoreAssumption
      DEF SchedInit, CoreInit, Waiting, HeadsFor, Layer
    <2>4. QED BY <2>3 DEF ReplicaTracking, SchedInit
  <1>3. QED BY <1>2 DEF CoreTracking, SchedInit

LEMMA ScheduleCores ==
  ASSUME SchedTypeOK, cur \in Layer, MainTracking, Tracked, CoreTracking, ScheduleLayerStart
  PROVE  CoreTracking'
  <1>1. CoreTypeOK /\ scheduled \in [Replica -> BOOLEAN]
    BY DEF SchedTypeOK
  <1>2. \A sid : TargetLayer(sid)' = TargetLayer(sid)
    BY DEF ScheduleLayerStart, TargetLayer
  <1>3. ASSUME NEW sid \in Replica, TargetLayer(sid) # NoLayer
        PROVE  Armed(sid)'
    <2>1. TargetLayer(sid) \in Layer /\ StartPcOf(TargetLayer(sid), sid) # 0
      BY <1>3, TargetFacts, TrackedFacts
    <2>2. CASE Waiting(sid)
      <3>1. sid \in ToArm /\ sid \in Resolved(ToArm)
        BY <1>3, <2>1, <2>2 DEF ToArm, AlreadyArmed, Resolved, Waiting
      <3>2. /\ scheduled'[sid]
            /\ bp'[sid] = StartPcOf(TargetLayer(sid), sid)
            /\ mode'[sid] = IF pmReload[sid] THEN "combo" ELSE "pc"
            /\ pmReload[sid] => ~edge'[sid]
            /\ UNCHANGED <<at, halt, pmReload>>
            /\ sid \in torun'
        BY <2>2, <3>1 DEF ScheduleLayerStart, ComboArmed, Waiting
      <3>3. HeadsFor(sid, TargetLayer(sid))'
        BY <1>2, <2>2, <3>2 DEF Waiting, HeadsFor, NextStart, Reloads
      <3>4. halt'[sid] # 0
        BY <2>2, <3>2 DEF Waiting
      <3>5. QED BY <1>2, <3>2, <3>3, <3>4 DEF Armed
    <2>3. CASE ~IsLeftmost(sid) /\ Armed(sid)
      <3>1. sid \notin ToArm /\ sid \notin torun
        BY <2>3 DEF ToArm, AlreadyArmed, Armed, MainTracking, ScheduleLayerStart
      <3>2. /\ at'[sid] = at[sid] /\ halt'[sid] = halt[sid] /\ edge'[sid] = edge[sid]
            /\ bp'[sid] = bp[sid] /\ mode'[sid] = mode[sid]
            /\ pmReload'[sid] = pmReload[sid] /\ scheduled'[sid] = scheduled[sid]
            /\ sid \notin torun' /\ UNCHANGED cur
        BY <1>1, <3>1 DEF ScheduleLayerStart, ComboArmed, Resolved, CoreTypeOK
      <3>3. QED BY <2>3, <3>1, <3>2, ArmedFrame
    <2>4. QED
      BY <1>3, <2>2, <2>3 DEF CoreTracking, ReplicaTracking, ScheduleLayerStart
  <1>4. \A sid \in Replica : TargetLayer(sid) = NoLayer => ~scheduled'[sid]
    BY DEF CoreTracking, ScheduleLayerStart, ToArm
  <1>5. phase' = "armed"
    BY DEF ScheduleLayerStart
  <1>6. \A sid \in Replica : TargetLayer(sid) # NoLayer => ReplicaTracking(sid)'
    BY <1>3, <1>5 DEF ReplicaTracking
  <1>7. QED BY <1>2, <1>4, <1>6 DEF CoreTracking

LEMMA ContinueCores ==
  ASSUME SchedTypeOK, CoreTracking, ContinueArmed
  PROVE  CoreTracking'
  <1>1. CoreTypeOK /\ \A sid : TargetLayer(sid)' = TargetLayer(sid)
    BY DEF ContinueArmed, TargetLayer, SchedTypeOK
  <1>2. ASSUME NEW sid \in Replica, Armed(sid)
        PROVE  Armed(sid)'
    <2>1. /\ UNCHANGED <<at, bp, mode, edge, pmReload, scheduled>>
          /\ halt'[sid] = IF sid \in torun THEN 0 ELSE halt[sid]
          /\ sid \notin torun'
      BY DEF ContinueArmed, ContinueAie
    <2>2. CASE HeadsFor(sid, TargetLayer(sid)) /\ halt'[sid] = 0
      <3>1. HeadsFor(sid, TargetLayer(sid))'
        BY <1>1, <2>1, <2>2 DEF HeadsFor, NextStart, Reloads
      <3>2. pmReload[sid] => ~edge[sid]
        BY <1>2, <2>1, <2>2 DEF Armed, HeadsFor, HaltedAt
      <3>3. QED BY <1>1, <1>2, <2>1, <2>2, <3>1, <3>2 DEF Armed
    <2>3. CASE HaltedAt(sid, TargetLayer(sid), 1) /\ sid \notin torun
      BY <1>1, <1>2, <2>1, <2>3 DEF Armed, HaltedAt
    <2>4. QED BY <1>2, <2>1, <2>2, <2>3 DEF Armed
  <1>3. phase = "armed" /\ phase' = "poll" /\ UNCHANGED <<active, pending, scheduled>>
    BY DEF ContinueArmed
  <1>4. QED BY <1>1, <1>2, <1>3 DEF CoreTracking, ReplicaTracking

LEMMA PollCores ==
  ASSUME cur \in Layer, MainTracking, Tracked, CoreTracking, PollStamps
  PROVE  CoreTracking'
  <1>1. \A sid : TargetLayer(sid)' = TargetLayer(sid)
    BY DEF PollStamps, TargetLayer
  <1>2. ASSUME NEW sid, Armed(sid)
        PROVE  Armed(sid)'
    BY <1>2, ArmedFrame DEF PollStamps, coreVars
  <1>3. /\ phase = "poll" /\ phase' = "verify" /\ UNCHANGED <<active, pending, scheduled>>
        /\ pending = active
    BY DEF PollStamps, MainTracking
  <1>4. ASSUME NEW sid \in Replica, sid \in active, Armed(sid)
        PROVE  HaltedAt(sid, cur, 1)'
    <2>1. torun = {} /\ TargetLayer(sid) = cur /\ halt[sid] # 0
      BY <1>3, <1>4, ScheduleAssumption DEF MainTracking, PollStamps, Tracked, Layer, NoLayer
    <2>2. HaltedAt(sid, cur, 1)
      BY <1>4, <2>1 DEF Armed
    <2>3. QED BY <2>2 DEF HaltedAt, PollStamps, coreVars
  <1>5. ASSUME NEW sid \in Replica, ReplicaTracking(sid)
        PROVE  ReplicaTracking(sid)'
    BY <1>2, <1>3, <1>4, <1>5 DEF ReplicaTracking
  <1>6. QED BY <1>1, <1>3, <1>5 DEF CoreTracking

LEMMA VerifyCores ==
  ASSUME SchedTypeOK, cur \in Layer, MainTracking, CoreTracking,
         NEW r \in Replica, VerifyStamp(r), phase' \notin {"exited", "fail"}
  PROVE  CoreTracking'
  <1>1. VerifyPasses(r)
    BY VerifyOutcomes
  <1>2. /\ phase = "verify" /\ r \in pending /\ pending \subseteq active /\ torun = {}
        /\ UNCHANGED <<at, halt, bp, edge, cur, active, torun, thread>>
        /\ pending' = pending \ {r}
        /\ phase' \in {"ready", "verify"}
        /\ phase' = "ready" => pending' = {}
    BY <1>1 DEF VerifyStamp, VerifyPasses, AfterVerify, threadVars, MainTracking
  <1>3. /\ mode' = [mode EXCEPT ![r] = IF pmReload[r] THEN "pc" ELSE @]
        /\ pmReload'  = [pmReload EXCEPT ![r] = FALSE]
        /\ scheduled' = [scheduled EXCEPT ![r] = FALSE]
    BY <1>1 DEF VerifyPasses
  <1>4. CoreTypeOK /\ \A sid : TargetLayer(sid)' = TargetLayer(sid)
    BY <1>2 DEF SchedTypeOK, TargetLayer
  <1>5. TargetLayer(r) = cur /\ cur # NoLayer
    BY <1>2, ScheduleAssumption DEF MainTracking, Layer, NoLayer
  <1>6. Armed(r)
    BY <1>2, <1>5 DEF CoreTracking, ReplicaTracking
  <1>7. HaltedAt(r, cur, 1)
    BY <1>2, <1>5 DEF CoreTracking, ReplicaTracking
  <1>8. SteppedTo(r, 1)'
    <2>1. /\ bp'[r] = StartPcOf(cur', r) /\ mode'[r] = "pc"
          /\ ~pmReload'[r] /\ ~scheduled'[r]
      BY <1>2, <1>3, <1>4, <1>5, <1>6 DEF Armed, CoreTypeOK, SchedTypeOK
    <2>2. QED BY <1>2, <1>7, <2>1 DEF SteppedTo, Verified, HaltedAt
  <1>9. ASSUME NEW sid \in Replica \ {r}
        PROVE  /\ mode'[sid] = mode[sid] /\ pmReload'[sid] = pmReload[sid]
               /\ scheduled'[sid] = scheduled[sid]
    BY <1>3 DEF SchedTypeOK, CoreTypeOK
  <1>10. ASSUME NEW sid \in Replica, TargetLayer(sid) # NoLayer
         PROVE  ReplicaTracking(sid)'
    <2>1. CASE sid = r
      BY <1>2, <1>8, <2>1 DEF ReplicaTracking
    <2>2. CASE sid # r /\ sid \in active \ pending
      <3>1. SteppedTo(sid, 1)
        BY <1>2, <1>10, <2>2 DEF CoreTracking, ReplicaTracking
      <3>2. SteppedTo(sid, 1)'
        BY <1>2, <1>9, <2>2, <3>1, SteppedToFrame
      <3>3. QED BY <1>2, <2>2, <3>2 DEF ReplicaTracking
    <2>3. CASE sid # r /\ sid \notin active \ pending
      <3>1. Armed(sid)
        BY <1>2, <1>10, <2>3 DEF CoreTracking, ReplicaTracking
      <3>2. Armed(sid)'
        BY <1>2, <1>9, <2>3, <3>1, ArmedFrame
      <3>3. /\ sid \notin active' \ pending' /\ (phase' = "ready" => sid \notin active')
            /\ sid \in pending' => sid \in pending
        BY <1>2, <2>3
      <3>4. sid \in pending => HaltedAt(sid, cur, 1)'
        BY <1>2, <1>10 DEF CoreTracking, ReplicaTracking, HaltedAt
      <3>5. QED BY <1>2, <3>2, <3>3, <3>4 DEF ReplicaTracking
    <2>4. QED BY <2>1, <2>2, <2>3
  <1>11. ASSUME NEW sid \in Replica, TargetLayer(sid) = NoLayer
         PROVE  ~scheduled'[sid]
    BY <1>5, <1>9, <1>11 DEF CoreTracking
  <1>12. QED BY <1>4, <1>10, <1>11 DEF CoreTracking

(* run_layer starts at the iteration the active replicas were stepped to.  *)
LEMMA RunLayerCores ==
  ASSUME CoreTracking, phase \in {"ready", "idle"}, NEW t \in Nat, NEW f \in 1 .. t,
         \A sid \in active : TargetLayer(sid) # NoLayer => SteppedTo(sid, f), RunLayer(t, f)
  PROVE  CoreTracking'
  <1>1. /\ phase' = "threads" /\ target' = t
        /\ thread' = [sid \in Replica |-> IF sid \in active THEN "go" ELSE "idle"]
        /\ it' = [sid \in Replica |-> f]
        /\ UNCHANGED <<coreVars, cur, scheduled, pmReload, active, torun, pending>>
    BY DEF RunLayer
  <1>2. \A sid : TargetLayer(sid)' = TargetLayer(sid)
    BY <1>1 DEF TargetLayer
  <1>3. ASSUME NEW sid \in Replica, TargetLayer(sid) # NoLayer
        PROVE  ReplicaTracking(sid)'
    <2>1. CASE sid \in active
      <3>1. SteppedTo(sid, f)
        BY <1>3, <2>1
      <3>2. it'[sid] = f /\ thread'[sid] = "go"
        BY <1>1, <2>1
      <3>3. CASE Verified(sid) /\ HaltedAt(sid, cur, f)
        <4>1. Verified(sid)' /\ HaltedAt(sid, cur, f)'
          BY <1>1, <3>3 DEF Verified, HaltedAt, coreVars
        <4>2. SteppedByThread(sid)'
          BY <1>1, <3>2, <4>1 DEF SteppedByThread, HaltedAt
        <4>3. QED BY <1>1, <2>1, <4>2 DEF ReplicaTracking
      <3>4. CASE LetGo(sid) /\ f = Iterations[cur]
        <4>1. SteppedByThread(sid)'
          BY <1>1, <3>2, <3>4 DEF SteppedByThread, LetGo, coreVars
        <4>2. QED BY <1>1, <2>1, <4>1 DEF ReplicaTracking
      <3>5. QED BY <3>1, <3>3, <3>4 DEF SteppedTo
    <2>2. CASE sid \notin active
      <3>1. Armed(sid)
        BY <1>3, <2>2 DEF CoreTracking, ReplicaTracking
      <3>2. Armed(sid)'
        BY <1>1, <3>1, ArmedFrame DEF coreVars
      <3>3. QED BY <1>1, <2>2, <3>2 DEF ReplicaTracking
    <2>3. QED BY <2>1, <2>2
  <1>4. QED BY <1>1, <1>2, <1>3 DEF CoreTracking

LEMMA JoinCores ==
  ASSUME SchedTypeOK, cur \in Layer, MainTracking, Tracked, CoreTracking, JoinLayer,
         phase' # "fail"
  PROVE  CoreTracking'
  <1>1. CoreTypeOK /\ \A sid : TargetLayer(sid)' = TargetLayer(sid)
    BY DEF JoinLayer, TargetLayer, SchedTypeOK
  <1>2. /\ phase = "threads" /\ phase' = "ran" /\ ~error
        /\ \A sid \in active : thread[sid] = "done"
        /\ Release(Finished)
        /\ UNCHANGED <<at, edge, cur, scheduled, pmReload, active, torun, pending, target>>
    BY DEF JoinLayer, Joined, RunFailed
  <1>3. /\ active = {sid \in Replica : TargetLayer(sid) = cur}
        /\ target \in 1 .. Iterations[cur] /\ Iterations[cur] \in Nat
    BY <1>2, ScheduleAssumption DEF MainTracking, NumIter, Tracked, Layer, NoLayer
  <1>4. ASSUME NEW sid \in Replica, sid \notin Finished
        PROVE  bp'[sid] = bp[sid] /\ mode'[sid] = mode[sid] /\ halt'[sid] = halt[sid]
    BY <1>1, <1>2, <1>4 DEF Release, ContinueAie, CoreTypeOK
  <1>5. ASSUME NEW sid \in Finished
        PROVE  /\ sid \in Replica /\ ~IsLeftmost(sid) /\ target = Iterations[cur]
               /\ NextLayerFor(StampOf(sid), cur + 1) = NoLayer
               /\ mode'[sid] = "off"
    BY <1>2, <1>5 DEF Finished, NumIter, Tracked, Release
  <1>6. ASSUME NEW sid \in Replica, TargetLayer(sid) # NoLayer
        PROVE  ReplicaTracking(sid)'
    <2>1. CASE sid \in active
      <3>1. SteppedByThread(sid) /\ thread[sid] = "done"
        BY <1>2, <1>6, <2>1 DEF CoreTracking, ReplicaTracking
      <3>2. SteppedTo(sid, target) /\ ~scheduled[sid]
        BY <1>2, <1>3, <3>1 DEF SteppedByThread, SteppedTo, LetGo, Verified
      <3>3. SteppedTo(sid, target)'
        <4>1. CASE sid \in Finished
          BY <1>2, <1>5, <3>2, <4>1 DEF SteppedTo, LetGo
        <4>2. CASE sid \notin Finished
          BY <1>2, <1>4, <3>2, <4>2, SteppedToFrame
        <4>3. QED BY <4>1, <4>2
      <3>4. QED BY <1>2, <2>1, <3>3 DEF ReplicaTracking
    <2>2. CASE sid \notin active
      <3>1. sid \notin Finished
        BY <1>3, <1>5, <1>6, <2>2, TargetKept
      <3>2. Armed(sid)
        BY <1>2, <1>6, <2>2 DEF CoreTracking, ReplicaTracking
      <3>3. Armed(sid)'
        BY <1>2, <1>4, <3>1, <3>2, ArmedFrame
      <3>4. QED BY <1>2, <2>2, <3>3 DEF ReplicaTracking
    <2>3. QED BY <2>1, <2>2
  <1>7. QED BY <1>1, <1>2, <1>6 DEF CoreTracking

(* A worker steps its own replica and disturbs no other one.               *)
LEMMA ThreadStepped ==
  ASSUME SchedTypeOK, cur \in Layer, Tracked, NEW r \in Replica, ThreadStep(r),
         UNCHANGED mainVars, SteppedByThread(r), target <= Iterations[cur]
  PROVE  /\ UNCHANGED <<at, bp, mode, edge>>
         /\ \A sid \in Replica \ {r} :
              halt'[sid] = halt[sid] /\ thread'[sid] = thread[sid] /\ it'[sid] = it[sid]
         /\ error => error'
         /\ SteppedByThread(r)'
  <1>1. UNCHANGED <<cur, scheduled, pmReload, target>>
    BY DEF mainVars
  <1>2. SkipMode = "none" /\ Iterations[cur] \in Nat /\ target \in Nat
        /\ it[r] \in 1 .. target
    BY ScheduleAssumption DEF Tracked, SteppedByThread, SchedTypeOK
  <1>3. CASE ThreadContinue(r)
    <2>1. /\ thread[r] = "go" /\ it[r] < target /\ thread'[r] = "wait"
          /\ halt'[r] = 0 /\ UNCHANGED <<at, bp, mode, edge, it, error>>
          /\ \A sid \in Replica \ {r} : halt'[sid] = halt[sid] /\ thread'[sid] = thread[sid]
      BY <1>3 DEF ThreadContinue, ContinueAie, SchedTypeOK, CoreTypeOK
    <2>2. Verified(r) /\ HaltedAt(r, cur, it[r])
      BY <1>2, <2>1 DEF SteppedByThread
    <2>3. SteppedByThread(r)'
      BY <1>1, <1>2, <2>1, <2>2 DEF SteppedByThread, Verified, HaltedAt
    <2>4. QED BY <2>1, <2>3
  <1>4. CASE ThreadHit(r) /\ HitPasses(r)
    <2>1. /\ thread[r] = "wait" /\ halt[r] # 0
          /\ it'[r] = it[r] + 1 /\ thread'[r] = "go"
          /\ UNCHANGED <<at, halt, bp, mode, edge, error>>
          /\ \A sid \in Replica \ {r} : it'[sid] = it[sid] /\ thread'[sid] = thread[sid]
      BY <1>4 DEF ThreadHit, HitPasses, Tracked, coreVars, SchedTypeOK
    <2>2. Verified(r) /\ it[r] < target /\ HaltedAt(r, cur, it[r] + 1)
      BY <1>2, <2>1 DEF SteppedByThread
    <2>3. SteppedByThread(r)'
      BY <1>1, <1>2, <2>1, <2>2 DEF SteppedByThread, Verified, HaltedAt
    <2>4. QED BY <2>1, <2>3
  <1>5. CASE ThreadHit(r) /\ HitFails(r)
    <2>1. /\ error' /\ thread[r] = "wait" /\ thread'[r] = "ret"
          /\ UNCHANGED <<at, halt, bp, mode, edge, it>>
          /\ \A sid \in Replica \ {r} : thread'[sid] = thread[sid]
      BY <1>5 DEF ThreadHit, HitFails, coreVars, SchedTypeOK
    <2>2. Verified(r)
      BY <1>2, <2>1 DEF SteppedByThread
    <2>3. SteppedByThread(r)'
      BY <1>1, <1>2, <2>1, <2>2 DEF SteppedByThread, Verified
    <2>4. QED BY <2>1, <2>3
  <1>6. CASE ThreadReachesTarget(r)
    <2>1. /\ thread[r] = "go" /\ it[r] = target /\ thread'[r] = "ret"
          /\ UNCHANGED <<at, halt, bp, mode, edge, it, error>>
          /\ \A sid \in Replica \ {r} : thread'[sid] = thread[sid]
      BY <1>2, <1>6 DEF ThreadReachesTarget, coreVars, SchedTypeOK
    <2>2. SteppedByThread(r)'
      BY <1>1, <1>2, <2>1 DEF SteppedByThread, Verified, HaltedAt, LetGo
    <2>3. QED BY <2>1, <2>2
  <1>7. CASE ThreadReturn(r)
    <2>1. /\ thread[r] = "ret" /\ thread'[r] = "done"
          /\ UNCHANGED <<at, halt, bp, mode, edge, it, error>>
          /\ \A sid \in Replica \ {r} : thread'[sid] = thread[sid]
      BY <1>7 DEF ThreadReturn, coreVars, SchedTypeOK
    <2>2. SteppedByThread(r)'
      BY <1>1, <1>2, <2>1 DEF SteppedByThread, Verified, HaltedAt, LetGo
    <2>3. QED BY <2>1, <2>2
  <1>8. CASE ThreadCollected(r)
    <2>1. /\ error' /\ thread[r] = "done" /\ UNCHANGED <<at, halt, bp, mode, edge, it, thread>>
      BY <1>8 DEF ThreadCollected, coreVars
    <2>2. SteppedByThread(r)'
      BY <1>1, <1>2, <2>1 DEF SteppedByThread, Verified, HaltedAt, LetGo
    <2>3. QED BY <2>1, <2>2
  <1>9. QED
    BY <1>2, <1>3, <1>4, <1>5, <1>6, <1>7, <1>8, HitOutcomes
    DEF ThreadStep, ThreadSkipsNothing, ThreadCount, ThreadCounted, ThreadToLock, ThreadAtLock

LEMMA ThreadCores ==
  ASSUME SchedTypeOK, cur \in Layer, MainTracking, Tracked, CoreTracking,
         NEW r \in Replica, ThreadStep(r)
  PROVE  CoreTracking'
  <1>1. phase = "threads" /\ r \in active /\ UNCHANGED mainVars
    BY ThreadFrame
  <1>2. /\ UNCHANGED <<phase, cur, scheduled, pmReload, active, torun, pending, target>>
        /\ \A sid : TargetLayer(sid)' = TargetLayer(sid)
    BY <1>1 DEF mainVars, TargetLayer
  <1>3. /\ TargetLayer(r) = cur /\ cur # NoLayer /\ target <= Iterations[cur]
    BY <1>1, ScheduleAssumption DEF MainTracking, Layer, NoLayer, NumIter, Tracked
  <1>4. SteppedByThread(r)
    BY <1>1, <1>3 DEF CoreTracking, ReplicaTracking
  <1>5. /\ UNCHANGED <<at, bp, mode, edge>>
        /\ \A sid \in Replica \ {r} :
             halt'[sid] = halt[sid] /\ thread'[sid] = thread[sid] /\ it'[sid] = it[sid]
        /\ error => error'
        /\ SteppedByThread(r)'
    BY <1>1, <1>3, <1>4, ThreadStepped
  <1>6. ASSUME NEW sid \in Replica, TargetLayer(sid) # NoLayer
        PROVE  ReplicaTracking(sid)'
    <2>1. CASE sid = r
      BY <1>1, <1>2, <1>5, <2>1 DEF ReplicaTracking
    <2>2. CASE sid # r /\ sid \in active
      <3>1. SteppedByThread(sid)
        BY <1>1, <1>6, <2>2 DEF CoreTracking, ReplicaTracking
      <3>2. SteppedByThread(sid)'
        BY <1>2, <1>5, <2>2, <3>1 DEF SteppedByThread, Verified, HaltedAt, LetGo
      <3>3. QED BY <1>1, <1>2, <2>2, <3>2 DEF ReplicaTracking
    <2>3. CASE sid \notin active
      <3>1. Armed(sid) /\ sid # r
        BY <1>1, <1>6, <2>3 DEF CoreTracking, ReplicaTracking
      <3>2. Armed(sid)'
        BY <1>2, <1>5, <3>1, ArmedFrame
      <3>3. QED BY <1>1, <1>2, <2>3, <3>2 DEF ReplicaTracking
    <2>4. QED BY <2>1, <2>2, <2>3
  <1>7. QED BY <1>2, <1>6 DEF CoreTracking

(* A replica that is stepped to an iteration stands still or is let go.    *)
LEMMA SteppedToKept ==
  ASSUME SchedTypeOK, NEW r \in Replica, CoreStep(r), UNCHANGED schedVars,
         NEW sid \in Replica, NEW i, SteppedTo(sid, i)
  PROVE  SteppedTo(sid, i)'
  <1>1. UNCHANGED <<cur, scheduled, pmReload>>
    BY DEF schedVars, mainVars
  <1>2. halt[r] = 0 /\ bp' = bp /\ mode' = mode
    BY CoreStepRuns
  <1>3. CASE sid = r
    BY <1>1, <1>2, <1>3 DEF SteppedTo, LetGo, HaltedAt
  <1>4. CASE sid # r
    BY <1>1, <1>2, <1>4, CoreStepFrame, SteppedToFrame
  <1>5. QED BY <1>3, <1>4

(* The cores run on between any two steps of the controller.               *)
LEMMA CoreCores ==
  ASSUME SchedTypeOK, cur \in Layer, MainTracking, Tracked, CoreTracking,
         NEW r \in Replica, CoreStep(r), UNCHANGED schedVars
  PROVE  CoreTracking'
  <1>1. /\ UNCHANGED <<phase, cur, scheduled, pmReload, active, torun, pending, target>>
        /\ UNCHANGED <<thread, it, error>>
        /\ \A sid : TargetLayer(sid)' = TargetLayer(sid)
    BY DEF schedVars, mainVars, threadVars, TargetLayer
  <1>2. halt[r] = 0 /\ bp' = bp /\ mode' = mode
    BY CoreStepRuns
  <1>3. ASSUME NEW sid \in Replica, TargetLayer(sid) # NoLayer, sid # r
        PROVE  ReplicaTracking(sid)'
    <2>1. /\ at'[sid] = at[sid] /\ halt'[sid] = halt[sid] /\ edge'[sid] = edge[sid]
      BY <1>3, CoreStepFrame
    <2>2. Armed(sid) => Armed(sid)'
      BY <1>1, <1>2, <2>1, ArmedFrame
    <2>3. \A i : SteppedTo(sid, i) => SteppedTo(sid, i)'
      BY <1>3, SteppedToKept
    <2>4. SteppedByThread(sid)' <=> SteppedByThread(sid)
      BY <1>1, <1>2, <2>1 DEF SteppedByThread, Verified, HaltedAt, LetGo
    <2>5. Waiting(sid)' <=> Waiting(sid)
      BY <1>1, <1>2, <2>1 DEF Waiting, HeadsFor, NextStart, Reloads
    <2>6. SteppedTo(sid, target) => SteppedTo(sid, target)'
      BY <1>1, <2>3 DEF SteppedTo, HaltedAt
    <2>7. SteppedTo(sid, 1) => SteppedTo(sid, 1)'
      BY <2>3
    <2>8. HaltedAt(sid, cur, 1) => HaltedAt(sid, cur, 1)'
      BY <1>1, <2>1 DEF HaltedAt
    <2>9. ReplicaTracking(sid)
      BY <1>3 DEF CoreTracking
    <2>10. QED BY <1>1, <2>2, <2>4, <2>5, <2>6, <2>7, <2>8, <2>9 DEF ReplicaTracking
  <1>4. ASSUME TargetLayer(r) # NoLayer
        PROVE  ReplicaTracking(r)'
    <2>1. ReplicaTracking(r)
      BY <1>4 DEF CoreTracking
    <2>2. Armed(r) => Armed(r)'
      BY <1>4, ArmedCore
    <2>3. ~Waiting(r) /\ ~HaltedAt(r, cur, 1)
      BY <1>2 DEF Waiting, HaltedAt
    <2>4. \A i : SteppedTo(r, i) => SteppedTo(r, i)'
      BY SteppedToKept
    <2>5. /\ SteppedTo(r, 1) => SteppedTo(r, 1)'
          /\ SteppedTo(r, target) => SteppedTo(r, target)'
      BY <1>1, <2>4 DEF SteppedTo, HaltedAt
    <2>6. phase = "threads" /\ r \in active => SteppedByThread(r)'
      <3>1. SUFFICES ASSUME phase = "threads", r \in active PROVE SteppedByThread(r)'
        OBVIOUS
      <3>2. TargetLayer(r) = cur /\ target <= Iterations[cur] /\ SteppedByThread(r)
        BY <2>1, <3>1, ScheduleAssumption
        DEF MainTracking, ReplicaTracking, Layer, NoLayer, NumIter, Tracked
      <3>3. QED BY <3>2, SteppedCore
    <2>7. QED BY <1>1, <2>1, <2>2, <2>3, <2>4, <2>5, <2>6 DEF ReplicaTracking
  <1>5. QED BY <1>1, <1>3, <1>4 DEF CoreTracking

LEMMA UnchangedCores ==
  ASSUME CoreTracking, UNCHANGED <<coreVars, schedVars>>
  PROVE  CoreTracking'
  <1>1. \A sid : TargetLayer(sid)' = TargetLayer(sid) /\ UNCHANGED scheduled
    BY DEF TargetLayer, schedVars, mainVars
  <1>2. ASSUME NEW sid \in Replica
        PROVE  ReplicaTracking(sid)' <=> ReplicaTracking(sid)
    BY DEF ReplicaTracking, Waiting, Armed, Verified, LetGo, SteppedTo, SteppedByThread, HeadsFor,
           HaltedAt, NextStart, Reloads, TargetLayer, coreVars, schedVars, mainVars, threadVars
  <1>3. QED BY <1>1, <1>2 DEF CoreTracking

(* The reload state computed after a layer is what the cores will do.      *)
LEMMA CheckPmReloadRight ==
  ASSUME cur \in Layer, Tracked, NEW sid \in Replica, HasNextLayer,
         RunsReplica(cur, sid), HaltedAt(sid, cur, Iterations[cur]),
         NextLayerFor(StampOf(sid), cur + 1) # NoLayer
  PROVE  /\ NextStart(sid) = [layer |-> NextLayerFor(StampOf(sid), cur + 1), it |-> 1]
         /\ cur < NextLayerFor(StampOf(sid), cur + 1)
         /\ CheckPmReload(sid) <=> Reloads(sid)
  <1> DEFINE n == NextLayerFor(StampOf(sid), cur + 1)
  <1>1. cur >= 0 /\ Iterations[cur] \in Nat
    BY ScheduleAssumption DEF Layer
  <1>2. NextStart(sid) = [layer |-> n, it |-> 1]
    BY <1>1 DEF HaltedAt, NextStart
  <1>3. n \in Layer /\ n >= cur + 1 /\ RunsReplica(n, sid)
    BY NextLayerForFirst DEF IsFirstLayer, RunsReplica
  <1>4. (IF IsLeftmost(sid) THEN cur + 1 ELSE n) = n
    <2>1. SUFFICES ASSUME IsLeftmost(sid) PROVE n = cur + 1
      OBVIOUS
    <2>2. cur + 1 \in Layer
      BY <1>1, ScheduleAssumption DEF HasNextLayer, Layer
    <2>3. 0 < StampCount[cur + 1]
      BY <2>2, ScheduleAssumption
    <2>4. QED BY <2>1, <2>2, <2>3, NextLayerForHere DEF IsLeftmost
  <1>5. ElfOf(cur, sid) # ElfOf(n, sid) => PmReloadEn[StampOf(sid)]
    BY <1>3, TrackedFacts
  <1>6. Reloads(sid) <=> ElfOf(cur, sid) # ElfOf(n, sid)
    BY <1>1, <1>2, <1>3 DEF Reloads, HaltedAt
  <1>7. CheckPmReload(sid) <=> ElfOf(cur, sid) # ElfOf(n, sid)
    BY <1>3, <1>4, <1>5 DEF CheckPmReload
  <1>8. cur < n
    BY <1>1, <1>3 DEF Layer
  <1>9. QED BY <1>2, <1>6, <1>7, <1>8

(* With the next layer current, what a replica heads for is its next layer.*)
LEMMA TargetAfter ==
  ASSUME cur \in Layer, cur' = cur + 1, cur' \in Layer, NEW sid \in Replica
  PROVE  TargetLayer(sid)' = NextLayerFor(StampOf(sid), cur + 1)
  <1>1. CASE IsLeftmost(sid)
    <2>1. 0 < StampCount[cur + 1]
      BY ScheduleAssumption
    <2>2. NextLayerFor(StampOf(sid), cur + 1) = cur + 1
      BY <1>1, <2>1, NextLayerForHere DEF IsLeftmost
    <2>3. QED BY <1>1, <2>2 DEF TargetLayer
  <1>2. QED BY <1>1 DEF TargetLayer

(* The current layer was stepped to its last iteration and the reload      *)
(* state of its replicas is recomputed: all of them head for their next    *)
(* layer.                                                                  *)
LEMMA NextLayerCores ==
  ASSUME SchedTypeOK, cur \in Layer, MainTracking, Tracked, CoreTracking,
         phase = "ran", target = Iterations[cur], HasNextLayer,
         phase' = "layer", cur' = cur + 1,
         pmReload' = [sid \in Replica |-> IF RunsReplica(cur, sid)
                                            THEN CheckPmReload(sid) ELSE pmReload[sid]],
         UNCHANGED <<coreVars, scheduled, torun>>
  PROVE  CoreTracking'
  <1>1. cur' \in Layer /\ cur # NoLayer
    BY ScheduleAssumption DEF HasNextLayer, Layer, NoLayer
  <1>2. torun = {} /\ active = {sid \in Replica : TargetLayer(sid) = cur}
    BY <1>1 DEF MainTracking
  <1>3. UNCHANGED <<at, halt, bp, mode, edge>>
    BY DEF coreVars
  <1>4. \A sid \in Replica : TargetLayer(sid)' = NextLayerFor(StampOf(sid), cur + 1)
    BY <1>1, TargetAfter
  <1>5. ASSUME NEW sid \in Replica, sid \in active
        PROVE  RunsReplica(cur, sid) /\ SteppedTo(sid, Iterations[cur]) /\ ~scheduled[sid]
    <2>1. TargetLayer(sid) = cur
      BY <1>2, <1>5
    <2>2. SteppedTo(sid, Iterations[cur])
      BY <1>1, <1>5, <2>1 DEF CoreTracking, ReplicaTracking
    <2>3. QED BY <2>1, <2>2, TargetIsCurrent DEF SteppedTo, Verified, LetGo
  <1>6. ASSUME NEW sid \in Replica, sid \notin active
        PROVE  /\ ~RunsReplica(cur, sid) /\ ~IsLeftmost(sid)
               /\ NextLayerFor(StampOf(sid), cur + 1) = TargetLayer(sid)
               /\ IF TargetLayer(sid) = NoLayer THEN ~scheduled[sid] ELSE Armed(sid)
    <2>1. TargetLayer(sid) # cur
      BY <1>2, <1>6
    <2>2. QED
      BY <1>6, <2>1, TargetIsCurrent, TargetKept DEF CoreTracking, ReplicaTracking
  <1>7. ASSUME NEW sid \in Replica, NextLayerFor(StampOf(sid), cur + 1) # NoLayer
        PROVE  Waiting(sid)' \/ (~IsLeftmost(sid) /\ Armed(sid)')
    <2>1. CASE sid \in active
      <3>1. /\ HaltedAt(sid, cur, Iterations[cur]) /\ mode[sid] = "pc"
            /\ ~scheduled[sid] /\ RunsReplica(cur, sid)
        BY <1>5, <1>7, <2>1 DEF SteppedTo, Verified, LetGo
      <3>2. /\ NextStart(sid) = [layer |-> NextLayerFor(StampOf(sid), cur + 1), it |-> 1]
            /\ cur < NextLayerFor(StampOf(sid), cur + 1)
            /\ CheckPmReload(sid) <=> Reloads(sid)
        BY <1>7, <3>1, CheckPmReloadRight
      <3>3. pmReload'[sid] <=> Reloads(sid)
        BY <3>1, <3>2
      <3>4. NextStart(sid)' = NextStart(sid) /\ Reloads(sid)' = Reloads(sid)
        BY <1>3 DEF NextStart, Reloads
      <3>5. QED
        BY <1>3, <1>4, <3>1, <3>2, <3>3, <3>4 DEF Waiting, HeadsFor, HaltedAt
    <2>2. CASE sid \notin active
      <3>1. /\ ~RunsReplica(cur, sid) /\ ~IsLeftmost(sid) /\ Armed(sid)
            /\ TargetLayer(sid)' = TargetLayer(sid)
        BY <1>4, <1>6, <1>7, <2>2
      <3>2. pmReload'[sid] = pmReload[sid]
        BY <3>1
      <3>3. Armed(sid)'
        BY <1>2, <1>3, <3>1, <3>2 DEF Armed, HeadsFor, HaltedAt, NextStart, Reloads
      <3>4. QED BY <3>1, <3>3
    <2>3. QED BY <2>1, <2>2
  <1>8. ASSUME NEW sid \in Replica, NextLayerFor(StampOf(sid), cur + 1) = NoLayer
        PROVE  ~scheduled'[sid]
    BY <1>5, <1>6, <1>8
  <1>9. \A sid \in Replica :
          NextLayerFor(StampOf(sid), cur + 1) # NoLayer => ReplicaTracking(sid)'
    BY <1>7 DEF ReplicaTracking
  <1>10. QED BY <1>4, <1>8, <1>9 DEF CoreTracking

-----------------------------------------------------------------------------
(* A start breakpoint is processed where the core really is.               *)

LEMMA VerifyTrue ==
  ASSUME SchedTypeOK, cur \in Layer, MainTracking, CoreTracking,
         NEW r \in Replica, VerifyStamp(r), NEW sid \in Replica, seen'[sid] # seen[sid]
  PROVE  seen'[sid] = at'[sid]
  <1>1. VerifyPasses(r)
    BY VerifyOutcomes
  <1>2. /\ r = sid /\ seen'[sid] = [layer |-> cur, it |-> 1]
        /\ phase = "verify" /\ sid \in pending /\ UNCHANGED at
    BY <1>1 DEF VerifyStamp, VerifyPasses, SchedTypeOK
  <1>3. TargetLayer(sid) = cur /\ cur # NoLayer
    BY <1>2, ScheduleAssumption DEF MainTracking, Layer, NoLayer
  <1>4. HaltedAt(sid, cur, 1)
    BY <1>2, <1>3 DEF CoreTracking, ReplicaTracking
  <1>5. QED BY <1>2, <1>4 DEF HaltedAt

LEMMA ThreadTrue ==
  ASSUME SchedTypeOK, cur \in Layer, MainTracking, Tracked, CoreTracking,
         NEW r \in Replica, ThreadStep(r), NEW sid \in Replica, seen'[sid] # seen[sid]
  PROVE  seen'[sid] = at'[sid]
  <1>1. ThreadHit(r)
    BY DEF ThreadStep, ThreadContinue, ThreadReachesTarget, ThreadSkipsNothing,
           ThreadCount, ThreadCounted, ThreadToLock, ThreadAtLock, ThreadReturn,
           ThreadCollected
  <1>0. HitPasses(r)
    BY <1>1, HitOutcomes DEF HitFails
  <1>2. /\ r = sid /\ halt[sid] # 0
        /\ seen'[sid] = [layer |-> cur, it |-> it'[sid]]
        /\ it'[sid] = it[sid] + 1
        /\ thread[sid] = "wait" /\ UNCHANGED at
    BY <1>1, <1>0 DEF ThreadHit, HitPasses, Tracked, coreVars, SchedTypeOK
  <1>3. phase = "threads" /\ sid \in active /\ TargetLayer(sid) = cur /\ cur # NoLayer
    BY <1>2, ScheduleAssumption DEF MainTracking, Layer, NoLayer
  <1>4. SteppedByThread(sid) /\ target <= Iterations[cur] /\ it[sid] < target
    BY <1>2, <1>3, NumIterType, ScheduleAssumption
    DEF CoreTracking, ReplicaTracking, MainTracking, SteppedByThread, SchedTypeOK
  <1>5. HaltedAt(sid, cur, it[sid] + 1)
    <2>1. it[sid] # Iterations[cur]
      BY <1>4, ScheduleAssumption DEF SchedTypeOK
    <2>2. QED BY <1>2, <1>4, <2>1 DEF SteppedByThread, HaltedAt
  <1>6. QED BY <1>2, <1>5 DEF HaltedAt
=============================================================================
