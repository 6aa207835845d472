----------------------------- MODULE BatchRunner ----------------------------
(***************************************************************************)
(* Batch mode: execute_and_dump steps every layer of the execution list,   *)
(* recomputes the reload state, and releases all cores at the end.         *)
(***************************************************************************)
EXTENDS StampTracking

vars == <<coreVars, schedVars>>

Init == SchedInit

(* The layer is stepped to its last iteration. *)
RunWholeLayer ==
  /\ phase = "ready"
  /\ RunLayer(NumIter(cur), 1)

(* The reload state of the replicas that ran this layer is recomputed and  *)
(* the next layer becomes current.                                         *)
AdvanceLayer ==
  /\ phase = "ran"
  /\ pmReload' = [sid \in Replica |-> IF RunsReplica(cur, sid)
                                        THEN CheckPmReload(sid) ELSE pmReload[sid]]
  /\ IF HasNextLayer
       THEN cur' = cur + 1 /\ phase' = "layer"
       ELSE UNCHANGED cur /\ phase' = "end"
  /\ UNCHANGED <<coreVars, scheduled, active, torun, pending, target, threadVars, seen>>

(* initialize_stamp of every replica: no event halts it and it is unhalted.*)
FinishRun ==
  /\ phase = "end"
  /\ phase' = "success"
  /\ mode' = [sid \in Replica |-> "off"]
  /\ ContinueAie(Replica)
  /\ UNCHANGED <<at, bp, edge, count, cur, scheduled, pmReload, active, torun,
                 pending, target, threadVars, seen>>

MainStep ==
  \/ ScheduleLayerStart \/ ContinueArmed \/ PollStamps
  \/ \E sid \in Replica : VerifyStamp(sid)
  \/ RunWholeLayer \/ JoinLayer \/ AdvanceLayer \/ FinishRun

Next ==
  \/ MainStep
  \/ \E sid \in Replica : ThreadStep(sid)
  \/ \E sid \in Replica : CoreStep(sid) /\ UNCHANGED schedVars

(* The controller's threads are scheduled by the interpreter and a core    *)
(* that runs gets on with its program.                                     *)
Fairness ==
  /\ WF_vars(MainStep)
  /\ \A sid \in Replica :
       WF_vars(ThreadStep(sid))
       /\ WF_vars((CoreStart(sid) \/ CorePostLayer(sid)) /\ UNCHANGED schedVars)

Spec == Init /\ [][Next]_vars /\ Fairness

-----------------------------------------------------------------------------
(* Types of the variables. *)
TypeOK == SchedTypeOK /\ cur \in Layer

(* What the controller reports about a replica is true, when no wait gives *)
(* up: as it processes the start breakpoint of an iteration (and dumps the *)
(* buffers of that iteration), the core is at the start of exactly that    *)
(* iteration.                                                              *)
ObservationsAreTrue ==
  [][\A sid \in Replica : seen'[sid] # seen[sid] => seen'[sid] = at'[sid]]_vars

(* A replica armed for a layer ahead of time never gets past the start of  *)
(* that layer before the controller comes to verify it, when no wait gives *)
(* up.                                                                     *)
ArmedNeverOvershoots ==
  \A sid \in Replica :
    scheduled[sid] /\ phase \notin {"success", "fail", "exited"} =>
      LET goal == [layer |-> TargetLayer(sid), it |-> 1]
      IN  \/ at[sid].layer < goal.layer
          \/ at[sid] = goal /\ halt[sid] # 0

(* A hang that one worker thread detected fails the run: the controller    *)
(* never goes on to the next layer.                                        *)
HangFailsRun ==
  phase \in {"ran", "end", "success"} => \A sid \in active : ~hung[sid]

(* A replica that no further layer needs is let go: it runs out to         *)
(* Core_Done whatever becomes of the others, and no breakpoint stops it.   *)
FinishedRunsOut ==
  \A sid \in Replica : TargetLayer(sid) = NoLayer ~> at[sid].layer = NoLayer

(* Every run comes to an end: no wait of the controller for the cores, and *)
(* of one replica for another, lasts forever.                              *)
RunEnds == <>(phase \in {"success", "exited", "fail"})

(* When no wait times out the run succeeds and every core runs out to      *)
(* Core_Done.                                                              *)
RunCompletes ==
  <>(phase = "success" /\ \A sid \in Replica : at[sid].layer = NoLayer)

-----------------------------------------------------------------------------
(* Why the controller never loses a core: the state of every replica that  *)
(* still has a layer to run, phase by phase, until the list is through.    *)
Tracking ==
  /\ Tracked
  /\ phase \notin {"end", "success", "exited", "fail"} => CoreTracking
  /\ phase = "end" => \A sid \in Replica : ~scheduled[sid]

(* A layer is always stepped to its last iteration. *)
WholeLayers ==
  /\ phase # "idle"
  /\ phase \in {"threads", "ran"} => target = NumIter(cur)

(* What was observed, phase by phase; at the end of the list it is all.    *)
SeenTracking ==
  \A sid \in Replica :
    /\ ReplicaSeen(sid)
    /\ phase = "end" => Steps!NextObservation(sid).layer = NoLayer

(* A hang is on record from the step that detects it to the end of the run.*)
HangTracking ==
  /\ \A sid \in Replica : thread[sid] # "idle" => phase = "threads"
  /\ \A sid \in Replica : hung[sid] => error
  /\ error => phase \in {"threads", "fail"}
=============================================================================
