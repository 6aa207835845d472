--------------------------- MODULE StampScheduler ---------------------------
(***************************************************************************)
(* The execution primitives of BatchRunner, shared by batch mode and by    *)
(* the interactive controller: schedule_layer_start, which brings the      *)
(* replicas of the current layer to its first iteration and arms the       *)
(* others ahead of time, and run_layer, which steps every active replica   *)
(* through the iterations in a thread of its own.                          *)
(*                                                                         *)
(* The main thread is a program counter `phase'; each wait for the         *)
(* hardware, and each worker thread, is a separate step, so the cores run  *)
(* and halt between any two of them.                                       *)
(***************************************************************************)
EXTENDS AieCores

CONSTANTS
  ExitAt,     \* execution index of --exit_at_layer; NoLayer when not given
  MayTimeOut  \* a wait for the hardware may give up

VARIABLES
  phase,      \* where the main thread is
  cur,        \* state.current_layer
  scheduled,  \* state.break_on_stamp_scheduled
  pmReload,   \* state.pm_reload
  active,     \* replicas in state.active_stamps_all_batches
  torun,      \* bes_to_run of schedule_layer_start
  pending,    \* active replicas whose PC is still to be verified
  target,     \* target_itr of run_layer
  thread,     \* replica -> step of its _run_stamp
  it,         \* replica -> cur_it of its _run_stamp
  hung,       \* replica -> its last skip or hit failed
  result,     \* replica -> what its _run_stamp returned
  error,      \* state.error
  seen        \* replica -> last start breakpoint processed

mainVars   == <<phase, cur, scheduled, pmReload, active, torun, pending, target>>
threadVars == <<thread, it, hung, result, error>>
schedVars  == <<mainVars, threadVars, seen>>

Phase == {"layer", "armed", "poll", "verify", "ready", "threads", "ran",
          "end", "idle", "success", "exited", "fail"}

SchedTypeOK ==
  /\ CoreTypeOK
  /\ phase \in Phase
  /\ cur \in 0 .. NumLayers
  /\ scheduled \in [Replica -> BOOLEAN]
  /\ pmReload \in [Replica -> BOOLEAN]
  /\ active \subseteq Replica /\ torun \subseteq Replica /\ pending \subseteq Replica
  /\ target \in Nat
  /\ thread \in [Replica -> {"idle", "go", "wait", "ret", "done"}]
  /\ it \in [Replica -> Nat]
  /\ hung \in [Replica -> BOOLEAN]
  /\ result \in [Replica -> BOOLEAN]
  /\ error \in BOOLEAN
  /\ seen \in [Replica -> Start]

SchedInit ==
  /\ CoreInit
  /\ phase = "layer"
  /\ cur = 0
  /\ scheduled = [sid \in Replica |-> FALSE]
  /\ pmReload  = [sid \in Replica |-> FALSE]
  /\ active = {} /\ torun = {} /\ pending = {}
  /\ target = 0
  /\ thread = [sid \in Replica |-> "idle"]
  /\ it     = [sid \in Replica |-> 0]
  /\ hung   = [sid \in Replica |-> FALSE]
  /\ result = [sid \in Replica |-> TRUE]
  /\ error  = FALSE
  /\ seen   = [sid \in Replica |-> [layer |-> -1, it |-> 0]]

-----------------------------------------------------------------------------
(* schedule_layer_start.                                                   *)

(* The layer whose start the breakpoint of replica sid is meant for. *)
TargetLayer(sid) ==
  IF IsLeftmost(sid) THEN cur ELSE NextLayerFor(StampOf(sid), cur)

(* Nobody remembers that the breakpoint was set ahead of time. *)
AlreadyArmed_Never(sid) == FALSE

AlreadyArmed(sid) == ~IsLeftmost(sid) /\ scheduled[sid]

ToArm  == {sid \in Replica : TargetLayer(sid) # NoLayer /\ ~AlreadyArmed(sid)}

(* Replicas whose breakpoint can be written: the others keep the old one.  *)
Resolved(S) == {sid \in S : StartPcOf(TargetLayer(sid), sid) # 0}

(* The reload is forgotten: a stamp waits for its plain PC event. *)
ComboArmed_Never == {}

(* Replicas that go through a reload before they reach their layer. *)
ComboArmed == {sid \in Resolved(ToArm) : pmReload[sid]}

ScheduleLayerStart ==
  /\ phase = "layer"
  /\ phase' = "armed"
  /\ bp' = [sid \in Replica |->
              IF sid \in Resolved(ToArm) THEN StartPcOf(TargetLayer(sid), sid) ELSE bp[sid]]
  /\ mode' = [sid \in Replica |-> IF sid \in ComboArmed THEN "combo" ELSE mode[sid]]
  /\ edge' = [sid \in Replica |-> sid \notin ComboArmed /\ edge[sid]]
  /\ scheduled' = [sid \in Replica |-> sid \in ToArm \/ scheduled[sid]]
  /\ torun'  = ToArm
  /\ active' = {sid \in Replica : TargetLayer(sid) = cur}
  /\ pending' = active'
  /\ UNCHANGED <<at, halt, count, cur, pmReload, target, threadVars, seen>>

(* Run stamps at exact same time. *)
ContinueArmed ==
  /\ phase = "armed"
  /\ phase' = "poll"
  /\ ContinueAie(torun)
  /\ torun' = {}
  /\ UNCHANGED <<at, bp, mode, edge, count, cur, scheduled, pmReload, active,
                 pending, target, threadVars, seen>>

(* wait_until every stamp that targets this layer has halted; when the     *)
(* time is up the controller goes on all the same.                         *)
PollStamps ==
  /\ phase = "poll"
  /\ MayTimeOut \/ \A sid \in active : halt[sid] # 0
  /\ phase' = "verify"
  /\ UNCHANGED <<coreVars, cur, scheduled, pmReload, active, torun, pending,
                 target, threadVars, seen>>

(* The loop over the active stamps ends after its first round. *)
AfterVerify_First(rest) == "ready"

AfterVerify(rest) == IF rest = {} THEN "ready" ELSE "verify"

(* The PC of the next active stamp is compared with the start of the layer.*)
(* enable_pc_halt ends the combo of a stamp that went through a reload.    *)
VerifyStamp(sid) ==
  /\ phase = "verify"
  /\ sid \in pending /\ \A r \in pending : sid <= r
  /\ \E matches \in PcsMatchTarget(sid, StartPcOf(cur, sid), pmReload[sid]) :
       IF matches /\ cur < ExitAt
         THEN /\ seen' = [seen EXCEPT ![sid] = [layer |-> cur, it |-> 1]]
              /\ mode' = [mode EXCEPT ![sid] = IF pmReload[sid] THEN "pc" ELSE @]
              /\ pmReload'  = [pmReload EXCEPT ![sid] = FALSE]
              /\ scheduled' = [scheduled EXCEPT ![sid] = FALSE]
              /\ pending' = pending \ {sid}
              /\ phase' = AfterVerify(pending')
         ELSE /\ phase' = IF matches THEN "exited" ELSE "fail"
              /\ UNCHANGED <<seen, mode, pmReload, scheduled, pending>>
  /\ UNCHANGED <<at, halt, bp, edge, count, cur, active, torun, target, threadVars>>
-----------------------------------------------------------------------------
(* run_layer and the worker threads.                                       *)

(* Main thread: start one _run_stamp per active replica. *)
RunLayer(targetItr, fromItr) ==
  /\ phase' = "threads"
  /\ target' = targetItr
  /\ thread' = [sid \in Replica |-> IF sid \in active THEN "go" ELSE "idle"]
  /\ it'     = [sid \in Replica |-> fromItr]
  /\ hung'   = [sid \in Replica |-> FALSE]
  /\ UNCHANGED <<coreVars, cur, scheduled, pmReload, active, torun, pending,
                 result, error, seen>>

(* The call that skips the iterations returned ok: the thread stores the   *)
(* outcome in the state that all threads share.                            *)
SkipReturns(sid, ok) ==
  /\ error' = ~ok
  /\ hung' = [hung EXCEPT ![sid] = ~ok]
  /\ thread' = [thread EXCEPT ![sid] = "ret"]
  /\ UNCHANGED it

(* hit_next_breakpoint lets the replica run and starts to poll it. *)
ThreadContinue(sid) ==
  /\ SkipMode = "none" /\ thread[sid] = "go" /\ it[sid] < target
  /\ ContinueAie({sid})
  /\ thread' = [thread EXCEPT ![sid] = "wait"]
  /\ UNCHANGED <<at, bp, mode, edge, count, mainVars, it, hung, result, error, seen>>

(* It halted, or the attempts are used up; the PC tells whether it is at   *)
(* the start of the next iteration.                                        *)
ThreadHit(sid) ==
  /\ SkipMode = "none" /\ thread[sid] = "wait"
  /\ halt[sid] # 0 \/ MayTimeOut
  /\ \/ /\ TRUE \in PcsMatchTarget(sid, StartPcOf(cur, sid), FALSE)
        /\ it' = [it EXCEPT ![sid] = @ + 1]
        /\ seen' = [seen EXCEPT ![sid] = [layer |-> cur, it |-> it'[sid]]]
        /\ thread' = [thread EXCEPT ![sid] = "go"]
        /\ UNCHANGED <<hung, error>>
     \/ /\ FALSE \in PcsMatchTarget(sid, StartPcOf(cur, sid), FALSE)
        /\ error' = TRUE
        /\ hung' = [hung EXCEPT ![sid] = TRUE]
        /\ thread' = [thread EXCEPT ![sid] = "ret"]
        /\ UNCHANGED <<it, seen>>
  /\ UNCHANGED <<coreVars, mainVars, result>>

ThreadReachesTarget(sid) ==
  /\ SkipMode = "none" /\ thread[sid] = "go" /\ it[sid] >= target
  /\ thread' = [thread EXCEPT ![sid] = "ret"]
  /\ UNCHANGED <<coreVars, mainVars, it, hung, result, error, seen>>

(* Both skip calls return at once when there is nothing to skip. *)
ThreadSkipsNothing(sid) ==
  /\ SkipMode # "none" /\ thread[sid] = "go" /\ it[sid] >= target
  /\ SkipReturns(sid, TRUE)
  /\ UNCHANGED <<coreVars, mainVars, result, seen>>

(* skip_iterations: halt on the performance counter instead of the PC. *)
ThreadCount(sid) ==
  /\ SkipMode = "skip_iter" /\ thread[sid] = "go" /\ it[sid] < target
  /\ count' = [count EXCEPT ![sid] = target - it[sid]]
  /\ mode' = [mode EXCEPT ![sid] = "count"]
  /\ ContinueAie({sid})
  /\ thread' = [thread EXCEPT ![sid] = "wait"]
  /\ UNCHANGED <<at, bp, edge, mainVars, it, hung, result, error, seen>>

ThreadCounted(sid) ==
  /\ SkipMode = "skip_iter" /\ thread[sid] = "wait"
  /\ count[sid] = 0 \/ MayTimeOut
  /\ mode' = [mode EXCEPT ![sid] = IF count[sid] = 0 THEN "pc" ELSE @]
  /\ SkipReturns(sid, count[sid] = 0)
  /\ UNCHANGED <<at, halt, bp, edge, count, mainVars, result, seen>>

(* skip_iterations_to_lock_acq: a stamp with no further layer is released, *)
(* any other runs to the lock acquire after the layer.                     *)
ThreadToLock(sid) ==
  /\ SkipMode = "skip_iter2" /\ thread[sid] = "go" /\ it[sid] < target
  /\ \/ /\ NextLayerFor(StampOf(sid), cur + 1) = NoLayer
        /\ Release({sid})
        /\ SkipReturns(sid, TRUE)
     \/ /\ NextLayerFor(StampOf(sid), cur + 1) # NoLayer
        /\ bp' = [bp EXCEPT ![sid] = PostLayerPc[StampOf(sid)]]
        /\ ContinueAie({sid})
        /\ thread' = [thread EXCEPT ![sid] = "wait"]
        /\ UNCHANGED <<mode, it, hung, error>>
  /\ UNCHANGED <<at, edge, count, mainVars, result, seen>>

ThreadAtLock(sid) ==
  /\ SkipMode = "skip_iter2" /\ thread[sid] = "wait"
  /\ halt[sid] # 0 \/ MayTimeOut
  /\ \E ok \in PcsMatchTarget(sid, PostLayerPc[StampOf(sid)], FALSE) :
       SkipReturns(sid, ok)
  /\ UNCHANGED <<coreVars, mainVars, result, seen>>

(* return not self.state.error *)
ThreadReturn(sid) ==
  /\ thread[sid] = "ret"
  /\ result' = [result EXCEPT ![sid] = ~error]
  /\ thread' = [thread EXCEPT ![sid] = "done"]
  /\ UNCHANGED <<coreVars, mainVars, it, hung, error, seen>>

(* The pool hands the main thread a result, which it looks at while other  *)
(* workers still run; TRUE stands for one that asks for nothing more.      *)
ThreadCollected(sid) ==
  /\ thread[sid] = "done" /\ ~result[sid]
  /\ error' = TRUE
  /\ result' = [result EXCEPT ![sid] = TRUE]
  /\ UNCHANGED <<coreVars, mainVars, thread, it, hung, seen>>

ThreadStep(sid) ==
  \/ ThreadContinue(sid) \/ ThreadHit(sid) \/ ThreadReachesTarget(sid)
  \/ ThreadSkipsNothing(sid)
  \/ ThreadCount(sid) \/ ThreadCounted(sid)
  \/ ThreadToLock(sid) \/ ThreadAtLock(sid)
  \/ ThreadReturn(sid) \/ ThreadCollected(sid)

(* Finished replicas stay halted until the end of the run. *)
Finished_None == {}

(* Replicas without a further layer, released once the layer is stepped to *)
(* its last iteration.  A single replica is never released here.           *)
Finished ==
  IF Replica # {0} /\ target = NumIter(cur)
    THEN {sid \in Replica : /\ ~IsLeftmost(sid)
                            /\ NextLayerFor(StampOf(sid), cur + 1) = NoLayer}
    ELSE {}

(* The main thread goes on when the first worker is done. *)
Joined_First == \E sid \in active : thread[sid] = "done" /\ result[sid]

(* A worker is awaited for every replica, active or not. *)
Joined_All == \A sid \in Replica : thread[sid] = "done" /\ result[sid]

Joined == \A sid \in active : thread[sid] = "done" /\ result[sid]

(* state.error is not looked at. *)
RunFailed_Never == FALSE

RunFailed == error

(* The pool is joined, finished replicas are released and an error ends    *)
(* the run.                                                                *)
JoinLayer ==
  /\ phase = "threads" /\ Joined
  /\ error' = RunFailed
  /\ Release(Finished)
  /\ phase' = IF error' THEN "fail" ELSE "ran"
  /\ thread' = [sid \in Replica |-> "idle"]
  /\ UNCHANGED <<at, edge, count, cur, scheduled, pmReload, active, torun,
                 pending, target, it, hung, result, seen>>

(* The end of the execution list is missed by one. *)
HasNextLayer_Le == cur + 1 <= NumLayers

HasNextLayer == cur + 1 < NumLayers

(* A reload is never expected. *)
CheckPmReload_Never(sid) == FALSE

(* check_pm_reload for replica sid after layer cur. *)
CheckPmReload(sid) ==
  LET next == IF IsLeftmost(sid) THEN cur + 1 ELSE NextLayerFor(StampOf(sid), cur + 1)
  IN  /\ PmReloadEn[StampOf(sid)]
      /\ HasNextLayer
      /\ RunsReplica(cur, sid)
      /\ next # NoLayer
      /\ RunsReplica(next, sid)
      /\ ElfOf(cur, sid) # ElfOf(next, sid)
=============================================================================
