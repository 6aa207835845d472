---------------------------- MODULE StampTracking ---------------------------
(***************************************************************************)
(* What the controllers built on the execution primitives, batch mode and  *)
(* interactive mode, know of the replicas from phase to phase: what each   *)
(* of them was last observed at, and where its core is.  Both controllers  *)
(* complete these predicates to an inductive invariant.                    *)
(***************************************************************************)
EXTENDS StampScheduler

(* The run as the abstract specification sees it. *)
Steps == INSTANCE LockStep WITH
  status <- IF phase \in {"success", "exited", "fail"} THEN phase ELSE "running"

(* The promise of LockStep: the replicas are observed in program order and *)
(* in lock step, and success means that all of it was seen.                *)
StepsInLockStep == Steps!Spec

-----------------------------------------------------------------------------
(* The variables of the main thread and of its workers fit together.       *)
MainTracking ==
  /\ phase = "armed" \/ torun = {}
  /\ phase # "layer" /\ cur # NoLayer => active = {sid \in Replica : TargetLayer(sid) = cur}
  /\ pending \subseteq active
  /\ phase \in {"armed", "poll"} => pending = active
  /\ phase \in {"ready", "threads", "ran", "idle"} => pending = {}
  /\ \A sid \in Replica : thread[sid] # "idle" => phase = "threads" /\ sid \in active
  /\ phase = "threads" => target \in 1 .. NumIter(cur)

-----------------------------------------------------------------------------
(* What was observed, for every design and every skip mode.                *)

(* Replica sid was observed all the way up to layer l. *)
Through(sid, l) ==
  Steps!NextObservation(sid) = [layer |-> NextLayerFor(StampOf(sid), l), it |-> 1]

(* Its last observation is iteration i of the current layer.               *)
SeenAt(sid, i) == seen[sid] = [layer |-> cur, it |-> IF SkipMode = "none" THEN i ELSE 1]

(* Its worker thread counts the iterations it observed. *)
SeenByThread(sid) ==
  /\ it[sid] \in 1 .. target
  /\ SeenAt(sid, it[sid])
  /\ SkipMode = "none" /\ thread[sid] = "wait" => it[sid] < target
  /\ SkipMode = "none" /\ thread[sid] \in {"ret", "done"} /\ ~error => it[sid] = target

ReplicaSeen(sid) ==
  /\ phase \in {"layer", "armed", "poll"} => Through(sid, cur)
  /\ phase = "verify" /\ sid \notin active \ pending => Through(sid, cur)
  /\ phase = "verify" /\ sid \in active \ pending => SeenAt(sid, 1)
  /\ phase \in {"ready", "threads", "ran"} /\ sid \notin active => Through(sid, cur)
  /\ phase = "ready" /\ sid \in active => SeenAt(sid, 1)
  /\ phase = "threads" /\ sid \in active => SeenByThread(sid)
  /\ phase = "ran" /\ sid \in active => SeenAt(sid, target)

-----------------------------------------------------------------------------
(* Where the cores are, for designs the controller has what it takes to    *)
(* track: iterations are stepped one by one, every entry PC is resolved    *)
(* and unmistakable inside its ELF, and a stamp whose layers come from     *)
(* different ELFs is known to be reloadable.  No wait gives up, because a  *)
(* core that still runs can be taken for one that reached its breakpoint.  *)
Tracked ==
  /\ SkipMode = "none" /\ ~MayTimeOut
  /\ \A l \in Layer : \A s \in 0 .. StampCount[l] - 1 :
       /\ StartPc[l][s] # 0 /\ StartPc[l][s] # PostLayerPc[s]
       /\ <<Elf[l][s], StartPc[l][s]>> \notin AliasPc
       /\ \A k \in Layer : Elf[k][s] # Elf[l][s] => PmReloadEn[s]

(* The next start of the core is the one its breakpoint is meant for, and  *)
(* the controller knows whether a reload comes first.                      *)
HeadsFor(sid, l) ==
  /\ NextStart(sid) = [layer |-> l, it |-> 1] /\ at[sid].layer < l
  /\ pmReload[sid] <=> Reloads(sid)

HaltedAt(sid, l, i) == at[sid] = [layer |-> l, it |-> i] /\ halt[sid] # 0

(* Halted where its last layer left it, no breakpoint set yet. *)
Waiting(sid) ==
  /\ ~scheduled[sid] /\ halt[sid] # 0 /\ mode[sid] = "pc"
  /\ HeadsFor(sid, TargetLayer(sid))

(* On its way to the breakpoint of its next layer, or stopped there. *)
Armed(sid) ==
  /\ scheduled[sid]
  /\ bp[sid] = StartPcOf(TargetLayer(sid), sid)
  /\ mode[sid] = IF pmReload[sid] THEN "combo" ELSE "pc"
  /\ \/ /\ HeadsFor(sid, TargetLayer(sid))
        /\ pmReload[sid] => ~edge[sid]
        /\ halt[sid] # 0 <=> sid \in torun
     \/ HaltedAt(sid, TargetLayer(sid), 1) /\ sid \notin torun

(* Verified at the start of the current layer: every iteration halts it. *)
Verified(sid) ==
  /\ ~scheduled[sid] /\ ~pmReload[sid]
  /\ bp[sid] = StartPcOf(cur, sid) /\ mode[sid] = "pc"

(* Released at its last iteration, because no further layer needs it.      *)
LetGo(sid) ==
  /\ ~IsLeftmost(sid) /\ NextLayerFor(StampOf(sid), cur + 1) = NoLayer
  /\ ~scheduled[sid] /\ mode[sid] = "off"

(* Stepped to iteration i of the current layer. *)
SteppedTo(sid, i) ==
  \/ Verified(sid) /\ HaltedAt(sid, cur, i)
  \/ LetGo(sid) /\ i = Iterations[cur]

(* Its worker thread knows the iteration it is in. *)
SteppedByThread(sid) ==
  /\ it[sid] \in 1 .. target
  /\ thread[sid] # "idle"
  /\ thread[sid] = "wait" => it[sid] < target
  /\ \/ /\ Verified(sid)
        /\ thread[sid] = "go" => HaltedAt(sid, cur, it[sid])
        /\ thread[sid] = "wait" =>
             \/ halt[sid] = 0 /\ at[sid] = [layer |-> cur, it |-> it[sid]]
             \/ HaltedAt(sid, cur, it[sid] + 1)
        /\ thread[sid] \in {"ret", "done"} /\ ~error => HaltedAt(sid, cur, target)
     \/ LetGo(sid) /\ it[sid] = Iterations[cur]

(* A replica that has a layer to run, the current one or a later one.      *)
ReplicaTracking(sid) ==
  /\ phase = "layer" => Waiting(sid) \/ (~IsLeftmost(sid) /\ Armed(sid))
  /\ phase \in {"armed", "poll"} => Armed(sid)
  /\ phase = "verify" /\ sid \notin active \ pending => Armed(sid)
  /\ phase = "verify" /\ sid \in pending => HaltedAt(sid, cur, 1)
  /\ phase = "verify" /\ sid \in active \ pending => SteppedTo(sid, 1)
  /\ phase \in {"ready", "threads", "ran", "idle"} /\ sid \notin active => Armed(sid)
  /\ phase = "ready" /\ sid \in active => SteppedTo(sid, 1)
  /\ phase = "threads" /\ sid \in active => SteppedByThread(sid)
  /\ phase = "ran" /\ sid \in active => SteppedTo(sid, target)

CoreTracking ==
  \A sid \in Replica :
    IF TargetLayer(sid) = NoLayer THEN ~scheduled[sid] ELSE ReplicaTracking(sid)
=============================================================================
