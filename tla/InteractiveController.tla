------------------------ MODULE InteractiveController -----------------------
(***************************************************************************)
(* Interactive mode.  The user steps through iterations and layers, sets   *)
(* breakpoints at an iteration of a layer, and continues to the next one;  *)
(* the controller drives the execution primitives of BatchRunner.          *)
(*                                                                         *)
(* Layers are named by their position in the execution list: that is what  *)
(* exec_index turns a layer_order into.  The user acts only at the prompt, *)
(* when no command is in progress.                                         *)
(***************************************************************************)
EXTENDS StampTracking, SequencesExt

CONSTANTS
  Breakpoints,     \* positions the user may ask to stop at
  MaxBreakpoints   \* bound on the breakpoints pending at one time

(* A layer that is not in the execution list is refused, and the prompt    *)
(* takes digits for the iteration.                                         *)
ASSUME BreakpointAssumption ==
  /\ Breakpoints \subseteq [layer : Layer, it : Nat]
  /\ MaxBreakpoints \in Nat

(* The exit at a layer belongs to batch mode.                              *)
ASSUME InteractiveAssumption == ExitAt = NoLayer

VARIABLES
  curIt,    \* state.cur_it
  bps,      \* state.manual_breakpoints
  finish,   \* state.continue_to_finish
  step,     \* step in progress: "none", "iter" or "layer"
  cmd,      \* loop of continue_execution in progress: "none", "goto", "iterate"
  goal      \* the breakpoint it goes to

userVars == <<curIt, bps, finish, step, cmd, goal>>
vars == <<coreVars, schedVars, userVars>>

Position == [layer : 0 .. NumLayers, it : Nat]

Here == [layer |-> cur, it |-> curIt]

Before(a, b) == a.layer < b.layer \/ (a.layer = b.layer /\ a.it < b.it)

(* initialize_aie makes layer 0 current and steps to its start. *)
Init ==
  /\ SchedInit
  /\ curIt = 1
  /\ bps = <<>>
  /\ finish = FALSE
  /\ step = "none"
  /\ cmd = "none"
  /\ goal = [layer |-> 0, it |-> 0]

AtPrompt == phase = "idle" /\ cmd = "none"

-----------------------------------------------------------------------------
(* Steps, taken by the user or by the loop of continue_execution.          *)

(* schedule_layer_start returned to its caller. *)
Scheduled ==
  /\ phase = "ready"
  /\ phase' = "idle"
  /\ UNCHANGED <<coreVars, cur, scheduled, pmReload, active, torun, pending,
                 target, threadVars, seen, userVars>>

(* step_layer first runs the rest of the current layer. *)
StepLayer ==
  /\ cur # NoLayer
  /\ RunLayer(NumIter(cur), curIt)
  /\ step' = "layer"

(* step_iteration; "Unable to step" counts as success. *)
StepIteration ==
  \/ cur = NoLayer /\ UNCHANGED <<coreVars, schedVars, step>>
  \/ cur # NoLayer /\ curIt = NumIter(cur) /\ StepLayer
  \/ /\ cur # NoLayer /\ curIt # NumIter(cur)
     /\ RunLayer(curIt + 1, curIt)
     /\ step' = "iter"

IterationStepped ==
  /\ phase = "ran" /\ step = "iter"
  /\ phase' = "idle" /\ step' = "none"
  /\ curIt' = curIt + 1
  /\ finish' = (finish \/ (cur = NumLayers - 1 /\ curIt' = NumIter(cur)))
  /\ UNCHANGED <<coreVars, cur, scheduled, pmReload, active, torun, pending,
                 target, threadVars, seen, bps, cmd, goal>>

(* The replicas whose reload state step_layer recomputes. *)
Recomputed == {sid \in Replica : sid < StampCount[cur]}

LayerStepped ==
  /\ phase = "ran" /\ step = "layer"
  /\ pmReload' = [sid \in Replica |-> IF sid \in Recomputed
                                        THEN CheckPmReload(sid) ELSE pmReload[sid]]
  /\ cur' = cur + 1 /\ curIt' = 1 /\ step' = "none"
  /\ IF HasNextLayer
       THEN phase' = "layer" /\ UNCHANGED finish
       ELSE phase' = "idle" /\ finish' = TRUE
  /\ UNCHANGED <<coreVars, scheduled, active, torun, pending, target,
                 threadVars, seen, bps, cmd, goal>>

-----------------------------------------------------------------------------
(* Commands of the prompt.                                                 *)

UserStepIteration ==
  /\ AtPrompt /\ StepIteration
  /\ UNCHANGED <<curIt, bps, finish, cmd, goal>>

UserStepLayer ==
  /\ AtPrompt /\ StepLayer
  /\ UNCHANGED <<curIt, bps, finish, cmd, goal>>

(* The list is left in the order of the calls. *)
Insert_Unsorted(b) == Append(bps, b)

(* What sorting makes of a list in order whose last element is new.        *)
Insert(b) ==
  [i \in 1 .. Len(bps) + 1 |->
     IF i <= Len(bps) /\ ~Before(b, bps[i]) THEN bps[i]
     ELSE IF i = 1 \/ ~Before(b, bps[i - 1]) THEN b
     ELSE bps[i - 1]]

(* add_breakpoint: layers already left are refused, and the list is kept   *)
(* in execution order.                                                     *)
AddBreakpoint ==
  /\ AtPrompt /\ Len(bps) < MaxBreakpoints
  /\ \E b \in Breakpoints :
       /\ b.layer >= cur
       /\ bps' = Insert(b)
  /\ UNCHANGED <<coreVars, schedVars, curIt, finish, step, cmd, goal>>

(* The goal of the command is the next breakpoint, or else the end of the  *)
(* design.                                                                 *)
UserContinue ==
  /\ AtPrompt /\ ~finish
  /\ \/ /\ cur = NoLayer
        /\ finish' = TRUE
        /\ UNCHANGED <<bps, cmd, goal>>
     \/ /\ cur # NoLayer /\ bps = <<>>
        /\ finish' = TRUE /\ cmd' = "goto"
        /\ goal' = [layer |-> NumLayers - 1, it |-> NumIter(NumLayers - 1)]
        /\ UNCHANGED bps
     \/ /\ cur # NoLayer /\ bps # <<>>
        /\ cmd' = "goto" /\ goal' = Head(bps) /\ bps' = Tail(bps)
        /\ UNCHANGED finish
  /\ UNCHANGED <<coreVars, schedVars, curIt, step>>

(* The debugger exits and leaves the cores as they are. *)
UserFinish_LeavesHalted ==
  /\ AtPrompt /\ finish
  /\ phase' = "exited"
  /\ UNCHANGED <<coreVars, cur, scheduled, pmReload, active, torun, pending,
                 target, threadVars, seen, userVars>>

(* "Running AIE to end": every replica goes on and the debugger exits.     *)
UserFinish ==
  /\ AtPrompt /\ finish
  /\ ContinueAie(Replica)
  /\ phase' = "exited"
  /\ UNCHANGED <<at, bp, mode, edge, count, cur, scheduled, pmReload, active,
                 torun, pending, target, threadVars, seen, userVars>>

(* First loop of continue_execution: layer by layer up to the goal; to     *)
(* finish, the last layer is run as well.                                  *)
ContinueLayers ==
  /\ phase = "idle" /\ cmd = "goto"
  /\ \/ cur < goal.layer /\ StepLayer /\ UNCHANGED cmd
     \/ cur >= goal.layer /\ finish /\ StepLayer /\ cmd' = "none"
     \/ /\ cur >= goal.layer /\ ~finish
        /\ cmd' = "iterate"
        /\ UNCHANGED <<coreVars, schedVars, step>>
  /\ UNCHANGED <<curIt, bps, finish, goal>>

(* Second loop: iteration by iteration up to the goal. *)
ContinueIterations ==
  /\ phase = "idle" /\ cmd = "iterate"
  /\ \/ curIt < goal.it /\ StepIteration /\ UNCHANGED cmd
     \/ /\ curIt >= goal.it
        /\ cmd' = "none"
        /\ UNCHANGED <<coreVars, schedVars, step>>
  /\ UNCHANGED <<curIt, bps, finish, goal>>

-----------------------------------------------------------------------------
(* The thread of the prompt while a command is in progress. *)
MainStep ==
  \/ /\ \/ ScheduleLayerStart \/ ContinueArmed \/ PollStamps
        \/ \E sid \in Replica : VerifyStamp(sid)
        \/ JoinLayer
     /\ UNCHANGED userVars
  \/ Scheduled \/ IterationStepped \/ LayerStepped
  \/ ContinueLayers \/ ContinueIterations

UserStep ==
  \/ UserStepIteration \/ UserStepLayer \/ AddBreakpoint
  \/ UserContinue \/ UserFinish

Next ==
  \/ MainStep
  \/ UserStep
  \/ \E sid \in Replica : ThreadStep(sid) /\ UNCHANGED userVars
  \/ \E sid \in Replica : CoreStep(sid) /\ UNCHANGED <<schedVars, userVars>>

(* A command in progress runs on; the user owes nothing. *)
Fairness ==
  /\ WF_vars(MainStep)
  /\ \A sid \in Replica :
       /\ WF_vars(ThreadStep(sid) /\ UNCHANGED userVars)
       /\ WF_vars((CoreStart(sid) \/ CorePostLayer(sid))
                    /\ UNCHANGED <<schedVars, userVars>>)

Spec == Init /\ [][Next]_vars /\ Fairness

-----------------------------------------------------------------------------
(* Types of the variables. *)
TypeOK ==
  /\ SchedTypeOK
  /\ phase \notin {"idle", "exited"} => cur \in Layer
  /\ curIt \in Nat
  /\ bps \in Seq(Breakpoints) /\ Len(bps) <= MaxBreakpoints
  /\ finish \in BOOLEAN
  /\ step \in {"none", "iter", "layer"}
  /\ cmd \in {"none", "goto", "iterate"}
  /\ goal \in Position

Parked(sid) == at[sid] = Here /\ halt[sid] # 0

(* Whenever the user has the prompt, every replica of the current layer is *)
(* stopped at the start of the iteration the debugger shows, but for those *)
(* that are let go at the last iteration because the design has no further *)
(* layer for them.                                                         *)
StoppedUnlessFinished ==
  AtPrompt /\ cur # NoLayer =>
    \A sid \in active :
      \/ Parked(sid)
      \/ /\ ~IsLeftmost(sid) /\ mode[sid] = "off"
         /\ curIt = NumIter(cur) /\ NextLayerFor(StampOf(sid), cur + 1) = NoLayer

(* What is reported of a replica is true: a start breakpoint is processed  *)
(* only while the core is at the start of that very iteration.             *)
ObservationsAreTrue ==
  [][\A sid \in Replica : seen'[sid] # seen[sid] => seen'[sid] = at'[sid]]_vars

(* continue_execution never runs past a breakpoint that lies ahead: not    *)
(* the one it goes to and not one that is still pending.                   *)
NoBreakpointPassed ==
  [][cmd # "none" /\ ~Before(goal, Here) =>
       \A b \in ToSet(bps) \cup (IF finish THEN {} ELSE {goal}) :
         ~Before(b, Here) => ~Before(b, Here')]_vars

(* A continue comes back to the prompt, unless the run fails. *)
ContinueReturns == cmd # "none" ~> (AtPrompt \/ phase = "fail")

(* Once the user lets the design finish, every core runs to Core_Done. *)
FinishCompletes ==
  phase = "exited" ~> \A sid \in Replica : at[sid].layer = NoLayer

-----------------------------------------------------------------------------
(* The invariants that complete those of StampTracking.                    *)

(* A layer is entered at its first iteration; no step is in progress       *)
(* before its cores run, and then it is known how far it goes.             *)
StepTarget ==
  /\ cur # NoLayer => curIt \in 1 .. NumIter(cur)
  /\ phase \in {"layer", "armed", "poll", "verify", "ready"} => curIt = 1
  /\ phase \notin {"threads", "ran", "fail"} => step = "none"
  /\ phase \in {"threads", "ran"} =>
       \/ step = "iter" /\ target = curIt + 1 /\ curIt < NumIter(cur)
       \/ step = "layer" /\ target = NumIter(cur)

(* What was observed, phase by phase and at the prompt. *)
SeenTracking ==
  \A sid \in Replica :
    /\ ReplicaSeen(sid)
    /\ phase = "idle" =>
         IF cur # NoLayer /\ sid \in active THEN SeenAt(sid, curIt) ELSE Through(sid, cur)

(* The pending breakpoints are in execution order and follow the goal, and *)
(* every step the loops of continue_execution take is short of the goal.   *)
BreakpointTracking ==
  /\ \A i, j \in DOMAIN bps : i < j => ~Before(bps[j], bps[i])
  /\ cmd # "none" /\ ~finish =>
       goal \in Breakpoints /\ \A i \in DOMAIN bps : ~Before(bps[i], goal)
  /\ cmd = "goto" =>
       /\ step # "iter"
       /\ step = "layer" /\ ~finish => cur < goal.layer
       /\ finish => bps = <<>>
  /\ cmd = "iterate" =>
       /\ cur >= goal.layer /\ goal \in Breakpoints
       /\ step = "iter" => curIt < goal.it /\ ~finish
       /\ step = "layer" => cur > goal.layer
       /\ finish => cur = NoLayer \/ (cur = NumLayers - 1 /\ curIt = NumIter(cur))

(* Where the cores are, phase by phase and at the prompt. *)
Tracking ==
  /\ Tracked
  /\ phase \notin {"exited", "fail"} /\ cur # NoLayer =>
       /\ CoreTracking
       /\ phase = "idle" => \A sid \in active : SteppedTo(sid, curIt)
=============================================================================
