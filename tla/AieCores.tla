------------------------------ MODULE AieCores ------------------------------
(***************************************************************************)
(* The AIE cores of the replicas and the debug registers the backend       *)
(* writes.  The tiles of one replica run in lock step and are one core     *)
(* here.  A core starts superkernels in the order of the schedule; `at' is *)
(* the last start it reached.  It halts when the event selected in         *)
(* DEBUG_CONTROL1 fires:                                                   *)
(*   "pc"     the PC event of slot 0,                                      *)
(*   "combo"  the PC event after a rising edge of DISABLED_CORE, that is,  *)
(*            after a program-memory reload,                               *)
(*   "count"  the performance counter, once slot 0 has been hit that often.*)
(* Slot 1 (the end PC) stays clear: only l1_ofm_dump sets it, and the      *)
(* command line never selects it together with a start-PC run.             *)
(***************************************************************************)
EXTENDS Schedule

CONSTANTS
  AliasPc,      \* <<elf, pc>>: elf runs pc as ordinary code between two starts
  PostLayerPc,  \* stamp -> PC of the lock acquire that follows a layer
  ResetPc       \* where a core is parked before it ran anything

ASSUME CoreAssumption ==
  /\ PostLayerPc \in [Stamp -> Nat \ {0}]
  /\ ResetPc \in Nat \ {0}

VARIABLES
  at,     \* replica -> last superkernel start reached; layer NoLayer: Core_Done
  halt,   \* replica -> PC it is halted at, 0 while it runs
  bp,     \* replica -> PC event 0; 0 when cleared
  mode,   \* replica -> event selected in DEBUG_CONTROL1
  edge,   \* replica -> combo state machine has seen the reload edge
  count   \* replica -> PC events left until the performance counter fires

coreVars == <<at, halt, bp, mode, edge, count>>

Start == [layer : -1 .. NumLayers, it : Nat]

CoreTypeOK ==
  /\ at \in [Replica -> Start]
  /\ halt \in [Replica -> Nat]
  /\ bp \in [Replica -> Nat]
  /\ mode \in [Replica -> {"off", "pc", "combo", "count"}]
  /\ edge \in [Replica -> BOOLEAN]
  /\ count \in [Replica -> Nat]

CoreInit ==
  /\ at    = [sid \in Replica |-> [layer |-> -1, it |-> 0]]
  /\ halt  = [sid \in Replica |-> ResetPc]
  /\ bp    = [sid \in Replica |-> 0]
  /\ mode  = [sid \in Replica |-> "pc"]    \* common_init: enable_pc_halt
  /\ edge  = [sid \in Replica |-> FALSE]
  /\ count = [sid \in Replica |-> 0]

-----------------------------------------------------------------------------
(* The program of a replica. *)

Running(sid) == halt[sid] = 0 /\ at[sid].layer # NoLayer

(* The start that follows `at' in the program of replica sid. *)
NextStart(sid) ==
  IF at[sid].layer >= 0 /\ at[sid].it < Iterations[at[sid].layer]
    THEN [layer |-> at[sid].layer, it |-> at[sid].it + 1]
    ELSE [layer |-> NextLayerFor(StampOf(sid), at[sid].layer + 1), it |-> 1]

Reloads(sid) ==
  /\ at[sid].layer >= 0
  /\ NextStart(sid).layer \in Layer
  /\ ElfOf(at[sid].layer, sid) # ElfOf(NextStart(sid).layer, sid)

(* A replica of the batch whose last layer is over keeps its locks and its *)
(* program memory until it runs out to Core_Done.                          *)
HeldBack(sid) ==
  \E r \in Replica \ {sid} :
    /\ BatchOf(r) = BatchOf(sid)
    /\ at[r].layer \in 0 .. NextStart(sid).layer - 1
    /\ NextLayerFor(StampOf(r), at[r].layer + 1) = NoLayer

(* The event selected by replica sid fires when its PC reaches slot 0. *)
Fires(sid, reloaded) ==
  \/ mode[sid] = "pc"
  \/ mode[sid] = "combo" /\ (edge[sid] \/ reloaded)
  \/ mode[sid] = "count" /\ count[sid] = 1

PcEvent(sid, pc, reloaded) ==
  /\ halt'  = [halt EXCEPT ![sid] = IF Fires(sid, reloaded) THEN pc ELSE 0]
  /\ edge'  = [edge EXCEPT ![sid] = ~Fires(sid, reloaded) /\ (@ \/ reloaded)]
  /\ count' = [count EXCEPT ![sid] =
                 IF mode[sid] = "count" /\ @ > 0 THEN @ - 1 ELSE @]
  /\ UNCHANGED <<bp, mode>>

(* After the last iteration the core acquires the lock of the next layer.  *)
(* Only a breakpoint on that instruction makes the step visible.           *)
AtPostLayer(sid) ==
  /\ at[sid].layer \in Layer
  /\ at[sid].it = Iterations[at[sid].layer]
  /\ bp[sid] = PostLayerPc[StampOf(sid)]

CorePostLayer(sid) ==
  /\ Running(sid) /\ AtPostLayer(sid)
  /\ at' = [at EXCEPT ![sid] = [layer |-> @.layer, it |-> @.it + 1]]
  /\ PcEvent(sid, bp[sid], FALSE)

(* The core reaches the start of its next superkernel, or Core_Done. *)
CoreStart(sid) ==
  /\ Running(sid) /\ ~AtPostLayer(sid)
  /\ Reloads(sid) => ~HeldBack(sid)
  /\ at' = [at EXCEPT ![sid] = NextStart(sid)]
  /\ IF /\ NextStart(sid).layer \in Layer
        /\ bp[sid] = StartPcOf(NextStart(sid).layer, sid)
        /\ bp[sid] # 0
       THEN PcEvent(sid, bp[sid], Reloads(sid))
       ELSE /\ edge' = [edge EXCEPT ![sid] = @ \/ Reloads(sid)]
            /\ UNCHANGED <<halt, bp, mode, count>>

(* On its way to the next start the core runs ordinary code of its ELF     *)
(* whose address is the one in slot 0.                                     *)
CoreAlias(sid) ==
  /\ Running(sid)
  /\ at[sid].layer \in Layer
  /\ <<ElfOf(at[sid].layer, sid), bp[sid]>> \in AliasPc
  /\ PcEvent(sid, bp[sid], FALSE)
  /\ UNCHANGED at

CoreStep(sid) == CoreStart(sid) \/ CorePostLayer(sid) \/ CoreAlias(sid)

-----------------------------------------------------------------------------
(* What the controller reads and writes, for a set of replicas.            *)

(* Distance at which a PC counts as the target, whether or not the core is *)
(* halted: a combo event is late by more cycles than a PC event.           *)
MaxPcTolerance == 32

Near(pc, target, combo) ==
  LET delay == IF combo THEN MaxPcTolerance ELSE 1
  IN  pc \in target - delay + 1 .. target + delay - 1

(* Addresses at which a core that runs may be read: the start it passed    *)
(* last, a lock acquire it waits at, ordinary code of its ELF.  No other   *)
(* address is near a breakpoint.                                           *)
RunningPc(sid) ==
  IF at[sid].layer \notin Layer THEN {}
  ELSE ({StartPcOf(at[sid].layer, sid)} \ {0})
       \cup {PostLayerPc[StampOf(sid)]}
       \cup {a[2] : a \in {b \in AliasPc : b[1] = ElfOf(at[sid].layer, sid)}}

(* pcs_match_target of a stamp, the outcomes it may have: near the target  *)
(* the halt bit is not looked at, a halted core may also be ahead of it.   *)
PcsMatchTarget(sid, target, combo) ==
  IF halt[sid] # 0
    THEN {Near(halt[sid], target, combo) \/ halt[sid] >= target}
    ELSE {FALSE} \cup {Near(pc, target, combo) : pc \in RunningPc(sid)}

ContinueAie(S) == halt' = [sid \in Replica |-> IF sid \in S THEN 0 ELSE halt[sid]]

(* clear_pc_breakpoint(0), disable_pc_halt and continue_aie on every       *)
(* replica of S.                                                           *)
Release(S) ==
  /\ bp'   = [sid \in Replica |-> IF sid \in S THEN 0 ELSE bp[sid]]
  /\ mode' = [sid \in Replica |-> IF sid \in S THEN "off" ELSE mode[sid]]
  /\ ContinueAie(S)
=============================================================================
