------------------------------ MODULE Schedule ------------------------------
(***************************************************************************)
(* The design a debugging session works on: the replicas of the overlay    *)
(* and the execution list of layers, as LayerInfo and Overlay hand them to *)
(* the controller.                                                         *)
(*                                                                         *)
(* A replica is one stamp of one batch.  All batches run the same program, *)
(* so what a replica executes depends on its stamp alone.                  *)
(***************************************************************************)
EXTENDS Integers, FiniteSets

CONSTANTS
  Batches,         \* B of the overlay BxSxCxR
  StampsPerBatch,  \* S of the overlay
  NumLayers,       \* length of the execution list
  StampCount,      \* layer -> how many stamps take part in it
  Iterations,      \* layer -> iterations the hardware executes
  Kernel,          \* layer -> stamp -> name of its superkernel
  Elf,             \* layer -> stamp -> ELF the superkernel lives in
  StartPc,         \* layer -> stamp -> entry PC; 0 when it was not resolved
  PmReloadEn,      \* stamp -> it has reloadable ELFs
  SkipMode         \* "none", "skip_iter" or "skip_iter2"

Layer    == 0 .. NumLayers - 1
NoLayer  == NumLayers           \* get_next_layer_for_stamp returned None
Stamp    == 0 .. StampsPerBatch - 1
Replica  == 0 .. Batches * StampsPerBatch - 1

ASSUME ScheduleAssumption ==
  /\ Batches \in Nat \ {0}
  /\ StampsPerBatch \in Nat \ {0}
  /\ NumLayers \in Nat \ {0}
  /\ StampCount \in [Layer -> 1 .. StampsPerBatch]
  /\ Iterations \in [Layer -> Nat \ {0}]
  /\ \A l \in Layer, s \in Stamp : StartPc[l][s] \in Nat
  /\ PmReloadEn \in [Stamp -> BOOLEAN]
  /\ SkipMode \in {"none", "skip_iter", "skip_iter2"}

-----------------------------------------------------------------------------
(* Replica ids are batch * S + stamp (Overlay, DebugState). *)

StampOf(sid)        == sid % StampsPerBatch
BatchOf(sid)        == sid \div StampsPerBatch
IsLeftmost(sid)     == StampOf(sid) = 0
RunsReplica(l, sid) == StampOf(sid) < StampCount[l]
StartPcOf(l, sid)   == StartPc[l][StampOf(sid)]
ElfOf(l, sid)       == Elf[l][StampOf(sid)]

(* i is the first layer at or after `from' that stamp s takes part in. *)
IsFirstLayer(s, from, i) ==
  /\ i \in Layer /\ i >= from
  /\ s < StampCount[i]
  /\ \A j \in from .. i - 1 : s >= StampCount[j]

NextLayerFor(s, from) ==
  IF \E i \in Layer : IsFirstLayer(s, from, i)
    THEN CHOOSE i \in Layer : IsFirstLayer(s, from, i)
    ELSE NoLayer

(* Under skip_iter the iterations of layer l are not stepped at all when   *)
(* the next layer is seen to start at another kernel of the same ELFs.     *)
NeedsNoStepping(l) ==
  \/ l = NumLayers - 1
  \/ /\ Kernel[l][0] # Kernel[l + 1][0]
     /\ StampCount[l] = StampCount[l + 1]
     /\ \A s \in 0 .. StampCount[l] - 1 : Elf[l][s] = Elf[l + 1][s]

(* lcp.num_iter: the iterations the debugger steps through. *)
NumIter(l) ==
  IF SkipMode = "skip_iter" /\ NeedsNoStepping(l) THEN 1 ELSE Iterations[l]
=============================================================================
