----------------------------- MODULE MladfReport ----------------------------
(***************************************************************************)
(* What the debugger takes from the mladf report: which layers of the AIE  *)
(* compiler make up a layer of buffer_info, in which order they execute,   *)
(* and what every stamp's core runs for them.                              *)
(*                                                                         *)
(* A report is a sequence of compiler layers in file order, each           *)
(*   [id, graphs, instance, core]                                          *)
(* with the graphs its kernel nodes are derived to belong to, the graph    *)
(* its kernel_instance names ("" if none), and for each stamp the core it  *)
(* describes, [kernel, elf, repetition], or NoCore.                        *)
(***************************************************************************)
EXTENDS Integers, Sequences, FiniteSets, FiniteSetsExt

NoKernel == <<"", "">>     \* a plain name and its template arguments
NoElf    == "-1"
NoCore   == [kernel |-> NoKernel, elf |-> NoElf, repetition |-> 0, present |-> FALSE]

(* _approach1_map.  A templated graph of one object is matched exactly;    *)
(* derived names, which may overlap, are the fallback.                     *)
Exactly(report, layer) ==
  {k \in DOMAIN report : /\ layer.is_tg /\ Cardinality(layer.objects) = 1
                         /\ report[k].instance \in layer.objects}

Loosely(report, layer) == {k \in DOMAIN report : report[k].graphs \cap layer.objects # {}}

(* Derived names only. *)
Owned_Loosely(report, layer) == Loosely(report, layer)

Owned(report, layer) ==
  IF Exactly(report, layer) # {} THEN Exactly(report, layer) ELSE Loosely(report, layer)

(* get_layer_ids_for_bilo. *)
LayerIds(report, layer) == {report[k].id : k \in Owned(report, layer)}

(* get_running_stamp_count: 0 when some stamp's core is not described. *)
RunningStampCount(report, layer, stamps) ==
  LET described(s) == \E k \in Owned(report, layer) : report[k].core[s].present
      runs(s) == \E k \in Owned(report, layer) : report[k].core[s].kernel # NoKernel
  IN  IF \A s \in 0 .. stamps - 1 : described(s)
        THEN Cardinality({s \in 0 .. stamps - 1 : runs(s)}) ELSE 0

(* get_skname_for_bilo and get_elfid_for_bilo ask the first compiler layer. *)
FirstCore(report, layer, s) ==
  IF Owned(report, layer) = {} THEN NoCore ELSE report[Min(Owned(report, layer))].core[s]

SkName(report, layer, s) == FirstCore(report, layer, s).kernel
ElfId(report, layer, s)  == FirstCore(report, layer, s).elf

(* _get_iters_for_bilo. *)
Repetitions(report, entries) ==
  MapThenSumSet(LAMBDA k : report[k].core[0].repetition, entries)

Iters(report, layer) ==
  IF Owned(report, layer) = {} THEN 1 ELSE Repetitions(report, Owned(report, layer))
=============================================================================
