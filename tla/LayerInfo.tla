------------------------------ MODULE LayerInfo -----------------------------
(***************************************************************************)
(* LayerInfo: how the debugger prepares the execution list it steps        *)
(* through from the layers of buffer_info, the mladf report and the work   *)
(* directory of the AIE compiler.                                          *)
(*                                                                         *)
(* A design also tells what really happens on the device: runs gives the   *)
(* ELF each stamp executes a layer from, "" if it sits the layer out.      *)
(***************************************************************************)
EXTENDS Disassembly, MladfReport

CONSTANTS
  Designs,      \* the designs that are looked at
  Unsupported,  \* plain names of the unsupported superkernels
  SkipEndPc     \* names of the kernels whose end PC is not used

VARIABLES
  design,       \* the input
  stage,        \* how far __init__ is
  sid,          \* stamp whose ELFs are read, or whose PCs are resolved
  layers,       \* self.layers
  elfs          \* per stamp, its parsed ELFs in the order they were found

vars == <<design, stage, sid, layers, elfs>>

(* _read_buffer_info: stamps per batch, from the metadata or from the      *)
(* widest layer.  The stamps of a group are used as one.                   *)
Widest(d) == Max({Max({1, info.no_of_stamps}) : info \in Range(d.raw)})

LayoutStamps(d) ==
  (IF d.max_stamps # 0 THEN d.max_stamps ELSE Max({1, Widest(d) \div d.batches}))
    \div d.group_size

(* Overlay: without multistamp only the first replica is debugged. *)
BatchCount == IF design.multistamp THEN design.batches ELSE 1
StampCountOf(d) == IF d.multistamp THEN LayoutStamps(d) ELSE 1
StampCount == StampCountOf(design)

-----------------------------------------------------------------------------
(* What is taken for granted of the input: what its parts say of the same  *)
(* layer agrees with what happens on the device, given by kernels, ran,    *)
(* runs and iterations, as far as the code has nothing else to go by.      *)

Running(d, o) == {s \in 0 .. StampCountOf(d) - 1 : d.runs[o][s] # ""}

Own(d, o) == {k \in DOMAIN d.report : d.report[k].id \in d.ran[o]}

(* buffer_info lists the layers by layer_order. *)
ASSUME MetadataAssumption ==
  \A d \in Designs :
    /\ d.raw \in Seq(Range(d.raw))
    /\ \A i \in DOMAIN d.raw :
         /\ {d.raw[i].order, d.raw[i].no_of_stamps, d.raw[i].num_iter} \subseteq Nat
         /\ \A j \in DOMAIN d.raw : i < j => d.raw[i].order < d.raw[j].order
    /\ DOMAIN d.ran = {info.order : info \in Range(d.raw)}
    /\ d.batches \in Nat \ {0} /\ StampCountOf(d) \in Nat \ {0} /\ d.peano \in BOOLEAN

(* Stamps are used from the first on; where their number is wrong in       *)
(* buffer_info the report describes all of them.                           *)
ASSUME StampAssumption ==
  \A d \in Designs : \A info \in Range(d.raw) :
    LET o == info.order
        n == Cardinality(Running(d, o))
    IN  /\ Running(d, o) = 0 .. n - 1 /\ n # 0
        /\ \/ StampCountOf(d) = 1
           \/ info.no_of_stamps = n * d.batches
           \/ d.reported /\ \A s \in 0 .. StampCountOf(d) - 1 :
                              \E k \in Own(d, o) : d.report[k].core[s].present
        /\ d.kernels[o] # NoKernel
        /\ ~info.is_tg => /\ info.kernel = d.kernels[o]
                          /\ d.iterations[o] = Max({1, info.num_iter})

(* Graph names that overlap are those of a templated graph that is in the  *)
(* report itself.                                                          *)
ASSUME ReportAssumption ==
  \A d \in Designs : d.reported =>
    /\ d.report \in Seq(Range(d.report))
    /\ \A k \in DOMAIN d.report : d.report[k].id \in Nat
    /\ \A info \in Range(d.raw) :
         LET o == info.order
         IN  /\ {d.report[k].id : k \in Own(d, o)} = d.ran[o]
             /\ Exactly(d.report, info) \in {{}, Own(d, o)}
             /\ Exactly(d.report, info) = {} => Loosely(d.report, info) = Own(d, o)
             /\ \A k \in Own(d, o), s \in 0 .. StampCountOf(d) - 1 :
                  LET core == d.report[k].core[s]
                  IN  \/ core = NoCore
                      \/ /\ core.present
                         /\ core.kernel = IF s \in Running(d, o) THEN d.kernels[o] ELSE NoKernel
                         /\ core.elf = IF s \in Running(d, o) THEN d.runs[o][s] ELSE NoElf
             /\ info.is_tg /\ Own(d, o) # {} =>
                  /\ d.iterations[o] = Repetitions(d.report, Own(d, o))
                  /\ d.iterations[o] \in Nat \ {0}

(* A kernel is in the ELF it runs from, and the scan of LLVM listings      *)
(* finds its end; of several ELFs those with one of its compiler layers    *)
(* are the one it runs from.                                               *)
ASSUME ElfAssumption ==
  \A d \in Designs : \A s \in 1 .. StampCountOf(d) :
    /\ IsFiniteSet(d.elfs[s])
    /\ \A elf \in d.elfs[s] :
         /\ elf.id # NoElf /\ \A other \in d.elfs[s] : other.id = elf.id => other = elf
         /\ IsProgram(elf.program) /\ elf.from \in Nat /\ elf.base \in BOOLEAN
         /\ elf.base => MainReturns(elf.program)
    /\ \A info \in Range(d.raw) :
         LET o == info.order
         IN  s - 1 \in Running(d, o) /\ d.kernels[o][1] \notin Unsupported =>
               /\ \E elf \in d.elfs[s] : \E k \in DOMAIN elf.program :
                    /\ elf.id = d.runs[o][s - 1] /\ elf.program[k].name = d.kernels[o]
                    /\ ~(d.peano /\ Endless(elf.program, k))
               /\ Cardinality(d.elfs[s]) > 1 => \A elf \in d.elfs[s] :
                    elf.layers \cap info.flexml_ids # {} => elf.id = d.runs[o][s - 1]

Init ==
  /\ design \in Designs
  /\ stage = "layers" /\ sid = 0
  /\ layers = <<>> /\ elfs = <<>>

-----------------------------------------------------------------------------
(* Layer.__init__. *)

(* Replicas of all batches. *)
StampsOf_AllBatches(info) ==
  LET n == info.no_of_stamps
  IN  IF n # 0 /\ n < StampCount THEN n ELSE StampCount

(* buffer_info counts the replicas of all batches; the report, when it     *)
(* describes every stamp, knows better.                                    *)
StampsOf(info) ==
  LET counted == info.no_of_stamps
      perBatch == IF counted # 0 /\ design.batches > 1
                    THEN Max({1, counted \div design.batches}) ELSE counted
      reported == IF design.reported /\ StampCount > 1
                    THEN RunningStampCount(design.report, info, StampCount) ELSE 0
      n == IF reported # 0 THEN reported ELSE perBatch
  IN  IF n # 0 /\ n < StampCount THEN n ELSE StampCount

NewStamp(name, elf) == [name |-> name, elf |-> elf, start_pc |-> 0, end_pc |-> 0]

(* A templated graph takes its kernels and ELFs from the report. *)
LayerStamps(info) ==
  [n \in 1 .. StampsOf(info) |->
     IF info.is_tg THEN NewStamp(SkName(design.report, info, n - 1), ElfId(design.report, info, n - 1))
     ELSE NewStamp(info.kernel, "")]

IsUnsupported(info) ==
  \/ info.is_tg /\ ~design.reported
  \/ info.concat \/ info.kernel = NoKernel \/ info.kernel[1] \in Unsupported
  \/ info.is_tg /\ \E n \in 1 .. StampsOf(info) :
       LET stamp == LayerStamps(info)[n]
       IN  stamp.name = NoKernel \/ stamp.elf = NoElf \/ stamp.name[1] \in Unsupported

(* The count as buffer_info has it. *)
InfoIterations_AsIs(info) == info.num_iter

(* _initialize_iters. *)
InfoIterations(info) == IF info.num_iter = 0 THEN 1 ELSE info.num_iter

NewLayer(info) ==
  LET bad == IsUnsupported(info)
  IN  [order       |-> info.order,
       ids         |-> IF design.reported THEN LayerIds(design.report, info) ELSE {},
       is_tg       |-> info.is_tg,
       unsupported |-> bad \/ info.order \in design.skip_layers,
       stamps      |-> IF bad THEN <<>> ELSE LayerStamps(info),
       num_iter    |-> IF info.is_tg /\ ~bad THEN Iters(design.report, info)
                       ELSE InfoIterations(info),
       flexml_ids  |-> info.flexml_ids,
       l3_names    |-> IF bad THEN {} ELSE info.l3_names,
       l3_buffers  |-> {}]

-----------------------------------------------------------------------------
(* _init_layers, with _reorder_layers_by_execution. *)

(* By the first id. *)
ExecOrder_First(list) ==
  LET key[i \in 0 .. Len(list)] ==
        IF i = 0 THEN -1
        ELSE IF list[i].ids = {} THEN key[i - 1] ELSE Min(list[i].ids)
  IN  key

(* A layer is placed where it ends; one the report does not know stays     *)
(* with the layer before it.                                               *)
ExecOrder(list) ==
  LET key[i \in 0 .. Len(list)] ==
        IF i = 0 THEN -1
        ELSE IF list[i].ids = {} THEN key[i - 1] ELSE Max(list[i].ids)
  IN  key

(* The members of a finite set, each after those that come before it.      *)
InOrder(S, before) ==
  [n \in 1 .. Cardinality(S) |->
     CHOOSE i \in S : Cardinality({j \in S : <<j, i>> \in before}) = n - 1]

Reordered(list) ==
  LET key == ExecOrder(list)
      before == {p \in (DOMAIN list) \X (DOMAIN list) :
                   key[p[1]] < key[p[2]] \/ (key[p[1]] = key[p[2]] /\ p[1] < p[2])}
      order == InOrder(DOMAIN list, before)
      known(layer) ==
        IF layer.ids = {} /\ layer.is_tg THEN [layer EXCEPT !.unsupported = TRUE] ELSE layer
  IN  [i \in DOMAIN list |-> known(list[order[i]])]

InitLayers ==
  /\ stage = "layers"
  /\ LET list == [i \in DOMAIN design.raw |-> NewLayer(design.raw[i])]
     IN  layers' = IF design.reported THEN Reordered(list) ELSE list
  /\ stage' = "workdir"
  /\ UNCHANGED <<design, sid, elfs>>

-----------------------------------------------------------------------------
(* WorkDir, one stamp after the other. *)

PmReloadEn(s) == Len(elfs[s + 1]) > 1

ParsedElf(elf) ==
  LET read == Parse(design.peano, Disassemble(design.peano, elf.program, elf.from), elf.base)
  IN  [id |-> elf.id, layers |-> elf.layers, functions |-> read.done, acquire |-> read.acquire]

(* The file system lists the ELFs in any order. *)
ParseElfs ==
  /\ stage = "workdir"
  /\ \E found \in SetToSeqs(design.elfs[sid + 1]) :
       elfs' = Append(elfs, [i \in DOMAIN found |-> ParsedElf(found[i])])
  /\ IF sid + 1 < StampCount THEN sid' = sid + 1 /\ UNCHANGED stage
     ELSE sid' = 0 /\ stage' = "l3"
  /\ UNCHANGED <<design, layers>>

-----------------------------------------------------------------------------
(* initialize_l3_layer_mapping: buffers that are not among the spills of   *)
(* the runtime are dropped.                                                *)

Copies(name) == {name} \X (0 .. BatchCount - 1)

MapL3Buffers ==
  /\ stage = "l3"
  /\ layers' = [i \in DOMAIN layers |->
       [layers[i] EXCEPT !.l3_buffers =
          (UNION {Copies(name) : name \in layers[i].l3_names}) \cap design.spills]]
  /\ stage' = "trim"
  /\ UNCHANGED <<design, sid, elfs>>

(* Without a layer that is left there is nothing to resolve. *)
TrimLayers ==
  /\ stage = "trim"
  /\ LET kept == {i \in DOMAIN layers : ~layers[i].unsupported}
         order == InOrder(kept, {p \in kept \X kept : p[1] < p[2]})
     IN  layers' = [n \in DOMAIN order |-> layers[order[n]]]
  /\ stage' = IF layers' = <<>> THEN "ready" ELSE "resolve"
  /\ UNCHANGED <<design, sid, elfs>>

-----------------------------------------------------------------------------
(* The PCs of the kernels of one stamp. *)

Instances(elf, name) ==
  {k \in DOMAIN elf.functions : elf.functions[k].name[1] = name[1]}

(* The name alone decides. *)
ElfOfLayer_ByName(layer, s, name) ==
  {k \in DOMAIN elfs[s + 1] : Instances(elfs[s + 1][k], name) # {}}

(* With reloads the ELF must also hold a layer of the AIE compiler that    *)
(* belongs to this layer.                                                  *)
ElfOfLayer(layer, s, name) ==
  {k \in DOMAIN elfs[s + 1] :
     /\ Instances(elfs[s + 1][k], name) # {}
     /\ PmReloadEn(s) => elfs[s + 1][k].layers \cap layer.flexml_ids # {}}

Info(layer) == CHOOSE info \in Range(design.raw) : info.order = layer.order

(* The first ELF that fits, or the one the report names. *)
ElfIndex(layer, s, stamp) ==
  LET named(id) == {k \in DOMAIN elfs[s + 1] : elfs[s + 1][k].id = id}
      fits == ElfOfLayer(layer, s, stamp.name)
  IN  IF layer.is_tg THEN named(stamp.elf)
      ELSE IF fits # {} THEN {Min(fits)}
      ELSE IF PmReloadEn(s) /\ design.reported
        THEN named(ElfId(design.report, Info(layer), s)) ELSE {}

(* Any instantiation. *)
PickInstantiation_Any(elf, name) ==
  LET found == Instances(elf, name) IN IF found = {} THEN {} ELSE {Min(found)}

(* _pick_instantiation: a lone function, or the one whose template         *)
(* arguments agree.                                                        *)
PickInstantiation(elf, name) ==
  LET found == Instances(elf, name)
      same  == {k \in found : elf.functions[k].name = name}
  IN  IF Cardinality(found) = 1 THEN found
      ELSE IF Cardinality(same) = 1 THEN same ELSE {}

Resolved(layer, s) ==
  LET stamp == layer.stamps[s + 1]
      index == ElfIndex(layer, s, stamp)
      elf   == elfs[s + 1][Min(index)]
      found == IF index = {} THEN {} ELSE PickInstantiation(elf, stamp.name)
      f     == elf.functions[Min(found)]
      end   == IF f.name \in SkipEndPc THEN stamp.end_pc ELSE f.release
  IN  IF found = {} THEN layer
      ELSE [layer EXCEPT !.stamps[s + 1] =
              [stamp EXCEPT !.elf = elf.id, !.start_pc = f.start, !.end_pc = end]]

ResolvePcs ==
  /\ stage = "resolve"
  /\ layers' = [i \in DOMAIN layers |->
       IF sid < Len(layers[i].stamps) THEN Resolved(layers[i], sid) ELSE layers[i]]
  /\ IF sid + 1 < StampCount THEN sid' = sid + 1 /\ UNCHANGED stage
     ELSE sid' = 0 /\ stage' = IF design.skip_iter THEN "skip" ELSE "ready"
  /\ UNCHANGED <<design, elfs>>

-----------------------------------------------------------------------------
(* The skip_iter rule. *)

(* Whatever the ELF. *)
SkipsSteps_AnyElf(i) ==
  \/ i = Len(layers)
  \/ layers[i].stamps[1].name # layers[i + 1].stamps[1].name

SkipsSteps(i) ==
  \/ i = Len(layers)
  \/ LET a == layers[i].stamps
         b == layers[i + 1].stamps
     IN  /\ a[1].name # b[1].name
         /\ IF design.multistamp
              THEN Len(a) = Len(b) /\ \A s \in DOMAIN a : a[s].elf = b[s].elf
              ELSE a[1].elf = b[1].elf

SkipIterations ==
  /\ stage = "skip"
  /\ layers' = [i \in DOMAIN layers |->
       IF SkipsSteps(i) THEN [layers[i] EXCEPT !.num_iter = 1] ELSE layers[i]]
  /\ stage' = "ready"
  /\ UNCHANGED <<design, sid, elfs>>

Next ==
  \/ InitLayers \/ ParseElfs \/ MapL3Buffers \/ TrimLayers \/ ResolvePcs
  \/ SkipIterations

Spec == Init /\ [][Next]_vars

-----------------------------------------------------------------------------
Ready == stage = "ready"

(* Every variable keeps its type; a stage is reached with the ELFs of all  *)
(* stamps that are debugged and with as many stamps as a layer may have.   *)
TypeOK ==
  /\ stage \in {"layers", "workdir", "l3", "trim", "resolve", "skip", "ready"}
  /\ sid \in 0 .. StampCount - 1
  /\ Len(elfs) = (CASE stage = "layers" -> 0 [] stage = "workdir" -> sid [] OTHER -> StampCount)
  /\ \A i \in DOMAIN layers :
       /\ Len(layers[i].stamps) \in 0 .. StampCount
       /\ ~layers[i].unsupported => layers[i].stamps # <<>> /\ layers[i].num_iter \in Nat \ {0}
       /\ layers[i].l3_buffers \subseteq design.spills

(* Where a layer of buffer_info ends: at the last of its compiler layers;  *)
(* one without any, where the last one with some before it ends.           *)
Anchor(d, o) ==
  LET known  == {x \in DOMAIN d.ran : d.ran[x] # {}}
      before == {x \in known : x < o}
  IN  IF o \in known THEN Max(d.ran[o])
      ELSE IF before = {} THEN -1 ELSE Max(d.ran[Max(before)])

(* Execution order: the layers that are stepped through are listed in the  *)
(* order in which their last compiler layer really runs, whatever order    *)
(* buffer_info has them in and whatever names the report uses for them;    *)
(* one the report does not know comes right after the last layer before it *)
(* in buffer_info that the report does know.                               *)
ExecutionOrder ==
  Ready /\ design.reported => \A i, j \in DOMAIN layers : i < j =>
    LET a == layers[i].order
        b == layers[j].order
    IN  /\ Anchor(design, a) <= Anchor(design, b)
        /\ Anchor(design, a) = Anchor(design, b) => a < b

(* True PCs: a PC the debugger breaks on is the entry of the function the  *)
(* stamp runs for this very layer, in the ELF it runs it from, although    *)
(* other ELFs hold a kernel of that name and an ELF may hold several       *)
(* instantiations of it.                                                   *)
PcsAreTrue ==
  Ready => \A i \in DOMAIN layers : \A n \in DOMAIN layers[i].stamps :
    LET stamp == layers[i].stamps[n]
        home  == design.runs[layers[i].order][n - 1]
    IN  stamp.start_pc # 0 =>
          \E elf \in design.elfs[n] :
            /\ elf.id = home /\ stamp.elf = home
            /\ \E k \in DOMAIN elf.program :
                 /\ elf.program[k].name = design.kernels[layers[i].order]
                 /\ stamp.start_pc = FirstPc(elf.program, k, elf.from)

(* Running stamps: a layer has the stamps that really take part in it, no  *)
(* more - a breakpoint on another would never be reached - and no fewer,   *)
(* although buffer_info counts those of all batches.                       *)
StampCountTrue ==
  Ready => \A i \in DOMAIN layers :
    Len(layers[i].stamps) = Cardinality(Running(design, layers[i].order))

(* Skipped iterations: stepping is given up for a layer of several         *)
(* iterations only where the start of the next layer cannot be mistaken    *)
(* for the start of one of these, in an ELF that is already loaded.        *)
SkipIsSafe ==
  Ready => \A i \in 1 .. Len(layers) - 1 :
    LET a == layers[i].stamps[1]
        b == layers[i + 1].stamps[1]
    IN  (layers[i].num_iter < design.iterations[layers[i].order] /\ a.start_pc # 0 /\ b.start_pc # 0)
          => a.start_pc # b.start_pc
             /\ design.runs[layers[i].order][0] = design.runs[layers[i + 1].order][0]

(* Recovered functions: what the scan of each disassembly makes of an ELF  *)
(* is true to the functions the ELF has.                                   *)
FunctionsRecovered ==
  \A s \in DOMAIN elfs : \A e \in DOMAIN elfs[s] :
    LET elf == CHOOSE x \in design.elfs[s] : x.id = elfs[s][e].id
    IN  TrueTo(design.peano, elf.base, elf.program, elf.from,
               [done |-> elfs[s][e].functions, acquire |-> elfs[s][e].acquire])
=============================================================================
