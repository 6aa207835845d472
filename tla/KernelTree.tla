------------------------------ MODULE KernelTree ----------------------------
(***************************************************************************)
(* What the prompt shows of the inside of a kernel: the functions under a  *)
(* templated graph's kernel (extra/kernel_info.py, info()) and the call    *)
(* trees of an ELF (extra/calltree.py, calltree()).                        *)
(*                                                                         *)
(* A tree is the list of its nodes in pre-order, each with its depth.  A   *)
(* node that is cut has been expanded already and is not expanded again.   *)
(* Symbols are assumed to be distinct within an ELF.                       *)
(***************************************************************************)
EXTENDS LayerInfo

CONSTANT Superkernels  \* plain names that contain "superkernel"

VARIABLE shown  \* what the prompt printed last

treeVars == <<design, stage, sid, layers, elfs, shown>>

NothingShown == [of |-> "nothing", layer |-> 0, trees |-> <<>>]

Node(f, depth, cut) ==
  [start |-> f.start, name |-> f.name, depth |-> depth, cut |-> cut, end |-> 0, release |-> 0]

Source(s, id) == CHOOSE elf \in design.elfs[s + 1] : elf.id = id

Listing(s, id) == Disassemble(design.peano, Source(s, id).program, Source(s, id).from)

-----------------------------------------------------------------------------
(* AIECallTree: the functions of an LLVM listing, by entry PC.             *)

Block(lines, i) ==
  LET labels == {j \in i + 1 .. Len(lines) : lines[j].kind = "label"}
  IN  SubSeq(lines, i + 1, Min(labels \cup {Len(lines) + 1}) - 1)

Targets(block, op) ==
  LET jumps == SelectSeq(block, LAMBDA line : op \in line.ops)
  IN  [n \in DOMAIN jumps |-> jumps[n].to]

(* Of several jumps the last is taken for the tail call. *)
ListedFunctions(lines) ==
  LET labels == {i \in DOMAIN lines : lines[i].kind = "label"}
      at(pc) == CHOOSE i \in labels : lines[i].pc = pc
  IN  [pc \in {lines[i].pc : i \in labels} |->
        LET block == Block(lines, at(pc))
            jumps == Targets(block, "j")
        IN  [start |-> pc, name |-> lines[at(pc)].name, calls |-> Targets(block, "jl"),
             jump |-> IF jumps = <<>> THEN 0 ELSE Last(jumps)]]

(* Functions already shown anywhere are cut. *)
RECURSIVE CallTree_Everywhere(_, _, _, _)
CallTree_Everywhere(functions, pc, depth, path) ==
  IF pc \notin DOMAIN functions THEN <<Node([start |-> pc, name |-> NoName], depth, TRUE)>>
  ELSE LET f == functions[pc]
           next == f.calls \o (IF f.jump \in DOMAIN functions THEN <<f.jump>> ELSE <<>>)
       IN  IF pc \in path THEN <<Node(f, depth, TRUE)>>
           ELSE FoldLeft(LAMBDA nodes, to : nodes \o CallTree_Everywhere(functions, to, depth + 1,
                           path \cup {pc} \cup {nodes[i].start : i \in DOMAIN nodes}),
                         <<Node(f, depth, FALSE)>>, next)

(* _build_call_tree: only a function on the path to itself is cut.         *)
RECURSIVE CallTree(_, _, _, _)
CallTree(functions, pc, depth, path) ==
  IF pc \notin DOMAIN functions THEN <<Node([start |-> pc, name |-> NoName], depth, TRUE)>>
  ELSE LET f == functions[pc]
           next == f.calls \o (IF f.jump \in DOMAIN functions THEN <<f.jump>> ELSE <<>>)
       IN  IF pc \in path THEN <<Node(f, depth, TRUE)>>
           ELSE <<Node(f, depth, FALSE)>> \o FlattenSeq([n \in DOMAIN next |->
                  CallTree(functions, next[n], depth + 1, path \cup {pc})])

(* _get_root_addresses; __start and _main_init are looked for by names     *)
(* that the pattern of a label has cut short, and never found.             *)
Roots(functions) ==
  SetToSortSeq({pc \in DOMAIN functions : functions[pc].name[1] \in Superkernels}, <)

-----------------------------------------------------------------------------
(* The map file that the Chess compiler writes: an external program.       *)

MapLine(kind, addr, name) == [kind |-> kind, addr |-> addr, name |-> name]
BlankLine == MapLine("blank", 0, NoName)

(* The functions of the program that function k calls, each once, in the   *)
(* order of the calls.                                                     *)
Callees(program, k) ==
  LET f     == program[k]
      calls == {n \in DOMAIN f.calls : "jl" \in f.body[n] /\ f.calls[n] <= Len(program)}
      first == {n \in calls : \A m \in calls : f.calls[m] = f.calls[n] => n <= m}
      order == SetToSortSeq(first, <)
  IN  [i \in DOMAIN order |-> f.calls[order[i]]]

MapFunction(program, k, from) ==
  LET called == Callees(program, k)
      line(i) == MapLine(IF i = 1 THEN "called" ELSE "more", 0, program[called[i]].name)
  IN  <<MapLine("function", FirstPc(program, k, from), program[k].name), BlankLine>>
      \o [i \in DOMAIN called |-> line(i)] \o <<BlankLine>>

MapFile(program, from) ==
  <<MapLine("PM", 0, NoName)>>
  \o FlattenSeq([k \in DOMAIN program |-> MapFunction(program, k, from)])
  \o <<MapLine("item", 0, NoName), MapLine("DM", 0, NoName), MapLine("item", 0, NoName)>>

(* parse_map_functions, _make_function. *)
MapUnread == [section |-> "", open |-> FALSE, callees |-> FALSE, functions |-> <<>>]

AddCallee(s, name) ==
  [s EXCEPT !.callees = TRUE, !.functions[Len(s.functions)].callees = Append(@, name)]

MapRead(s, line) ==
  CASE line.kind \in {"PM", "DM"} ->
         [s EXCEPT !.section = line.kind, !.open = FALSE, !.callees = FALSE]
    [] line.kind = "called" /\ s.open -> AddCallee(s, line.name)
    [] line.kind = "function" /\ s.section = "PM" ->
         [s EXCEPT !.callees = FALSE, !.open = TRUE,
                   !.functions = Append(@, [symbol |-> line.name, start |-> line.addr,
                                            name |-> Demangle(line.name), callees |-> <<>>])]
    [] line.kind = "item" \/ (line.kind = "function" /\ s.section # "PM") ->
         [s EXCEPT !.callees = FALSE, !.open = FALSE]
    [] line.kind = "more" /\ s.callees -> AddCallee(s, line.name)
    [] OTHER -> [s EXCEPT !.callees = FALSE]

(* By symbol. *)
MapFunctions(lines) ==
  LET read == FoldLeft(MapRead, MapUnread, lines).functions
  IN  [symbol \in {read[i].symbol : i \in DOMAIN read} |->
        CHOOSE f \in Range(read) : f.symbol = symbol]

(* _functions_from_lst: by entry PC, named as the work directory has them. *)
ListingFunctions(lines, known) ==
  LET listed == ListedFunctions(lines)
      named(pc) == {f \in Range(known) : f.start = pc}
  IN  [pc \in DOMAIN listed |->
        [symbol |-> pc, start |-> pc,
         name |-> IF named(pc) = {} THEN NoName ELSE (CHOOSE f \in named(pc) : TRUE).name,
         callees |-> FoldLeft(LAMBDA s, to : IF to \in Range(s) THEN s ELSE Append(s, to),
                              <<>>, listed[pc].calls)]]

(* A call of a function that is already in the tree is left out. *)
RECURSIVE KernelNodes_Once(_, _, _, _)
KernelNodes_Once(functions, nodes, symbol, depth) ==
  LET f == functions[symbol]
      inside == SelectSeq(f.callees, LAMBDA c : c \in DOMAIN functions)
      visit(seen, c) ==
        IF \E i \in DOMAIN seen : seen[i].start = functions[c].start THEN seen
        ELSE KernelNodes_Once(functions, seen, c, depth + 1)
  IN  FoldLeft(visit, Append(nodes, Node(f, depth, FALSE)), inside)

(* _build_tree, visit: a function is expanded where it is met first.       *)
RECURSIVE KernelNodes(_, _, _, _)
KernelNodes(functions, nodes, symbol, depth) ==
  LET f == functions[symbol]
      inside == SelectSeq(f.callees, LAMBDA c : c \in DOMAIN functions)
      repeated == \E i \in DOMAIN nodes : nodes[i].start = f.start
  IN  IF repeated THEN Append(nodes, Node(f, depth, TRUE))
      ELSE FoldLeft(LAMBDA seen, c : KernelNodes(functions, seen, c, depth + 1),
                    Append(nodes, Node(f, depth, FALSE)), inside)

(* _attach_pcs. *)
AttachPcs(nodes, known) ==
  [i \in DOMAIN nodes |->
    LET same == {f \in Range(known) : f.start = nodes[i].start}
    IN  IF same = {} THEN nodes[i]
        ELSE LET f == CHOOSE f \in same : TRUE
             IN  [nodes[i] EXCEPT !.end = f.end, !.release = f.release]]

(* build_kernel_info and build_kernel_info_from_lst, for _stamp_kernel_info: *)
(* no tree without the ELF, without a PC, or without a function there.     *)
StampTree(s, stamp) ==
  LET found == {k \in DOMAIN elfs[s + 1] : elfs[s + 1][k].id = stamp.elf}
      known == elfs[s + 1][Min(found)].functions
      functions == IF design.peano THEN ListingFunctions(Listing(s, stamp.elf), known)
                   ELSE MapFunctions(MapFile(Source(s, stamp.elf).program, Source(s, stamp.elf).from))
      root == {symbol \in DOMAIN functions : functions[symbol].start = stamp.start_pc}
  IN  IF found = {} \/ stamp.start_pc = 0 THEN <<>>
      ELSE IF root = {} THEN <<>>
      ELSE <<[stamp |-> s, elf |-> stamp.elf,
              nodes |-> AttachPcs(KernelNodes(functions, <<>>, CHOOSE r \in root : TRUE, 0), known)]>>

-----------------------------------------------------------------------------
TreeInit == Init /\ shown = NothingShown

Prepare == Next /\ UNCHANGED shown

Show(of, layer, trees) ==
  /\ trees # <<>>
  /\ shown' = [of |-> of, layer |-> layer, trees |-> trees]
  /\ UNCHANGED vars

(* info() at a layer: print_kernel_functions, get_kernel_info. *)
ShowKernels ==
  /\ Ready
  /\ \E i \in DOMAIN layers :
       /\ layers[i].is_tg
       /\ Show("kernels", i, FlattenSeq([n \in DOMAIN layers[i].stamps |->
                                         StampTree(n - 1, layers[i].stamps[n])]))

(* calltree(sid): print_calltree; a Chess listing has no labels it knows. *)
CallTreesOf(s, id) ==
  LET functions == ListedFunctions(Listing(s, id))
      roots     == Roots(functions)
  IN  [n \in DOMAIN roots |->
        [stamp |-> s, elf |-> id, nodes |-> CallTree(functions, roots[n], 0, {})]]

ShowCallTrees ==
  /\ Ready /\ design.peano
  /\ \E s \in 0 .. StampCount - 1 :
       Show("calls", 0, FlattenSeq([e \in DOMAIN elfs[s + 1] |->
                                     CallTreesOf(s, elfs[s + 1][e].id)]))

TreeNext == Prepare \/ ShowKernels \/ ShowCallTrees

TreeSpec == TreeInit /\ [][TreeNext]_treeVars

-----------------------------------------------------------------------------
Children(nodes, p) ==
  LET under == {q \in p + 1 .. Len(nodes) :
                  \A r \in p + 1 .. q : nodes[r].depth > nodes[p].depth}
  IN  SetToSortSeq({q \in under : nodes[q].depth = nodes[p].depth + 1}, <)

ChildFunctions(tree, p) ==
  LET kids == Children(tree.nodes, p) IN [n \in DOMAIN kids |-> tree.nodes[kids[n]].start]

(* The function of the program that a node is about. *)
FunctionOf(tree, p) ==
  LET elf == Source(tree.stamp, tree.elf)
  IN  CHOOSE k \in DOMAIN elf.program : FirstPc(elf.program, k, elf.from) = tree.nodes[p].start

Reached(program, k) ==
  LET step[n \in 0 .. Len(program)] ==
        IF n = 0 THEN {k}
        ELSE step[n - 1] \cup UNION {Range(Callees(program, m)) : m \in step[n - 1]}
  IN  step[Len(program)]

(* The tree of a layer's kernel starts at the function that the stamp runs *)
(* for this layer, holds every function that can be reached by calls and   *)
(* no other, and shows below each, the first time it appears, the          *)
(* functions it calls in the order of the calls, and nothing below it      *)
(* again; the PCs shown with a function are inside it.  It holds for any   *)
(* recursion, although one compiler's calls come from a map file and the   *)
(* other's from the listing.                                               *)
KernelTreeTrue ==
  shown.of = "kernels" => \A t \in DOMAIN shown.trees :
    LET tree    == shown.trees[t]
        order   == layers[shown.layer].order
        elf     == Source(tree.stamp, tree.elf)
        program == elf.program
        first(k) == {p \in DOMAIN tree.nodes : ~tree.nodes[p].cut /\ FunctionOf(tree, p) = k}
    IN  /\ tree.elf = design.runs[order][tree.stamp]
        /\ program[FunctionOf(tree, 1)].name = design.kernels[order]
        /\ {FunctionOf(tree, p) : p \in DOMAIN tree.nodes} = Reached(program, FunctionOf(tree, 1))
        /\ \A p \in DOMAIN tree.nodes :
             LET k == FunctionOf(tree, p)
                 node == tree.nodes[p]
                 callees == Callees(program, k)
                 inside == FirstPc(program, k, elf.from) .. FirstPc(program, k + 1, elf.from) - 1
             IN  /\ Cardinality(first(k)) = 1 /\ \A q \in first(k) : q <= p
                 /\ ChildFunctions(tree, p) =
                      IF node.cut THEN <<>>
                      ELSE [n \in DOMAIN callees |-> FirstPc(program, callees[n], elf.from)]
                 /\ node.name # NoName => node.name[1] = program[k].name[1]
                 /\ {node.end, node.release} \subseteq inside \cup {0}

(* The call tree of a superkernel shows every call of every function on    *)
(* it, in order and as often as it is made, and last the function that it  *)
(* jumps to; it stops exactly where a function has called itself, or at a  *)
(* function that is not in the ELF.                                        *)
CallTreeTrue ==
  shown.of = "calls" => \A t \in DOMAIN shown.trees :
    LET tree    == shown.trees[t]
        elf     == Source(tree.stamp, tree.elf)
        program == elf.program
        entry(k) == FirstPc(program, k, elf.from)
        above(p) == {q \in 1 .. p - 1 : \A r \in q + 1 .. p : tree.nodes[r].depth > tree.nodes[q].depth}
        with(k, op) == SetToSortSeq({n \in DOMAIN program[k].body : op \in program[k].body[n]}, <)
    IN  \A p \in DOMAIN tree.nodes :
          LET node == tree.nodes[p]
              known == \E k \in DOMAIN program : entry(k) = node.start
              k == FunctionOf(tree, p)
              calls == with(k, "jl") \o with(k, "j")
              to(n) == program[k].calls[calls[n]]
              shownCalls == SelectSeq([n \in DOMAIN calls |-> n],
                              LAMBDA n : n <= Len(with(k, "jl")) \/ to(n) <= Len(program))
          IN  /\ node.cut <=> ~known \/ \E q \in above(p) : tree.nodes[q].start = node.start
              /\ ChildFunctions(tree, p) =
                   IF node.cut THEN <<>>
                   ELSE [n \in DOMAIN shownCalls |-> entry(to(shownCalls[n]))]
=============================================================================
