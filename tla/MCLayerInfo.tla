----------------------------- MODULE MCLayerInfo ----------------------------
(* Designs of three layers on at most two stamps of at most two batches.   *)
EXTENDS KernelTree

KA == <<"conv", "a">>
KB == <<"conv", "b">>
KC == <<"pool", "">>
KS == <<"superkernel", "a">>

Orders == 0 .. 2
Object(o) == <<"object", o>>

Body == <<{}, {"rel"}, {"ret"}>>
Func(name, body) == [name |-> name, tail |-> FALSE, body |-> body, calls |-> <<>>]
BaseFuncs == <<Func(Main, <<{"acq"}, {"acq"}, {}, {"ret"}>>), Func(<<"helper", "">>, <<{"ret"}>>)>>

(* The compiler emits a kernel once per ELF it is used in.                 *)
Kernels(p, e) == {p.kernels[o] : o \in {x \in Orders : p.home[x] = e}}
Programs(p, e) ==
  LET used == SelectSeq(<<KA, KB, KC>>, LAMBDA k : k \in Kernels(p, e))
  IN  [i \in DOMAIN used |-> Func(used[i], Body)]

Base(p, program) ==
  [id |-> "base", base |-> TRUE, from |-> 1, layers |-> {}, program |-> program]

(* Two reloadable ELFs overlay each other; otherwise there is one ELF.     *)
ElfsOf(p) ==
  IF p.reload
    THEN {Base(p, BaseFuncs)} \cup
         {[id |-> e, base |-> FALSE, from |-> 20, program |-> Programs(p, e),
           layers |-> {o \in Orders : p.home[o] = e}] :
            e \in {p.home[o] : o \in Orders}}
    ELSE {Base(p, BaseFuncs \o Programs(p, "base"))}

(* What buffer_info says of layer o: replicas of all batches, nothing, or, *)
(* where the report describes every stamp, the wrong number.               *)
Counted(p, o) ==
  CASE p.counted = "right" -> p.count[o] * p.batches
    [] p.counted = "wrong" -> p.stamps * p.batches
    [] OTHER -> 0

Info0(p, o) ==
  [order |-> o, objects |-> {Object(o)}, is_tg |-> o \in p.tg,
   no_of_stamps |-> Counted(p, o),
   kernel |-> IF o \in p.tg THEN <<"graph", "">> ELSE p.kernels[o],
   concat |-> FALSE, num_iter |-> o, flexml_ids |-> {o}, l3_names |-> {<<"ifm", o>>}]

(* The graph of layer 0, when it is a templated one the report knows, also *)
(* appears among the graphs derived for the other layers.                  *)
Entry(p, id) ==
  LET o == p.owner[id]
  IN  [id |-> id,
       graphs |-> IF o = 3 THEN {} ELSE {Object(o)} \cup {Object(x) : x \in p.tg \cap {0} \cap {p.owner[i] : i \in 0 .. 3}},
       instance |-> IF o \in p.tg THEN Object(o) ELSE <<>>,
       core |-> [s \in 0 .. p.stamps - 1 |->
                   IF s > 0 /\ ~p.described THEN NoCore
                   ELSE IF o = 3 \/ s >= p.count[o]
                     THEN [kernel |-> NoKernel, elf |-> NoElf, repetition |-> 1, present |-> TRUE]
                   ELSE [kernel |-> p.kernels[o], elf |-> p.home[o], repetition |-> 1,
                         present |-> TRUE]]]

Ran(p, o) == {id \in DOMAIN p.owner : p.owner[id] = o}

DesignOf(p) ==
  [raw |-> [i \in 1 .. 3 |-> Info0(p, i - 1)],
   report |-> [k \in 1 .. 4 |-> Entry(p, k - 1)], reported |-> p.reported,
   batches |-> p.batches, multistamp |-> p.multistamp,
   max_stamps |-> IF p.hint THEN p.stamps * p.group ELSE 0,
   group_size |-> IF p.hint THEN p.group ELSE 1,
   peano |-> p.peano, elfs |-> [n \in 1 .. p.stamps |-> ElfsOf(p)],
   spills |-> {<<<<"ifm", o>>, b>> : o \in {0, 2}, b \in 0 .. p.batches - 1},
   skip_iter |-> p.skip_iter, skip_layers |-> p.skip_layers,
   kernels |-> p.kernels, ran |-> [o \in Orders |-> Ran(p, o)],
   iterations |-> [o \in Orders |-> IF o \in p.tg THEN Cardinality(Ran(p, o)) ELSE Max({1, o})],
   runs |-> [o \in Orders |-> [s \in 0 .. p.stamps - 1 |->
               IF s < p.count[o] THEN p.home[o] ELSE ""]]]

Plain ==
  [kernels |-> <<KA, KB, KC>> , home |-> <<"0", "0", "1">>, reload |-> TRUE, count |-> <<1, 1, 1>>,
   stamps |-> 1, batches |-> 1, multistamp |-> TRUE, counted |-> "right", described |-> TRUE,
   hint |-> TRUE, group |-> 1,
   owner |-> [id \in 0 .. 3 |-> id % 3], tg |-> {}, reported |-> TRUE, peano |-> TRUE,
   skip_iter |-> FALSE, skip_layers |-> {}]

ByOrder(seq) == [o \in Orders |-> seq[o + 1]]
Params == [Plain EXCEPT !.kernels = ByOrder(@), !.home = ByOrder(@), !.count = ByOrder(@)]

(* Every schedule of four compiler layers, some of which may be nobody's.  *)
Scheduled ==
  {[Params EXCEPT !.owner = owner, !.tg = tg, !.skip_layers = out[1], !.kernels[1] = out[2]] :
     owner \in [0 .. 3 -> 0 .. 3], tg \in {{}, {0}, {0, 2}},
     out \in {<<{}, KB>>, <<{1}, KB>>, <<{}, <<"dma", "">>>>}}

(* Every placement of kernels in the ELFs.                                 *)
Placed ==
  {[Params EXCEPT !.kernels = kernels, !.home = home, !.reload = home[0] # "base",
                  !.peano = peano, !.reported = reported, !.skip_iter = skip] :
     kernels \in [Orders -> {KA, KB, KC}],
     home \in [Orders -> {"0", "1"}] \cup {[o \in Orders |-> "base"]},
     peano \in BOOLEAN, reported \in BOOLEAN, skip \in BOOLEAN}

(* Every number of stamps, as far as buffer_info or the report tell it.    *)
Counts ==
  {p \in {[Params EXCEPT !.stamps = 2, !.count = count, !.batches = batches,
                         !.multistamp = multi, !.counted = counted, !.described = described,
                         !.hint = hint, !.group = group,
                         !.reported = reported, !.tg = tg, !.skip_iter = skip] :
            hint \in BOOLEAN, group \in 1 .. 2,
            count \in [Orders -> 1 .. 2], batches \in 1 .. 2, multi \in BOOLEAN,
            counted \in {"right", "wrong", "none"}, described \in BOOLEAN,
            reported \in BOOLEAN, tg \in {{}, {2}}, skip \in BOOLEAN} :
     /\ p.counted = "right" \/ (p.described /\ p.reported)
     /\ p.skip_iter => p.hint /\ p.group = 1
     /\ p.hint \/ (/\ p.group = 1
                   /\ \E o \in Orders : Counted(p, o) = p.stamps * p.batches)}

(* Every body of up to three instructions before three last functions.     *)
Bodies == UNION {[1 .. n -> {{}, {"rel"}, {"ret"}, {"nobp", "rel"}}] : n \in 1 .. 3}
LastFuncs ==
  {Func(KC, <<{"rel"}, {"ret"}>>), Func(KC, <<{"rel"}, {}>>),
   [Func(KC, <<{"rel"}, {"rel", "ret"}>>) EXCEPT !.tail = TRUE],
   [Func(KC, <<{}>>) EXCEPT !.tail = TRUE]}

Coded ==
  {[DesignOf([Params EXCEPT !.peano = peano, !.home[0] = "base"]) EXCEPT
      !.elfs = <<{[Base(Params, <<[Func(KA, body) EXCEPT !.tail = tail], last>>) EXCEPT
                     !.layers = {0, 1, 2}]}>>,
      !.raw = SubSeq(@, 1, 1), !.ran = [o \in {0} |-> @[o]]] :
     peano \in BOOLEAN, body \in Bodies, tail \in BOOLEAN, last \in LastFuncs}

(* Every call graph of a kernel and two more functions, one of which may   *)
(* end with a jump to another, and may call outside of its ELF.            *)
Caller(name, calls, jump) ==
  [name |-> name, tail |-> jump # 0,
   body |-> [n \in DOMAIN calls |-> {"jl"}] \o <<{"rel"}, IF jump = 0 THEN {"ret"} ELSE {"j"}>>,
   calls |-> [n \in DOMAIN calls \cup (IF jump = 0 THEN {} ELSE {Len(calls) + 2}) |->
                IF n \in DOMAIN calls THEN calls[n] ELSE jump]]

Calls(functions, most) == UNION {[1 .. n -> functions] : n \in 0 .. most}

Called ==
  {[DesignOf([Params EXCEPT !.peano = peano, !.tg = {0}, !.home[0] = "base",
                            !.kernels[0] = KS]) EXCEPT
      !.elfs = <<{Base(Params, <<Caller(<<"helper", "">>, helper, 0),
                                 Caller(KS, kernel, jumps[1]), Caller(KC, pool, jumps[2])>>)}>>,
      !.raw = SubSeq(@, 1, 1), !.ran = [o \in {0} |-> @[o]]] :
     peano \in BOOLEAN, kernel \in Calls(1 .. 4, 2), helper \in Calls({1, 3}, 1),
     pool \in Calls(1 .. 2, 1), jumps \in {<<0, 0>>, <<3, 0>>, <<0, 1>>}}

AllDesigns ==
  {DesignOf(p) : p \in Scheduled \cup Placed \cup Counts} \cup Coded \cup Called
=============================================================================
