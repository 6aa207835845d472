--------------------------- MODULE MCMemoryDumper ---------------------------
(***************************************************************************)
(* The two batches of MCBatchRunner with buffers: an input in two regions, *)
(* one of them across a column border, weights without an L1 copy, an      *)
(* output; layer 1 has four iterations and two transfers, layer 2 is a     *)
(* templated graph with an entry for every replica.                        *)
(***************************************************************************)
EXTENDS MCBatchRunner, MemoryDumper

DumpTransfers == 0 :> 1 @@ 1 :> 2 @@ 2 :> 1 @@ 3 :> 1
DumpDepth     == 0 :> 1 @@ 1 :> 2 @@ 2 :> 1 @@ 3 :> 2

Region(col, addr, size) == [col |-> col, addr |-> addr, size |-> size]
Ifm == [type |-> "ifm", tg |-> FALSE, l1 |-> TRUE, l2 |-> <<Region(0, 1, 1), Region(0, 1, 3)>>]
Wts == [type |-> "wts", tg |-> FALSE, l1 |-> FALSE, l2 |-> <<Region(1, 0, 2)>>]
Ofm == [type |-> "ofm", tg |-> FALSE, l1 |-> TRUE, l2 |-> <<Region(0, 0, 4)>>]

Tg  == [type |-> "ifm", tg |-> TRUE, l1 |-> FALSE,
        l2 |-> [id \in 1 .. 4 |-> Region(2 * (id - 1), 0, 3)]]

DumpIn  == [l \in 0 .. 3 |-> {IF l = 2 THEN Tg ELSE Ifm}]
DumpWts == [l \in 0 .. 3 |-> IF l = 0 THEN {Wts} ELSE {}]
DumpOut == [l \in 0 .. 3 |-> IF l = 2 THEN {} ELSE {Ofm}]
=============================================================================
