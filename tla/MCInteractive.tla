---------------------------- MODULE MCInteractive ---------------------------
(***************************************************************************)
(* Small designs and breakpoints for the interactive controller.           *)
(***************************************************************************)
EXTENDS InteractiveController

(* Stamp 1 has no layer after layer 1; both stamps are reloaded after 0.   *)
StepStampCount == 0 :> 2 @@ 1 :> 2 @@ 2 :> 1
StepIterations == 0 :> 2 @@ 1 :> 3 @@ 2 :> 2
StepKernel     == [l \in 0 .. 2 |-> [s \in 0 .. 1 |-> <<"conv", "pool", "add">>[l + 1]]]
StepElf        == [l \in 0 .. 2 |-> [s \in 0 .. 1 |-> IF l = 0 THEN "e0" ELSE "e1"]]
StepStartPc    == [l \in 0 .. 2 |-> [s \in 0 .. 1 |-> <<100, 200, 300>>[l + 1]]]
StepEn         == [s \in 0 .. 1 |-> TRUE]
StepAlias      == {<<"e0", 200>>}
StepPost       == [s \in 0 .. 1 |-> 900]

(* Breakpoints at iterations that every layer has. *)
InEveryLayer == {[layer |-> l, it |-> i] : l \in 0 .. 2, i \in 1 .. 2}

(* An iteration the layer has not got. *)
BeyondLayer  == {[layer |-> 1, it |-> 4]}

(* For two batches: both stamps run every layer. *)
TwoStampCount == [l \in 0 .. 2 |-> 2]
TwoIterations == [l \in 0 .. 2 |-> 1]

NoBreakpoints == {}
=============================================================================
