---------------------------- MODULE MCBatchRunner ---------------------------
(***************************************************************************)
(* Small designs for the batch runner.  A PC is shared between ELFs on     *)
(* purpose: the entry PC of a layer that is reached through a reload is    *)
(* the address of ordinary code in the ELF that runs before the reload.    *)
(***************************************************************************)
EXTENDS BatchRunner, TLC

(* Stamp 1 sits out layer 1 and comes back in layer 2 from another ELF, so *)
(* it is armed early; stamp 2 is finished after layer 0.  The run exits at *)
(* layer 3.                                                                *)
ReloadStampCount == 0 :> 3 @@ 1 :> 1 @@ 2 :> 2 @@ 3 :> 2
ReloadIterations == 0 :> 2 @@ 1 :> 1 @@ 2 :> 2 @@ 3 :> 2
ReloadKernel     == [l \in 0 .. 3 |-> [s \in 0 .. 2 |-> <<"conv", "pool", "add", "conv">>[l + 1]]]
ReloadElf        == [l \in 0 .. 3 |-> [s \in 0 .. 2 |-> IF l = 0 THEN "e0" ELSE "e1"]]
ReloadStartPc    == [l \in 0 .. 3 |->
                       [s \in 0 .. 2 |-> <<100, 200, IF s = 0 THEN 300 ELSE 200, 100>>[l + 1]]]
ReloadEn         == [s \in 0 .. 2 |-> TRUE]
ReloadAlias      == {<<"e0", 200>>}
ReloadPost       == [s \in 0 .. 2 |-> 900]

(* Two batches of two stamps.  Both stamps change ELF after layer 0; stamp *)
(* 1 sits out layer 1, so it is armed early across a layer and a reload,   *)
(* and is finished after layer 2.                                          *)
BatchStampCount == 0 :> 2 @@ 1 :> 1 @@ 2 :> 2 @@ 3 :> 1
BatchIterations == 0 :> 2 @@ 1 :> 4 @@ 2 :> 1 @@ 3 :> 2
BatchKernel     == [l \in 0 .. 3 |-> [s \in 0 .. 1 |-> <<"conv", "pool", "add", "conv">>[l + 1]]]
BatchElf        == [l \in 0 .. 3 |-> [s \in 0 .. 1 |-> IF l = 0 THEN "e0" ELSE "e1"]]
BatchStartPc    == [l \in 0 .. 3 |-> [s \in 0 .. 1 |-> <<100, 200, 300, 100>>[l + 1]]]
BatchEn         == [s \in 0 .. 1 |-> TRUE]
BatchAlias      == {<<"e0", 200>>, <<"e0", 300>>}
BatchPost       == [s \in 0 .. 1 |-> 900]

(* For the skip modes: layer 0 needs no stepping under skip_iter, layer 1  *)
(* is followed by the same kernel, layer 2 by a reload that only stamp 0   *)
(* goes through.                                                           *)
SkipStampCount == 0 :> 2 @@ 1 :> 2 @@ 2 :> 2 @@ 3 :> 1
SkipIterations == 0 :> 3 @@ 1 :> 2 @@ 2 :> 3 @@ 3 :> 2
SkipKernel     == [l \in 0 .. 3 |-> [s \in 0 .. 1 |-> <<"conv", "pool", "pool", "conv">>[l + 1]]]
SkipElf        == [l \in 0 .. 3 |-> [s \in 0 .. 1 |-> IF l = 3 THEN "e1" ELSE "e0"]]
SkipStartPc    == [l \in 0 .. 3 |-> [s \in 0 .. 1 |-> <<100, 200, 200, 300>>[l + 1]]]
SkipAlias      == {<<"e0", 300>>}
=============================================================================
