------------------------------ MODULE LockStep ------------------------------
(***************************************************************************)
(* What a batch run promises, without breakpoints, threads or cores: the   *)
(* replicas are observed at the starts of the iterations of their layers,  *)
(* in program order and without leaving one out, all replicas of a layer   *)
(* together, no replica ahead of another one's layer; and the run reports  *)
(* success only when every replica was observed all the way.               *)
(***************************************************************************)
EXTENDS Schedule

VARIABLES
  seen,   \* replica -> last start it was observed at
  status  \* "running", or how the run ended

vars == <<seen, status>>

(* Skipping leaves the start of each layer as the only observation. *)
Observed(l) == IF SkipMode = "none" THEN Iterations[l] ELSE 1

NextObservation(sid) ==
  IF seen[sid].layer >= 0 /\ seen[sid].it < Observed(seen[sid].layer)
    THEN [layer |-> seen[sid].layer, it |-> seen[sid].it + 1]
    ELSE [layer |-> NextLayerFor(StampOf(sid), seen[sid].layer + 1), it |-> 1]

Init ==
  /\ seen = [sid \in Replica |-> [layer |-> -1, it |-> 0]]
  /\ status = "running"

(* The replicas keep together: before replica sid is observed at o, none   *)
(* has an observation left in an earlier layer, and before it goes beyond  *)
(* the start of a layer, all replicas of the layer were at the start.      *)
InStep(o) ==
  \A r \in Replica :
    \/ NextObservation(r).layer > o.layer
    \/ NextObservation(r).layer = o.layer /\ (o.it > 1 => NextObservation(r).it > 1)

Observe(sid) ==
  /\ status = "running"
  /\ NextObservation(sid).layer # NoLayer
  /\ InStep(NextObservation(sid))
  /\ seen' = [seen EXCEPT ![sid] = NextObservation(sid)]
  /\ UNCHANGED status

Succeed ==
  /\ status = "running"
  /\ \A sid \in Replica : NextObservation(sid).layer = NoLayer
  /\ status' = "success"
  /\ UNCHANGED seen

Stop ==
  /\ status = "running"
  /\ status' \in {"exited", "fail"}
  /\ UNCHANGED seen

Next == (\E sid \in Replica : Observe(sid)) \/ Succeed \/ Stop

Spec == Init /\ [][Next]_vars
=============================================================================
