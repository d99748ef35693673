---------------------------- MODULE RunRegistry ----------------------------
(***************************************************************************)
(* What the run store promises to those who only use its interface: runs   *)
(* are published one at a time and for good, a run is acknowledged to its  *)
(* producer only once published, and a consumer is given published runs.   *)
(***************************************************************************)
CONSTANT RunIds
VARIABLES published, acknowledged, delivered

vars == <<published, acknowledged, delivered>>

Init == published = {} /\ acknowledged = {} /\ delivered = {}

Publish(r) ==
  /\ r \notin published
  /\ published' = published \cup {r}
  /\ UNCHANGED <<acknowledged, delivered>>

Acknowledge(r) ==
  /\ r \in published
  /\ acknowledged' = acknowledged \cup {r}
  /\ UNCHANGED <<published, delivered>>

Deliver(r) ==
  /\ r \in published
  /\ delivered' = delivered \cup {r}
  /\ UNCHANGED <<published, acknowledged>>

Next == \E r \in RunIds : Publish(r) \/ Acknowledge(r) \/ Deliver(r)

Spec == Init /\ [][Next]_vars
=============================================================================
