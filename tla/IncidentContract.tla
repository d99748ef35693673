-------------------------- MODULE IncidentContract --------------------------
(***************************************************************************)
(* What a caller of one incident run is promised, whatever the family, the *)
(* network and the failures: the network is faulted at most once and put   *)
(* back at most once, in that order; the run ends with one verdict; only   *)
(* "failed" may come with a lab still standing; "accepted" is returned     *)
(* only for a network that was faulted, seen faulty and put back, and      *)
(* "rejected" only for a network that was never touched.                   *)
(***************************************************************************)
VARIABLES
  network,    \* "untouched", "faulted", "observed", "restored", "abandoned"
  standing,   \* the lab may be running
  verdict     \* "open", "accepted", "rejected" or "failed"

vars == <<network, standing, verdict>>

Init == network = "untouched" /\ standing = TRUE /\ verdict = "open"

Fault ==
  /\ verdict = "open" /\ network = "untouched"
  /\ network' = "faulted"
  /\ UNCHANGED <<standing, verdict>>

\* The fault's symptoms have been confirmed.
Observed ==
  /\ verdict = "open" /\ network = "faulted"
  /\ network' = "observed"
  /\ UNCHANGED <<standing, verdict>>

\* The fault was put back, after it had been observed.
Restore ==
  /\ verdict = "open" /\ network = "observed"
  /\ network' = "restored"
  /\ UNCHANGED <<standing, verdict>>

\* A fault that was never confirmed is put back too, but the run is lost.
Abandon ==
  /\ verdict = "open" /\ network = "faulted"
  /\ network' = "abandoned"
  /\ UNCHANGED <<standing, verdict>>

TearDown ==
  /\ verdict = "open" /\ standing
  /\ standing' = FALSE
  /\ UNCHANGED <<network, verdict>>

Accept ==
  /\ verdict = "open" /\ network = "restored" /\ ~standing
  /\ verdict' = "accepted"
  /\ UNCHANGED <<network, standing>>

Reject ==
  /\ verdict = "open" /\ network = "untouched" /\ ~standing
  /\ verdict' = "rejected"
  /\ UNCHANGED <<network, standing>>

Fail ==
  /\ verdict = "open"
  /\ verdict' = "failed"
  /\ standing' \in {standing, FALSE}
  /\ UNCHANGED network

Next ==
  Fault \/ Observed \/ Restore \/ Abandon \/ TearDown \/ Accept \/ Reject \/ Fail

Spec == Init /\ [][Next]_vars /\ WF_vars(Next)
=============================================================================
