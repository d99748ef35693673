------------------------------ MODULE Lifecycle ------------------------------
(* The phases of a fault run and their legal order (faults/ledger.py).     *)
EXTENDS Naturals, Sequences

Phases == {"PENDING", "PRECHECKED", "INJECTING", "INJECTED",
           "ONSET_VERIFIED", "RESTORING", "RESTORED", "RECOVERY_VERIFIED"}

LegalTransitions ==
  [PENDING           |-> {"PRECHECKED"},
   PRECHECKED        |-> {"INJECTING"},
   INJECTING         |-> {"INJECTED", "RESTORING"},
   INJECTED          |-> {"ONSET_VERIFIED", "RESTORING"},
   ONSET_VERIFIED    |-> {"RESTORING"},
   RESTORING         |-> {"RESTORED"},
   RESTORED          |-> {"RECOVERY_VERIFIED"},
   RECOVERY_VERIFIED |-> {}]

\* Ledger.current, for the phases recorded so far.
LastPhase(records) ==
  IF records = <<>> THEN "PENDING" ELSE records[Len(records)]

\* Records that a Ledger starting from PENDING accepts one after the other.
LegalPath(records) ==
  \A i \in 1 .. Len(records) :
    records[i] \in LegalTransitions[IF i = 1 THEN "PENDING" ELSE records[i - 1]]
=============================================================================
