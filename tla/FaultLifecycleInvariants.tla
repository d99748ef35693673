---------------------- MODULE FaultLifecycleInvariants ----------------------
(***************************************************************************)
(* Inductive strengthenings of the safety properties of FaultLifecycle.    *)
(* None of the properties is inductive by itself: that a run reverts what  *)
(* it injected, say, holds because of what the ledger says at each call.   *)
(***************************************************************************)
EXTENDS FaultLifecycle

Untouched == {"PENDING", "PRECHECKED"}
Reverted == {"RESTORING", "RESTORED", "RECOVERY_VERIFIED"}

\* The phases the ledger may be in when a call of the run is next.
PhasesAt ==
  [l \in Locations |->
     CASE l \in {"start", "converge", "baseline", "precheck", "reject"} -> {"PENDING"}
       [] l = "inject" -> {"PRECHECKED"}
       [] l = "injecting" -> {"INJECTING"}
       [] l = "onset" -> {"INJECTED"}
       [] l = "onsetBundle" -> {"ONSET_VERIFIED"}
       [] l = "restore" -> InjectedPhases
       [] l \in {"reverting", "clearing"} -> {"RESTORING"}
       [] l = "recovery" -> {"RESTORED"}
       [] l \in {"recoveryBundle", "gate"} -> {"RECOVERY_VERIFIED"}
       [] l \in {"stop", "assemble", "done"} -> Phases \ InjectedPhases]

\* The ledger and the program counter agree, and an exception only ever
\* passes through the two finally blocks.
ControlInv ==
  /\ Current \in PhasesAt[pc]
  /\ raised => pc \in {"restore", "reverting", "clearing", "stop", "done"}
  /\ pc = "restore" /\ ~raised => Current = "ONSET_VERIFIED"

\* The transcript agrees with the ledger on what was issued.
IssueInv ==
  /\ Issued("inject") <=> Current \notin Untouched
  /\ Issued("revert") <=> Current \in Reverted
  /\ Issued("inject") => Appended("INJECTING")
  /\ cfg = "faulty" \/ late # {} => Issued("inject")

\* Only a run that raised nothing reaches its end with a record and no lab.
VerdictInv ==
  /\ record # "none" => pc \in {"stop", "assemble", "done"}
  /\ pc \in {"stop", "assemble", "done"} /\ ~raised => record # "none"
  /\ pc = "assemble" \/ (pc = "done" /\ ~raised) => lab = "absent"

\* A run that raised nothing has no configuration command on its way, and
\* its configuration is the one its ledger says.
NetworkInv ==
  /\ ~raised => late \subseteq {"clear"}
  /\ ~raised /\ Current \notin Reverted => late = {}
  /\ ~raised /\ (pc = "clearing" \/ Current \in {"RESTORED", "RECOVERY_VERIFIED"})
       => cfg = "correct"
  /\ record = "accepted" => cfg = "correct" /\ late \subseteq {"clear"}

\* While the onset is being verified the fault is in place, and its symptom,
\* once there, stays.
OnsetInv ==
  /\ pc \in {"onset", "onsetBundle"} =>
       /\ cfg = "faulty"
       /\ family \in SessionFaults => ~sess["target"]
  /\ pc = "onsetBundle" /\ family = "prefix_withdrawal" => ~route["peer"]
  /\ pc = "onsetBundle" /\ view # NoView =>
       /\ view.cfg = "faulty"
       /\ family \in SessionFaults => ~view.sess
  /\ OnsetEvidenceShowsFault

\* The two configuration commands, each with its write-ahead entry.
InjectEntries == <<Pending("inject"), Completed("inject", "ok")>>
RevertEntries ==
  <<Pending("inject"), Completed("inject", "ok"), Pending("revert"), Completed("revert", "ok")>>

\* The whole transcript of a run whose commands did what they should.
FullTranscript ==
  IF family \in ForcedReset
  THEN \E s \in ExecStatus :
         transcript = <<Pending("inject"), Completed("inject", "ok"), Pending("revert"),
                        Completed("revert", "ok"), Pending("clear"), Completed("clear", s)>>
  ELSE transcript = RevertEntries

\* A run that raised nothing has issued just the commands before its next call.
TranscriptInv ==
  /\ record = "accepted" => FullTranscript
  /\ ~raised =>
       /\ pc \in {"start", "converge", "baseline", "precheck", "inject", "reject"}
            => transcript = <<>>
       /\ pc = "injecting" => transcript = <<Pending("inject")>>
       /\ pc \in {"onset", "onsetBundle", "restore"} => transcript = InjectEntries
       /\ pc = "reverting" =>
            transcript = <<Pending("inject"), Completed("inject", "ok"), Pending("revert")>>
       /\ pc = "clearing" =>
            /\ family \in ForcedReset
            /\ transcript = <<Pending("inject"), Completed("inject", "ok"), Pending("revert"),
                              Completed("revert", "ok"), Pending("clear")>>
       /\ pc \in {"recovery", "recoveryBundle", "gate"} => FullTranscript

\* What the ledger's last phase says of the earlier ones, and what a record says of
\* the ledger.
HistoryInv ==
  /\ Appended("INJECTING") <=> Current \notin Untouched
  /\ Appended("RESTORED") <=> Current \in {"RESTORED", "RECOVERY_VERIFIED"}
  /\ Appended("ONSET_VERIFIED") => Current \in Reverted \cup {"ONSET_VERIFIED"}
  /\ Current = "ONSET_VERIFIED" \/ (~raised /\ Current \in Reverted) => Appended("ONSET_VERIFIED")
  /\ record = "accepted" => Appended("RESTORED") /\ Appended("ONSET_VERIFIED")
  /\ record = "rejected" => Current \in Untouched

\* The contract without its fairness: what a caller can be shown, step by step.
ContractSafety == Contract!Init /\ [][Contract!Next]_(Contract!vars)
=============================================================================
