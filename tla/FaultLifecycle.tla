--------------------------- MODULE FaultLifecycle ---------------------------
(***************************************************************************)
(* One live incident run: the composition root (orchestrator/live_run.py)  *)
(* driving a lab (labs/frr/backend.py), one fault scenario (faults/*.py),  *)
(* its evidence sampling (labs/frr/scenario_evidence.py) and polling       *)
(* (verifiers/polling.py), and the write-ahead mutation executor           *)
(* (runtime/mutation.py), over a two-router network that converges,        *)
(* flaps and lets a command of a timed-out client land late.               *)
(*                                                                         *)
(* The process is sequential: pc says which call of the run is next.  The  *)
(* network moves between any two of its steps, also between the reads of   *)
(* the target router and of the peer router that make one sample.          *)
(***************************************************************************)
EXTENDS Lifecycle

CONSTANTS
  Families,     \* the runs considered: fault families and "rejected"
  Consecutive,  \* successes in a row that end a poll (2 in every caller)
  MaxPolls,     \* samples after which a poll's deadline has surely passed
  MaxFlaps      \* bound on spontaneous session losses

FaultFamilies ==
  {"remote_as", "neighbor_removal", "iface_shutdown", "prefix_withdrawal"}

ASSUME FamiliesAssumption == Families \subseteq FaultFamilies \cup {"rejected"}
ASSUME PollAssumption ==
  /\ Consecutive \in Nat \ {0}
  /\ MaxPolls \in Nat \ {0}
  /\ MaxFlaps \in Nat

VARIABLES
  family,       \* what this run executes, fixed at the start
  pc,           \* the next call of the composition root
  ledger,       \* Ledger._records: the phases appended so far
  transcript,   \* the mutation entries of the shared transcript
  raised,       \* an exception is propagating out of the run
  streak, polls,\* poll_until: successes in a row, samples taken
  view,         \* the target half of the sample being collected, or NoView
  onsetOK, recoveryOK,  \* every onset / recovery result is committable
  onsetBundle,  \* the evidence bundle recorded for the onset phase
  record,       \* the incident record built, before it is stored
  lab, cfg, sess, route, late, flaps   \* the lab: see below

run == <<family, pc, ledger, transcript, raised, streak, polls, view,
         onsetOK, recoveryOK, onsetBundle, record>>
net == <<lab, cfg, sess, route, late, flaps>>
vars == <<run, net>>

-----------------------------------------------------------------------------
(* Vocabulary                                                              *)

Routers == {"target", "peer"}
Commands == {"inject", "revert", "clear"}
ExecStatus == {"ok", "nonzero_exit", "timeout"}

\* Ledger.current.
Current == LastPhase(ledger)

\* Mutant: the finally retries a restore() that failed.
RetriedPhases == {"INJECTING", "INJECTED", "ONSET_VERIFIED", "RESTORING"}

\* Mutant: the finally restores only what was confirmed injected.
ConfirmedPhases == {"INJECTED", "ONSET_VERIFIED"}

\* The phases from which the inner finally of the accepted run restores.
InjectedPhases == {"INJECTING", "INJECTED", "ONSET_VERIFIED"}

Locations ==
  {"start", "converge", "baseline", "precheck", "inject", "injecting",
   "onset", "onsetBundle", "restore", "reverting", "clearing", "recovery",
   "recoveryBundle", "reject", "gate", "stop", "assemble", "done"}

\* The locations that collect a sample from both routers.
Sampling == {"converge", "baseline", "precheck", "onset", "onsetBundle",
             "recovery", "recoveryBundle", "reject"}

Observation == [cfg : {"correct", "faulty"}, sess : BOOLEAN, route : BOOLEAN]
NoView == [cfg |-> "none", sess |-> FALSE, route |-> FALSE]
NoBundle == [target |-> NoView, peer |-> NoView]
Views == Observation \cup {NoView}
Bundles == [target : Observation, peer : Observation] \cup {NoBundle}

\* What a collector reads of router r now.
Observe(r) == [cfg |-> cfg, sess |-> sess[r], route |-> route[r]]

-----------------------------------------------------------------------------
(* The checks each family evaluates.  A check is named for what it asks of *)
(* a sample: the parameter the fault changes (config), the BGP session or  *)
(* the route to the other loopback, as seen on the target or on the peer.  *)

\* The checks a sample (target half t, peer half p) answers PASS.
Passing(t, p) ==
  {IF t.cfg = "correct" THEN "config_correct" ELSE "config_faulty"}
  \cup {IF t.sess THEN "target_established" ELSE "target_not_established"}
  \cup {IF p.sess THEN "peer_established" ELSE "peer_not_established"}
  \cup {IF t.route THEN "target_route" ELSE "target_no_route"}
  \cup {IF p.route THEN "peer_route" ELSE "peer_no_route"}

\* validate_preconditions evaluates pre once; verify_onset polls onset, then
\* evaluates onsetPost on the sample that ended the poll; verify_recovery does
\* so with recovery and recoveryFinal.
RemoteAsChecks ==
  [pre           |-> {"target_established", "target_route"},
   onset         |-> {"target_not_established", "config_faulty"},
   onsetPost     |-> {},
   recovery      |-> {"target_established", "config_correct"},
   recoveryFinal |-> {"target_route", "peer_route"}]

NeighborRemovalChecks ==
  [pre           |-> {"target_established", "config_correct", "target_route"},
   onset         |-> {"config_faulty", "peer_not_established",
                      "target_no_route", "peer_no_route"},
   onsetPost     |-> {},
   recovery      |-> {"target_established", "config_correct"},
   recoveryFinal |-> {"target_route", "peer_route", "config_correct"}]

IfaceShutdownChecks ==
  [pre           |-> {"config_correct", "target_established", "target_route"},
   onset         |-> {"config_faulty", "target_not_established", "target_no_route"},
   onsetPost     |-> {},
   recovery      |-> {"config_correct", "target_established"},
   recoveryFinal |-> {"target_route", "peer_route", "config_correct"}]

PrefixWithdrawalChecks ==
  [pre           |-> {"target_established", "peer_route"},
   onset         |-> {"peer_no_route", "target_established"},
   onsetPost     |-> {"peer_established", "target_route"},
   recovery      |-> {"peer_route", "target_established"},
   recoveryFinal |-> {"config_correct"}]

Checks ==
  [remote_as         |-> RemoteAsChecks,
   neighbor_removal  |-> NeighborRemovalChecks,
   iface_shutdown    |-> IfaceShutdownChecks,
   prefix_withdrawal |-> PrefixWithdrawalChecks]

\* Families whose restore also issues "clear bgp".
ForcedReset == {"remote_as", "neighbor_removal", "iface_shutdown"}

\* The faults that make the session impossible; a withdrawn prefix does not.
SessionFaults == {"remote_as", "neighbor_removal", "iface_shutdown"}

-----------------------------------------------------------------------------
(* The lab: what the commands and the routing protocol do to the network   *)

SessionPossible == cfg = "correct" \/ family \notin SessionFaults
Advertised(r) == r = "target" \/ family # "prefix_withdrawal" \/ cfg = "correct"
AllDown == [r \in Routers |-> FALSE]

\* The effect of command c on the network, when it lands.
Lands(c) ==
  /\ cfg' = CASE c = "inject" -> "faulty"
              [] c = "revert" -> "correct"
              [] c = "clear"  -> cfg
  /\ sess' = CASE c = "clear" -> AllDown
               [] c = "inject" /\ family \in SessionFaults ->
                    [sess EXCEPT !["target"] = FALSE]
               [] OTHER -> sess
  /\ UNCHANGED route

\* The process runner returned status s for command c.  A nonzero exit leaves
\* the command applied or not; a timeout kills only the docker client, so the
\* command may have landed, be lost, or land later.
Executed(c, s) ==
  \/ /\ s \in ExecStatus
     /\ Lands(c)
     /\ UNCHANGED late
  \/ /\ s # "ok"
     /\ UNCHANGED <<cfg, sess, route, late>>
  \/ /\ s = "timeout"
     /\ late' = late \cup {c}
     /\ UNCHANGED <<cfg, sess, route>>

NetworkUnused == UNCHANGED net

\* A command whose client timed out takes effect after all.
LateCommand ==
  /\ lab = "up"
  /\ \E c \in late : Lands(c) /\ late' = late \ {c}
  /\ UNCHANGED <<run, lab, flaps>>

SessionConverges ==
  /\ lab = "up"
  /\ \E r \in Routers :
       /\ sess[r] # SessionPossible
       /\ sess' = [sess EXCEPT ![r] = SessionPossible]
  /\ UNCHANGED <<run, lab, cfg, route, late, flaps>>

RouteConverges ==
  /\ lab = "up"
  /\ \E r \in Routers :
       /\ route[r] # (sess[r] /\ Advertised(r))
       /\ route' = [route EXCEPT ![r] = ~route[r]]
  /\ UNCHANGED <<run, lab, cfg, sess, late, flaps>>

SessionFlaps ==
  /\ lab = "up"
  /\ flaps < MaxFlaps
  /\ sess # AllDown
  /\ sess' = AllDown
  /\ flaps' = flaps + 1
  /\ UNCHANGED <<run, lab, cfg, route, late>>

Environment ==
  LateCommand \/ SessionConverges \/ RouteConverges \/ SessionFlaps

-----------------------------------------------------------------------------
(* The run                                                                 *)

Init ==
  /\ family \in Families
  /\ pc = "start"
  /\ ledger = <<>>
  /\ transcript = <<>>
  /\ raised = FALSE
  /\ streak = 0 /\ polls = 0
  /\ view = NoView
  /\ onsetOK = FALSE /\ recoveryOK = FALSE
  /\ onsetBundle = NoBundle
  /\ record = "none"
  /\ lab \in {"absent", "foreign"}   \* "foreign": leftovers of an earlier run
  /\ cfg = "correct"
  /\ sess = AllDown /\ route = AllDown
  /\ late = {}
  /\ flaps = 0

\* An exception leaves the current call.  The inner finally restores when the
\* ledger shows an injected phase; then the outer finally stops the lab.
Raise ==
  /\ raised' = TRUE
  /\ pc' = IF Current \in InjectedPhases THEN "restore" ELSE "stop"

\* Mutant: a command that timed out counts as done.
ExitedNonzero(s) == s = "nonzero_exit"

\* The statuses on which inject() and restore() raise.
Failed(s) == s # "ok"

Entries == [cmd : Commands, stage : {"pending", "completed"},
            status : ExecStatus \cup {"pending"}]
Pending(c) == [cmd |-> c, stage |-> "pending", status |-> "pending"]
Completed(c, s) == [cmd |-> c, stage |-> "completed", status |-> s]

\* After restore() returns: on the normal path verify, in the finally stop.
AfterRestore == pc' = IF raised THEN "stop" ELSE "recovery"

\* FrrComposeBackend.start: leftovers abort it, "up" or readiness may fail.
StartLab ==
  /\ pc = "start"
  /\ \/ /\ lab = "absent"
        /\ lab' = "up"
        /\ pc' = "converge"
        /\ UNCHANGED raised
     \/ /\ lab = "foreign"
        /\ Raise
        /\ UNCHANGED lab
     \/ /\ lab = "absent"
        /\ lab' \in {"absent", "partial"}
        /\ Raise
  /\ UNCHANGED <<family, ledger, transcript, streak, polls, view, onsetOK,
                 recoveryOK, onsetBundle, record, cfg, sess, route, late, flaps>>

\* The collectors of the target router, which every plan runs first.
ObserveTarget ==
  /\ pc \in Sampling
  /\ view = NoView
  /\ view' = Observe("target")
  /\ UNCHANGED <<family, pc, ledger, transcript, raised, streak, polls, onsetOK,
                 recoveryOK, onsetBundle, record>>
  /\ NetworkUnused

\* A collector command fails or its output does not parse: the exception
\* leaves the run.  Convergence turns it into a not-established state instead.
CollectorFails ==
  /\ pc \in Sampling \ {"converge"}
  /\ Raise
  /\ view' = NoView
  /\ streak' = 0 /\ polls' = 0
  /\ UNCHANGED <<family, ledger, transcript, onsetOK, recoveryOK, onsetBundle, record>>
  /\ NetworkUnused

\* Mutant: the deadline is looked at one sample too late.
PollOnceMore(ok) ==
  /\ streak' = IF ok THEN streak + 1 ELSE 0
  /\ streak' < Consecutive
  /\ polls < MaxPolls
  /\ polls' = polls + 1
  /\ UNCHANGED <<pc, raised>>

\* Mutant: a poll without a deadline.
PollForever(ok) ==
  /\ streak' = IF ok THEN streak + 1 ELSE 0
  /\ streak' < Consecutive
  /\ UNCHANGED <<polls, pc, raised>>

\* One sample of poll_until has been taken and satisfied ok: the poll goes on.
PollAgain(ok) ==
  /\ streak' = IF ok THEN streak + 1 ELSE 0
  /\ streak' < Consecutive
  /\ polls + 1 < MaxPolls
  /\ polls' = polls + 1
  /\ UNCHANGED <<pc, raised>>

\* ... or the deadline has passed and the caller raises.
PollTimesOut(ok) ==
  /\ (IF ok THEN streak + 1 ELSE 0) < Consecutive
  /\ Raise
  /\ streak' = 0 /\ polls' = 0

\* ... or it was the last of Consecutive successes.
PollSucceeds(ok) ==
  /\ ok
  /\ streak + 1 >= Consecutive
  /\ streak' = 0 /\ polls' = 0
  /\ UNCHANGED raised

\* wait_for_bgp_established: both endpoints, Consecutive times.
Converge ==
  /\ pc = "converge" /\ view # NoView
  /\ LET ok == {"target_established", "peer_established"}
                 \subseteq Passing(view, Observe("peer"))
     IN  \/ PollAgain(ok)
         \/ PollTimesOut(ok)
         \/ /\ PollSucceeds(ok)
            /\ pc' = IF family = "rejected" THEN "reject" ELSE "baseline"
  /\ view' = NoView
  /\ UNCHANGED <<family, ledger, transcript, onsetOK, recoveryOK, onsetBundle, record>>
  /\ NetworkUnused

CollectBaseline ==
  /\ pc = "baseline" /\ view # NoView
  /\ view' = NoView
  /\ pc' = "precheck"
  /\ UNCHANGED <<family, ledger, transcript, raised, streak, polls, onsetOK,
                 recoveryOK, onsetBundle, record>>
  /\ NetworkUnused

ValidatePreconditions ==
  /\ pc = "precheck" /\ view # NoView
  /\ IF Checks[family].pre \subseteq Passing(view, Observe("peer"))
       THEN /\ ledger' = Append(ledger, "PRECHECKED")
            /\ pc' = "inject"
            /\ UNCHANGED raised
       ELSE Raise /\ UNCHANGED ledger
  /\ view' = NoView
  /\ UNCHANGED <<family, transcript, streak, polls, onsetOK, recoveryOK,
                 onsetBundle, record>>
  /\ NetworkUnused

\* Mutant: the mutation runs without its write-ahead entry.
InjectUnlogged ==
  /\ pc = "inject"
  /\ ledger' = Append(ledger, "INJECTING")
  /\ pc' = "injecting"
  /\ UNCHANGED <<family, transcript, raised, streak, polls, view, onsetOK,
                 recoveryOK, onsetBundle, record>>
  /\ NetworkUnused

\* inject(), up to the call of the process runner.
Inject ==
  /\ pc = "inject"
  /\ ledger' = Append(ledger, "INJECTING")
  /\ transcript' = Append(transcript, Pending("inject"))
  /\ pc' = "injecting"
  /\ UNCHANGED <<family, raised, streak, polls, view, onsetOK, recoveryOK,
                 onsetBundle, record>>
  /\ NetworkUnused

\* inject(), from the runner's return.
InjectReturns ==
  /\ pc = "injecting"
  /\ \E s \in ExecStatus :
       /\ Executed("inject", s)
       /\ transcript' = Append(transcript, Completed("inject", s))
       /\ IF Failed(s)
            THEN Raise /\ UNCHANGED ledger
            ELSE /\ ledger' = Append(ledger, "INJECTED")
                 /\ pc' = "onset"
                 /\ UNCHANGED raised
  /\ UNCHANGED <<family, streak, polls, view, onsetOK, recoveryOK, onsetBundle,
                 record, lab, flaps>>

VerifyOnset ==
  /\ pc = "onset" /\ view # NoView
  /\ LET passing == Passing(view, Observe("peer"))
         ok == Checks[family].onset \subseteq passing
     IN  \/ PollAgain(ok) /\ UNCHANGED <<ledger, onsetOK>>
         \/ PollTimesOut(ok) /\ UNCHANGED <<ledger, onsetOK>>
         \/ /\ PollSucceeds(ok)
            /\ onsetOK' = (Checks[family].onsetPost \subseteq passing)
            /\ ledger' = Append(ledger, "ONSET_VERIFIED")
            /\ pc' = "onsetBundle"
  /\ view' = NoView
  /\ UNCHANGED <<family, transcript, recoveryOK, onsetBundle, record>>
  /\ NetworkUnused

CollectOnsetBundle ==
  /\ pc = "onsetBundle" /\ view # NoView
  /\ onsetBundle' = [target |-> view, peer |-> Observe("peer")]
  /\ view' = NoView
  /\ pc' = "restore"
  /\ UNCHANGED <<family, ledger, transcript, raised, streak, polls, onsetOK,
                 recoveryOK, record>>
  /\ NetworkUnused

\* restore(), up to the call of the runner for the revert command.
Restore ==
  /\ pc = "restore"
  /\ ledger' = Append(ledger, "RESTORING")
  /\ transcript' = Append(transcript, Pending("revert"))
  /\ pc' = "reverting"
  /\ UNCHANGED <<family, raised, streak, polls, view, onsetOK, recoveryOK,
                 onsetBundle, record>>
  /\ NetworkUnused

\* restore(): the revert returned.  A failure raises and leaves RESTORING.
RevertReturns ==
  /\ pc = "reverting"
  /\ \E s \in ExecStatus :
       /\ Executed("revert", s)
       /\ \/ /\ Failed(s)
             /\ Raise
             /\ transcript' = Append(transcript, Completed("revert", s))
             /\ UNCHANGED ledger
          \/ /\ ~Failed(s) /\ family \in ForcedReset
             /\ pc' = "clearing"
             /\ transcript' =
                  Append(Append(transcript, Completed("revert", s)), Pending("clear"))
             /\ UNCHANGED <<ledger, raised>>
          \/ /\ ~Failed(s) /\ family \notin ForcedReset
             /\ transcript' = Append(transcript, Completed("revert", s))
             /\ ledger' = Append(ledger, "RESTORED")
             /\ AfterRestore
             /\ UNCHANGED raised
  /\ UNCHANGED <<family, streak, polls, view, onsetOK, recoveryOK, onsetBundle,
                 record, lab, flaps>>

\* restore(): the forced reset returned; its failure is only noted.
ClearReturns ==
  /\ pc = "clearing"
  /\ \E s \in ExecStatus :
       /\ Executed("clear", s)
       /\ transcript' = Append(transcript, Completed("clear", s))
  /\ ledger' = Append(ledger, "RESTORED")
  /\ AfterRestore
  /\ UNCHANGED <<family, raised, streak, polls, view, onsetOK, recoveryOK,
                 onsetBundle, record, lab, flaps>>

\* The command the run waits for at each call of the process runner.
Called == [injecting |-> "inject", reverting |-> "revert", clearing |-> "clear"]

\* The runner itself raises: the pending entry gets no completed one, and the
\* command landed, was never started, or lands late (its client was killed).
RunnerRaises ==
  /\ pc \in DOMAIN Called
  /\ Executed(Called[pc], "timeout")
  /\ Raise
  /\ UNCHANGED <<family, ledger, transcript, streak, polls, view, onsetOK,
                 recoveryOK, onsetBundle, record, lab, flaps>>

VerifyRecovery ==
  /\ pc = "recovery" /\ view # NoView
  /\ LET passing == Passing(view, Observe("peer"))
         ok == Checks[family].recovery \subseteq passing
     IN  \/ PollAgain(ok) /\ UNCHANGED <<ledger, recoveryOK>>
         \/ PollTimesOut(ok) /\ UNCHANGED <<ledger, recoveryOK>>
         \/ /\ PollSucceeds(ok)
            /\ recoveryOK' = (Checks[family].recoveryFinal \subseteq passing)
            /\ ledger' = Append(ledger, "RECOVERY_VERIFIED")
            /\ pc' = "recoveryBundle"
  /\ view' = NoView
  /\ UNCHANGED <<family, transcript, onsetOK, onsetBundle, record>>
  /\ NetworkUnused

CollectRecoveryBundle ==
  /\ pc = "recoveryBundle" /\ view # NoView
  /\ view' = NoView
  /\ pc' = "gate"
  /\ UNCHANGED <<family, ledger, transcript, raised, streak, polls, onsetOK,
                 recoveryOK, onsetBundle, record>>
  /\ NetworkUnused

\* RejectedPreconditionRun.execute: a deterministic FAIL of the impossible
\* precondition builds the record, any other verdict raises.
RejectPrecondition ==
  /\ pc = "reject" /\ view # NoView
  /\ \/ record' = "rejected" /\ pc' = "stop" /\ UNCHANGED raised
     \/ Raise /\ UNCHANGED record
  /\ view' = NoView
  /\ UNCHANGED <<family, ledger, transcript, streak, polls, onsetOK, recoveryOK,
                 onsetBundle>>
  /\ NetworkUnused

\* run_accepted_incident after the inner finally: only a run that reached
\* RECOVERY_VERIFIED with every verdict committable is recorded.  Reading the
\* environment's versions for the record may raise too.
BuildRecord ==
  /\ pc = "gate"
  /\ \/ /\ Current = "RECOVERY_VERIFIED" /\ onsetOK /\ recoveryOK
        /\ record' = "accepted"
        /\ pc' = "stop"
        /\ UNCHANGED raised
     \/ Raise /\ UNCHANGED record
  /\ UNCHANGED <<family, ledger, transcript, streak, polls, view, onsetOK,
                 recoveryOK, onsetBundle>>
  /\ NetworkUnused

\* The lab's containers are gone, and with them every late command.
TornDown(l) ==
  /\ lab' = l
  /\ cfg' = "correct"
  /\ sess' = AllDown /\ route' = AllDown
  /\ late' = {}

\* Mutant: "down" exits with 0, and nothing checks what is left.
StopUnverified ==
  /\ pc = "stop"
  /\ TornDown("absent") \/ TornDown("partial")
  /\ pc' = IF raised THEN "done" ELSE "assemble"
  /\ UNCHANGED <<family, ledger, transcript, raised, streak, polls, view, onsetOK,
                 recoveryOK, onsetBundle, record, flaps>>

\* FrrComposeBackend.stop: "down", then verify that nothing is left.
StopLab ==
  /\ pc = "stop"
  /\ \/ /\ TornDown("absent")
        /\ pc' = IF raised THEN "done" ELSE "assemble"
        /\ UNCHANGED raised
     \/ /\ \/ TornDown("absent")
           \/ lab # "absent" /\ TornDown("partial")
           \/ UNCHANGED <<lab, cfg, sess, route, late>>
        /\ raised' = TRUE
        /\ pc' = "done"
  /\ UNCHANGED <<family, ledger, transcript, streak, polls, view, onsetOK,
                 recoveryOK, onsetBundle, record, flaps>>

\* assemble_verified_run, which may raise (see RunStore).
Assemble ==
  /\ pc = "assemble"
  /\ raised' \in BOOLEAN
  /\ pc' = "done"
  /\ UNCHANGED <<family, ledger, transcript, streak, polls, view, onsetOK,
                 recoveryOK, onsetBundle, record>>
  /\ NetworkUnused

Step ==
  \/ StartLab \/ ObserveTarget \/ CollectorFails \/ Converge
  \/ CollectBaseline \/ ValidatePreconditions
  \/ Inject \/ InjectReturns \/ VerifyOnset \/ CollectOnsetBundle
  \/ Restore \/ RevertReturns \/ ClearReturns \/ RunnerRaises
  \/ VerifyRecovery \/ CollectRecoveryBundle
  \/ RejectPrecondition \/ BuildRecord \/ StopLab \/ Assemble

\* The function has returned or raised.
Finished == pc = "done" /\ UNCHANGED vars

Next == Step \/ Environment \/ Finished

\* Every command and every poll has a deadline, so the process always moves.
Spec == Init /\ [][Next]_vars /\ WF_vars(Step)
-----------------------------------------------------------------------------
(* Properties                                                              *)

\* Every variable keeps its type: in particular a poll never counts past its
\* bounds (poll_until) and the ledger holds only lifecycle phases.
TypeOK ==
  /\ family \in Families
  /\ pc \in Locations
  /\ ledger \in Seq(Phases)
  /\ transcript \in Seq(Entries)
  /\ raised \in BOOLEAN
  /\ streak \in 0 .. Consecutive - 1
  /\ polls \in 0 .. MaxPolls - 1
  /\ view \in Views
  /\ onsetOK \in BOOLEAN /\ recoveryOK \in BOOLEAN
  /\ onsetBundle \in Bundles
  /\ record \in {"none", "accepted", "rejected"}
  /\ lab \in {"absent", "foreign", "partial", "up"}
  /\ cfg \in {"correct", "faulty"}
  /\ sess \in [Routers -> BOOLEAN] /\ route \in [Routers -> BOOLEAN]
  /\ late \subseteq Commands
  /\ flaps \in 0 .. MaxFlaps

Appended(p) == \E i \in 1 .. Len(ledger) : ledger[i] = p
Issued(c) == \E i \in 1 .. Len(transcript) : transcript[i] = Pending(c)

\* No call of the run, on any failure path and in any finally, ever asks the
\* ledger for a transition that LEGAL_TRANSITIONS refuses: a run never dies of
\* PhaseTransitionError.
LedgerIsLegal == LegalPath(ledger)

\* A router is never mutated, now or by a command still on its way, without a
\* write-ahead entry in the transcript and INJECTING in the ledger.
FaultIsLogged ==
  cfg = "faulty" \/ "inject" \in late =>
    /\ Issued("inject")
    /\ Appended("INJECTING")

\* When a run comes to stop its lab, however it got there, a fault that was
\* issued has had its revert issued ("restoration-if-injected").
InjectedIsReverted ==
  pc \in {"stop", "assemble", "done"} /\ Issued("inject") => Issued("revert")

\* From the moment an accepted record is built until the lab is gone, the
\* router's configuration is the restored one, and no timed-out command that
\* could change it is still on its way.
AcceptedIsRestored ==
  record = "accepted" /\ lab = "up" => cfg = "correct" /\ late \subseteq {"clear"}

\* An accepted record's transcript holds every command of the family exactly
\* once, paired, in order, and the two configuration changes succeeded.
AcceptedTranscript ==
  record = "accepted" =>
    /\ SubSeq(transcript, 1, 4) =
         <<Pending("inject"), Completed("inject", "ok"),
           Pending("revert"), Completed("revert", "ok")>>
    /\ IF family \in ForcedReset
         THEN \E s \in ExecStatus :
                SubSeq(transcript, 5, Len(transcript)) =
                  <<Pending("clear"), Completed("clear", s)>>
         ELSE Len(transcript) = 4

\* The onset bundle, collected after the onset poll ended, still shows the
\* injected fault: its symptom cannot have healed between the two.
OnsetEvidenceShowsFault ==
  onsetBundle # NoBundle =>
    /\ onsetBundle.target.cfg = "faulty"
    /\ family \in SessionFaults => ~onsetBundle.target.sess
    /\ family = "prefix_withdrawal" => ~onsetBundle.peer.route

\* A run that returns a result has left nothing of its lab behind: the
\* "clean" written in the record before the teardown is true.
ReturnedMeansTornDown ==
  pc = "done" /\ ~raised => lab = "absent" /\ record # "none"

\* Every run ends: each poll and each command has a deadline.
Terminates == <>(pc = "done")

\* ADR-0009 says recovery requires the re-established session and restored
\* routes in both directions; verify_recovery appends RECOVERY_VERIFIED
\* whatever the route checks of its last sample say.
RecoveryNeedsRoutes == Current = "RECOVERY_VERIFIED" => recoveryOK

\* What the run shows of its contract: how far the ledger says the network
\* was taken, and the verdict the caller gets.
NetworkView ==
  CASE Appended("RESTORED") /\ Appended("ONSET_VERIFIED") -> "restored"
    [] Appended("RESTORED") /\ ~Appended("ONSET_VERIFIED") -> "abandoned"
    [] ~Appended("RESTORED") /\ Appended("ONSET_VERIFIED") -> "observed"
    [] OTHER -> IF Appended("INJECTING") THEN "faulted" ELSE "untouched"

Contract == INSTANCE IncidentContract WITH
  network  <- NetworkView,
  standing <- ~(pc \in {"assemble", "done"} /\ lab = "absent"),
  verdict  <- IF pc # "done" THEN "open" ELSE IF raised THEN "failed" ELSE record

\* A run keeps its contract: every step of the run, and of the network around
\* it, is a step of IncidentContract or leaves the caller's view unchanged.
KeepsContract == Contract!Spec
=============================================================================
