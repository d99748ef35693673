------------------------ MODULE FaultLifecycleProofs ------------------------
(***************************************************************************)
(* Theorems about FaultLifecycle, for every set of families, every poll    *)
(* length and every number of flaps: its types, its safety properties from *)
(* the inductive invariants of FaultLifecycleInvariants, and the contract  *)
(* that it keeps.                                                          *)
(***************************************************************************)
EXTENDS FaultLifecycleInvariants, SequenceTheorems, TLAPS

-----------------------------------------------------------------------------
(* The types of what the actions are built from                            *)

\* An exception goes to the inner finally or to the outer one.
LEMMA RaiseTypes ==
  Raise => raised' = TRUE /\ pc' \in {"restore", "stop"}
  BY DEF Raise

\* A ledger or transcript that grows by a legal element keeps its type.
LEMMA AppendTyped ==
  ASSUME NEW S, NEW q \in Seq(S), NEW e \in S
  PROVE  Append(q, e) \in Seq(S)
  OBVIOUS

LEMMA PhasesAppended ==
  ASSUME TypeOK, NEW p \in Phases
  PROVE  Append(ledger, p) \in Seq(Phases)
  BY AppendTyped DEF TypeOK

LEMMA NoViewTyped == NoView \in Views
  BY DEF Views

\* An observation of the network is an observation, whatever the network.
LEMMA Observed ==
  ASSUME TypeOK, NEW r \in Routers
  PROVE  Observe(r) \in Observation /\ Observe(r) \in Views
  BY DEF TypeOK, Observe, Observation, Views

\* The write-ahead entry and the completed entry of every command are entries.
LEMMA EntryTypes ==
  ASSUME NEW c \in Commands
  PROVE  /\ Pending(c) \in Entries
         /\ \A s \in ExecStatus : Completed(c, s) \in Entries
  BY DEF Pending, Completed, Entries

\* A command that lands leaves a well-typed network.
LEMMA LandsTypes ==
  ASSUME TypeOK, NEW c \in Commands, Lands(c)
  PROVE  /\ cfg' \in {"correct", "faulty"}
         /\ sess' \in [Routers -> BOOLEAN]
         /\ route' \in [Routers -> BOOLEAN]
<1>1. cfg' \in {"correct", "faulty"}
  BY DEF TypeOK, Lands, Commands
<1>2. sess' \in [Routers -> BOOLEAN]
  BY DEF TypeOK, Lands, Commands, AllDown
<1>3. route' \in [Routers -> BOOLEAN]
  BY DEF TypeOK, Lands
<1> QED
  BY <1>1, <1>2, <1>3

\* So does a command that was executed, late or not.
LEMMA ExecutedTypes ==
  ASSUME TypeOK, NEW c \in Commands, NEW s \in ExecStatus, Executed(c, s)
  PROVE  /\ cfg' \in {"correct", "faulty"}
         /\ sess' \in [Routers -> BOOLEAN]
         /\ route' \in [Routers -> BOOLEAN]
         /\ late' \subseteq Commands
<1>1. CASE Lands(c) /\ UNCHANGED late
  BY <1>1, LandsTypes DEF TypeOK
<1>2. CASE UNCHANGED <<cfg, sess, route, late>>
  BY <1>2 DEF TypeOK
<1>3. CASE late' = late \cup {c} /\ UNCHANGED <<cfg, sess, route>>
  BY <1>3 DEF TypeOK
<1> QED
  BY <1>1, <1>2, <1>3 DEF Executed

\* A runner that raises issued one of the commands, and the exception takes the run to
\* one of its finally blocks.
LEMMA RunnerLeaves ==
  ASSUME RunnerRaises
  PROVE  /\ pc \in {"injecting", "reverting", "clearing"} /\ pc' \in {"restore", "stop"}
         /\ \E c \in Commands : Executed(c, "timeout")
         /\ Raise /\ raised'
         /\ UNCHANGED <<family, ledger, transcript, streak, polls, view, onsetOK,
                        recoveryOK, onsetBundle, record, lab, flaps>>
  BY RaiseTypes DEF RunnerRaises, Called, Commands

\* However a sample ends, the poll's counters stay within their bounds.
LEMMA PollTypes ==
  ASSUME TypeOK, NEW ok \in BOOLEAN,
         PollAgain(ok) \/ PollTimesOut(ok) \/ PollSucceeds(ok)
  PROVE  /\ streak' \in 0 .. Consecutive - 1
         /\ polls' \in 0 .. MaxPolls - 1
         /\ raised' \in BOOLEAN
<1>1. CASE PollAgain(ok)
  BY <1>1, PollAssumption DEF TypeOK, PollAgain
<1>2. CASE PollTimesOut(ok)
  BY <1>2, PollAssumption, RaiseTypes DEF PollTimesOut
<1>3. CASE PollSucceeds(ok)
  BY <1>3, PollAssumption DEF TypeOK, PollSucceeds
<1> QED
  BY <1>1, <1>2, <1>3

-----------------------------------------------------------------------------
(* Type correctness: no step leaves the types, and no poll its bounds.     *)
THEOREM TypeCorrect == Spec => []TypeOK
<1>1. Init => TypeOK
  <2> SUFFICES ASSUME Init PROVE TypeOK
    OBVIOUS
  <2>1. /\ family \in Families /\ pc \in Locations
        /\ view \in Views /\ onsetBundle \in Bundles
        /\ record \in {"none", "accepted", "rejected"}
    BY NoViewTyped DEF Init, Locations, Bundles
  <2>2. ledger \in Seq(Phases) /\ transcript \in Seq(Entries)
    BY DEF Init
  <2>3. streak \in 0 .. Consecutive - 1 /\ polls \in 0 .. MaxPolls - 1
    BY PollAssumption DEF Init
  <2>4. /\ lab \in {"absent", "foreign", "partial", "up"}
        /\ cfg \in {"correct", "faulty"}
        /\ sess \in [Routers -> BOOLEAN] /\ route \in [Routers -> BOOLEAN]
        /\ late \subseteq Commands
        /\ flaps \in 0 .. MaxFlaps
    BY PollAssumption DEF Init, AllDown
  <2>5. raised \in BOOLEAN /\ onsetOK \in BOOLEAN /\ recoveryOK \in BOOLEAN
    BY DEF Init
  <2> QED
    BY <2>1, <2>2, <2>3, <2>4, <2>5 DEF TypeOK
<1>2. TypeOK /\ [Next]_vars => TypeOK'
  <2> SUFFICES ASSUME TypeOK, [Next]_vars PROVE TypeOK'
    OBVIOUS
  <2>1. CASE StartLab
    BY <2>1, RaiseTypes DEF StartLab, TypeOK, Locations
  <2>2. CASE ObserveTarget
    BY <2>2, Observed DEF ObserveTarget, TypeOK, NetworkUnused, net, Routers
  <2>3. CASE CollectorFails
    BY <2>3, RaiseTypes, NoViewTyped, PollAssumption DEF CollectorFails, TypeOK, NetworkUnused, net, Locations
  <2>4. CASE Converge
    <3> DEFINE ok == {"target_established", "peer_established"}
                       \subseteq Passing(view, Observe("peer"))
    <3>1. PollAgain(ok) \/ PollTimesOut(ok) \/ PollSucceeds(ok)
      BY <2>4 DEF Converge
    <3>2. pc' \in Locations
      BY <2>4, RaiseTypes DEF Converge, TypeOK, PollAgain, PollTimesOut, Locations
    <3> HIDE DEF ok
    <3> QED
      BY <2>4, <3>1, <3>2, PollTypes, NoViewTyped
      DEF Converge, TypeOK, NetworkUnused, net
  <2>5. CASE CollectBaseline
    BY <2>5, NoViewTyped DEF CollectBaseline, TypeOK, NetworkUnused, net, Locations
  <2>6. CASE ValidatePreconditions
    <3>1. ledger' \in Seq(Phases) /\ pc' \in Locations /\ raised' \in BOOLEAN
      <4>1. CASE ledger' = Append(ledger, "PRECHECKED") /\ pc' = "inject" /\ UNCHANGED raised
        BY <4>1 DEF TypeOK, Phases, Locations
      <4>2. CASE Raise /\ UNCHANGED ledger
        BY <4>2, RaiseTypes DEF TypeOK, Locations
      <4> QED
        BY <2>6, <4>1, <4>2 DEF ValidatePreconditions
    <3> QED
      BY <2>6, <3>1, NoViewTyped DEF ValidatePreconditions, TypeOK, NetworkUnused, net
  <2>7. CASE Inject
    BY <2>7, EntryTypes DEF Inject, TypeOK, NetworkUnused, net, Locations, Phases, Commands
  <2>8. CASE InjectReturns
    <3>1. PICK s \in ExecStatus :
            /\ Executed("inject", s)
            /\ transcript' = Append(transcript, Completed("inject", s))
            /\ \/ /\ ledger' = Append(ledger, "INJECTED")
                  /\ pc' = "onset"
                  /\ UNCHANGED raised
               \/ Raise /\ UNCHANGED ledger
      BY <2>8 DEF InjectReturns, Failed
    <3>2. /\ cfg' \in {"correct", "faulty"} /\ late' \subseteq Commands
          /\ sess' \in [Routers -> BOOLEAN] /\ route' \in [Routers -> BOOLEAN]
      BY <3>1, ExecutedTypes DEF Commands
    <3>3. transcript' \in Seq(Entries)
      BY <3>1, EntryTypes DEF Commands, TypeOK
    <3>4. ledger' \in Seq(Phases)
      <4>1. "INJECTED" \in Phases
        BY DEF Phases
      <4> QED
        BY <3>1, <4>1, PhasesAppended DEF TypeOK
    <3>6. pc' \in Locations /\ raised' \in BOOLEAN
      BY <3>1, RaiseTypes DEF TypeOK, Locations
    <3>5. UNCHANGED <<family, streak, polls, view, onsetOK, recoveryOK,
                      onsetBundle, record, lab, flaps>>
      BY <2>8 DEF InjectReturns, Failed
    <3> QED
      BY <3>2, <3>3, <3>4, <3>5, <3>6 DEF TypeOK
  <2>9. CASE VerifyOnset
    <3> DEFINE ok == Checks[family].onset \subseteq Passing(view, Observe("peer"))
    <3>1. PollAgain(ok) \/ PollTimesOut(ok) \/ PollSucceeds(ok)
      BY <2>9 DEF VerifyOnset
    <3>2. pc' \in Locations
      BY <2>9, RaiseTypes DEF VerifyOnset, TypeOK, PollAgain, PollTimesOut, Locations
    <3>3. ledger' \in Seq(Phases)
      <4>1. "ONSET_VERIFIED" \in Phases
        BY DEF Phases
      <4>2. ledger' = ledger \/ ledger' = Append(ledger, "ONSET_VERIFIED")
        BY <2>9 DEF VerifyOnset
      <4> QED
        BY <4>1, <4>2, PhasesAppended DEF TypeOK
    <3>4. onsetOK' \in BOOLEAN
      BY <2>9 DEF VerifyOnset, TypeOK
    <3>5. /\ streak' \in 0 .. Consecutive - 1
          /\ polls' \in 0 .. MaxPolls - 1
          /\ raised' \in BOOLEAN
      BY <3>1, PollTypes
    <3>6. /\ view' = NoView
          /\ UNCHANGED <<family, transcript, recoveryOK, onsetBundle, record, net>>
      BY <2>9 DEF VerifyOnset, NetworkUnused
    <3> QED
      BY <3>2, <3>3, <3>4, <3>5, <3>6, NoViewTyped DEF TypeOK, net
  <2>10. CASE CollectOnsetBundle
    BY <2>10, Observed, NoViewTyped DEF CollectOnsetBundle, TypeOK, NetworkUnused, net, Locations, Views, Bundles, Routers
  <2>11. CASE Restore
    BY <2>11, EntryTypes DEF Restore, TypeOK, NetworkUnused, net, Locations, Phases, Commands
  <2>12. CASE RevertReturns
    <3>1. PICK s \in ExecStatus :
            /\ Executed("revert", s)
            /\ \/ transcript' = Append(transcript, Completed("revert", s))
               \/ transcript' =
                    Append(Append(transcript, Completed("revert", s)), Pending("clear"))
            /\ \/ Raise /\ UNCHANGED ledger
               \/ pc' = "clearing" /\ UNCHANGED <<ledger, raised>>
               \/ /\ ledger' = Append(ledger, "RESTORED")
                  /\ AfterRestore
                  /\ UNCHANGED raised
      BY <2>12 DEF RevertReturns, Failed
    <3>2. /\ cfg' \in {"correct", "faulty"} /\ late' \subseteq Commands
          /\ sess' \in [Routers -> BOOLEAN] /\ route' \in [Routers -> BOOLEAN]
      BY <3>1, ExecutedTypes DEF Commands
    <3>3. transcript' \in Seq(Entries)
      <4>1. Completed("revert", s) \in Entries /\ Pending("clear") \in Entries
        BY EntryTypes DEF Commands, ExecStatus
      <4>2. Append(transcript, Completed("revert", s)) \in Seq(Entries)
        BY <4>1, AppendTyped DEF TypeOK
      <4>3. Append(Append(transcript, Completed("revert", s)), Pending("clear"))
              \in Seq(Entries)
        BY <4>1, <4>2, AppendTyped
      <4> QED
        BY <3>1, <4>2, <4>3
    <3>4. ledger' \in Seq(Phases)
      <4>1. "RESTORED" \in Phases
        BY DEF Phases
      <4> QED
        BY <3>1, <4>1, PhasesAppended DEF TypeOK
    <3>6. pc' \in Locations /\ raised' \in BOOLEAN
      BY <3>1, RaiseTypes DEF TypeOK, Locations, AfterRestore
    <3>5. UNCHANGED <<family, streak, polls, view, onsetOK, recoveryOK,
                      onsetBundle, record, lab, flaps>>
      BY <2>12 DEF RevertReturns, Failed
    <3> QED
      BY <3>2, <3>3, <3>4, <3>5, <3>6 DEF TypeOK
  <2>13. CASE ClearReturns
    BY <2>13, EntryTypes, ExecutedTypes DEF ClearReturns, TypeOK, Locations, Phases, Commands, AfterRestore
  <2>14. CASE VerifyRecovery
    <3> DEFINE ok == Checks[family].recovery \subseteq Passing(view, Observe("peer"))
    <3>1. PollAgain(ok) \/ PollTimesOut(ok) \/ PollSucceeds(ok)
      BY <2>14 DEF VerifyRecovery
    <3>2. pc' \in Locations
      BY <2>14, RaiseTypes DEF VerifyRecovery, TypeOK, PollAgain, PollTimesOut, Locations
    <3>3. ledger' \in Seq(Phases)
      <4>1. "RECOVERY_VERIFIED" \in Phases
        BY DEF Phases
      <4>2. ledger' = ledger \/ ledger' = Append(ledger, "RECOVERY_VERIFIED")
        BY <2>14 DEF VerifyRecovery
      <4> QED
        BY <4>1, <4>2, PhasesAppended DEF TypeOK
    <3>4. recoveryOK' \in BOOLEAN
      BY <2>14 DEF VerifyRecovery, TypeOK
    <3>5. /\ streak' \in 0 .. Consecutive - 1
          /\ polls' \in 0 .. MaxPolls - 1
          /\ raised' \in BOOLEAN
      BY <3>1, PollTypes
    <3>6. /\ view' = NoView
          /\ UNCHANGED <<family, transcript, onsetOK, onsetBundle, record, net>>
      BY <2>14 DEF VerifyRecovery, NetworkUnused
    <3> QED
      BY <3>2, <3>3, <3>4, <3>5, <3>6, NoViewTyped DEF TypeOK, net
  <2>15. CASE CollectRecoveryBundle
    BY <2>15, NoViewTyped DEF CollectRecoveryBundle, TypeOK, NetworkUnused, net, Locations
  <2>16. CASE RejectPrecondition
    BY <2>16, RaiseTypes, NoViewTyped DEF RejectPrecondition, TypeOK, NetworkUnused, net, Locations
  <2>17. CASE BuildRecord
    BY <2>17, RaiseTypes DEF BuildRecord, TypeOK, NetworkUnused, net, Locations
  <2>18. CASE StopLab
    BY <2>18 DEF StopLab, TypeOK, Locations, TornDown, AllDown
  <2>19. CASE Assemble
    BY <2>19 DEF Assemble, TypeOK, NetworkUnused, net, Locations
  <2>20. CASE LateCommand
    BY <2>20, LandsTypes DEF LateCommand, TypeOK, run
  <2>21. CASE SessionConverges
    BY <2>21 DEF SessionConverges, TypeOK, run, SessionPossible
  <2>22. CASE RouteConverges
    BY <2>22 DEF RouteConverges, TypeOK, run
  <2>23. CASE SessionFlaps
    BY <2>23, PollAssumption DEF SessionFlaps, TypeOK, run, AllDown
  <2>24. CASE UNCHANGED vars
    BY <2>24 DEF TypeOK, vars, run, net
  <2>25. CASE RunnerRaises
    BY <2>25, RunnerLeaves, ExecutedTypes DEF TypeOK, Locations, ExecStatus
  <2> QED
    BY <2>1, <2>2, <2>3, <2>4, <2>5, <2>6, <2>7, <2>8, <2>9, <2>10, <2>11, <2>12, <2>13, <2>14, <2>15, <2>16, <2>17, <2>18, <2>19, <2>20, <2>21, <2>22, <2>23, <2>24, <2>25 DEF Next, Step, Environment, Finished
<1> QED
  BY <1>1, <1>2, PTL DEF Spec
-----------------------------------------------------------------------------
(* The ledger                                                              *)

LEMMA LastAppended ==
  ASSUME NEW q \in Seq(Phases), NEW p \in Phases
  PROVE  LastPhase(Append(q, p)) = p
  BY DEF LastPhase

LEMMA LastIsPhase ==
  ASSUME NEW q \in Seq(Phases)
  PROVE  LastPhase(q) \in Phases
<1>1. CASE q = <<>>
  BY <1>1 DEF LastPhase, Phases
<1>2. CASE q # <<>>
  BY <1>2 DEF LastPhase
<1> QED
  BY <1>1, <1>2

\* A legal path stays legal when a phase that its last phase allows follows.
LEMMA PathExtends ==
  ASSUME NEW q \in Seq(Phases), LegalPath(q),
         NEW p \in LegalTransitions[LastPhase(q)]
  PROVE  LegalPath(Append(q, p))
<1> SUFFICES ASSUME NEW i \in 1 .. Len(Append(q, p))
             PROVE  Append(q, p)[i] \in
                      LegalTransitions[IF i = 1 THEN "PENDING" ELSE Append(q, p)[i - 1]]
  BY DEF LegalPath
<1>1. CASE i \in 1 .. Len(q)
  <2>1. Append(q, p)[i] = q[i]
    BY <1>1
  <2>2. i # 1 => Append(q, p)[i - 1] = q[i - 1]
    BY <1>1
  <2>3. q[i] \in LegalTransitions[IF i = 1 THEN "PENDING" ELSE q[i - 1]]
    BY <1>1 DEF LegalPath
  <2> QED
    BY <2>1, <2>2, <2>3
<1>2. CASE i = Len(q) + 1
  <2>1. Append(q, p)[i] = p
    BY <1>2
  <2>2. (IF i = 1 THEN "PENDING" ELSE Append(q, p)[i - 1]) = LastPhase(q)
    BY <1>2 DEF LastPhase
  <2> QED
    BY <2>1, <2>2
<1> QED
  BY <1>1, <1>2

\* The phase that follows an append, or no append.
LEMMA CurrentAfter ==
  ASSUME TypeOK
  PROVE  /\ Current \in Phases
         /\ \A p \in Phases : ledger' = Append(ledger, p) => Current' = p
         /\ UNCHANGED ledger => UNCHANGED Current
<1>1. Current \in Phases
  BY LastIsPhase DEF TypeOK, Current
<1>2. ASSUME NEW p \in Phases, ledger' = Append(ledger, p) PROVE Current' = p
  BY <1>2, LastAppended DEF TypeOK, Current
<1>3. UNCHANGED ledger => UNCHANGED Current
  BY DEF Current
<1> QED
  BY <1>1, <1>2, <1>3

\* PhasesAt, location by location.
LEMMA PhasesAtValues ==
  /\ \A l \in {"start", "converge", "baseline", "precheck", "reject"} :
       PhasesAt[l] = {"PENDING"}
  /\ PhasesAt["inject"] = {"PRECHECKED"}
  /\ PhasesAt["injecting"] = {"INJECTING"}
  /\ PhasesAt["onset"] = {"INJECTED"}
  /\ PhasesAt["onsetBundle"] = {"ONSET_VERIFIED"}
  /\ PhasesAt["restore"] = InjectedPhases
  /\ PhasesAt["reverting"] = {"RESTORING"}
  /\ PhasesAt["clearing"] = {"RESTORING"}
  /\ PhasesAt["recovery"] = {"RESTORED"}
  /\ PhasesAt["recoveryBundle"] = {"RECOVERY_VERIFIED"}
  /\ PhasesAt["gate"] = {"RECOVERY_VERIFIED"}
  /\ \A l \in {"stop", "assemble", "done"} : PhasesAt[l] = Phases \ InjectedPhases
  BY DEF PhasesAt, Locations

-----------------------------------------------------------------------------
(* The ledger and the program counter                                      *)

\* An exception leads to the finally block that the ledger calls for.
LEMMA RaiseKeepsControl ==
  ASSUME TypeOK, Raise, UNCHANGED ledger
  PROVE  ControlInv'
  BY CurrentAfter, PhasesAtValues DEF Raise, ControlInv, InjectedPhases

\* A step that leaves the run alone leaves ControlInv alone.
LEMMA ControlUndisturbed ==
  ASSUME ControlInv, UNCHANGED <<ledger, pc, raised>>
  PROVE  ControlInv'
  BY DEF ControlInv, Current

\* The ledger's phase is one that the run's place in the lifecycle allows, and after an
\* exception only the restoration and the stop are left (orchestrator/live_run.py).
THEOREM ControlCorrect == Spec => []ControlInv
<1>1. Init => ControlInv
  BY PhasesAtValues DEF Init, ControlInv, Current, LastPhase
<1>2. TypeOK /\ ControlInv /\ [Next]_vars => ControlInv'
  <2> SUFFICES ASSUME TypeOK, ControlInv, [Next]_vars PROVE ControlInv'
    OBVIOUS
  <2> USE CurrentAfter, PhasesAtValues
  <2>1. CASE StartLab
    <3>1. CASE UNCHANGED raised /\ pc = "start" /\ pc' = "converge"
      BY <2>1, <3>1 DEF StartLab, ControlInv
    <3> QED
      BY <2>1, <3>1, RaiseKeepsControl DEF StartLab
  <2>2. CASE ObserveTarget
    BY <2>2, ControlUndisturbed DEF ObserveTarget
  <2>3. CASE CollectorFails
    BY <2>3, RaiseKeepsControl DEF CollectorFails
  <2>4. CASE Converge
    <3>1. CASE UNCHANGED <<ledger, pc, raised>>
      BY <3>1, ControlUndisturbed
    <3>2. CASE Raise
      BY <2>4, <3>2, RaiseKeepsControl DEF Converge
    <3>3. CASE UNCHANGED raised /\ pc' \in {"reject", "baseline"}
      BY <2>4, <3>3 DEF Converge, ControlInv
    <3> QED
      BY <2>4, <3>1, <3>2, <3>3 DEF Converge, PollAgain, PollTimesOut, PollSucceeds
  <2>5. CASE CollectBaseline
    BY <2>5 DEF CollectBaseline, ControlInv
  <2>6. CASE ValidatePreconditions
    <3>1. CASE ledger' = Append(ledger, "PRECHECKED") /\ pc' = "inject" /\ UNCHANGED raised
      BY <2>6, <3>1 DEF ValidatePreconditions, ControlInv, Phases
    <3> QED
      BY <2>6, <3>1, RaiseKeepsControl DEF ValidatePreconditions
  <2>7. CASE Inject
    BY <2>7 DEF Inject, ControlInv, Phases
  <2>8. CASE InjectReturns
    <3>1. CASE ledger' = Append(ledger, "INJECTED") /\ pc' = "onset" /\ UNCHANGED raised
      BY <2>8, <3>1 DEF InjectReturns, Failed, ControlInv, Phases
    <3> QED
      BY <2>8, <3>1, RaiseKeepsControl DEF InjectReturns, Failed
  <2>9. CASE VerifyOnset
    <3>1. CASE UNCHANGED <<ledger, pc, raised>>
      BY <3>1, ControlUndisturbed
    <3>2. CASE Raise /\ UNCHANGED ledger
      BY <3>2, RaiseKeepsControl
    <3>3. CASE /\ ledger' = Append(ledger, "ONSET_VERIFIED")
               /\ pc' = "onsetBundle" /\ UNCHANGED raised
      BY <2>9, <3>3 DEF VerifyOnset, ControlInv, Phases
    <3> QED
      BY <2>9, <3>1, <3>2, <3>3 DEF VerifyOnset, PollAgain, PollTimesOut, PollSucceeds
  <2>10. CASE CollectOnsetBundle
    BY <2>10 DEF CollectOnsetBundle, ControlInv, InjectedPhases
  <2>11. CASE Restore
    BY <2>11 DEF Restore, ControlInv, Phases
  <2>12. CASE RevertReturns
    <3>1. CASE Raise /\ UNCHANGED ledger
      BY <3>1, RaiseKeepsControl
    <3>2. CASE pc' = "clearing" /\ UNCHANGED <<ledger, raised>>
      BY <2>12, <3>2 DEF RevertReturns, Failed, ControlInv
    <3>3. CASE ledger' = Append(ledger, "RESTORED") /\ AfterRestore /\ UNCHANGED raised
      BY <2>12, <3>3 DEF RevertReturns, Failed, ControlInv, AfterRestore, Phases, InjectedPhases
    <3> QED
      BY <2>12, <3>1, <3>2, <3>3 DEF RevertReturns, Failed
  <2>13. CASE ClearReturns
    BY <2>13 DEF ClearReturns, ControlInv, AfterRestore, Phases, InjectedPhases
  <2>14. CASE VerifyRecovery
    <3>1. CASE UNCHANGED <<ledger, pc, raised>>
      BY <3>1, ControlUndisturbed
    <3>2. CASE Raise /\ UNCHANGED ledger
      BY <3>2, RaiseKeepsControl
    <3>3. CASE /\ ledger' = Append(ledger, "RECOVERY_VERIFIED")
               /\ pc' = "recoveryBundle" /\ UNCHANGED raised
      BY <2>14, <3>3 DEF VerifyRecovery, ControlInv, Phases
    <3> QED
      BY <2>14, <3>1, <3>2, <3>3 DEF VerifyRecovery, PollAgain, PollTimesOut, PollSucceeds
  <2>15. CASE CollectRecoveryBundle
    BY <2>15 DEF CollectRecoveryBundle, ControlInv
  <2>16. CASE RejectPrecondition
    <3>1. CASE pc' = "stop" /\ UNCHANGED raised
      BY <2>16, <3>1 DEF RejectPrecondition, ControlInv, Phases, InjectedPhases
    <3> QED
      BY <2>16, <3>1, RaiseKeepsControl DEF RejectPrecondition
  <2>17. CASE BuildRecord
    <3>1. CASE pc' = "stop" /\ UNCHANGED raised
      BY <2>17, <3>1 DEF BuildRecord, ControlInv, Phases, InjectedPhases
    <3> QED
      BY <2>17, <3>1, RaiseKeepsControl DEF BuildRecord
  <2>18. CASE StopLab
    BY <2>18 DEF StopLab, ControlInv
  <2>19. CASE Assemble
    BY <2>19 DEF Assemble, ControlInv
  <2>20. CASE Environment
    BY <2>20, ControlUndisturbed
    DEF Environment, LateCommand, SessionConverges, RouteConverges, SessionFlaps, run
  <2>21. CASE UNCHANGED vars
    BY <2>21, ControlUndisturbed DEF vars, run
  <2>22. CASE RunnerRaises
    BY <2>22, RunnerLeaves, RaiseKeepsControl
  <2> QED
    BY <2>1, <2>2, <2>3, <2>4, <2>5, <2>6, <2>7, <2>8, <2>9, <2>10, <2>11, <2>12, <2>13, <2>14, <2>15, <2>16, <2>17, <2>18, <2>19, <2>20, <2>21, <2>22 DEF Next, Step, Finished
<1> QED
  BY <1>1, <1>2, TypeCorrect, PTL DEF Spec

\* A step appends a phase that the ledger accepts, in the middle of a run.
Appends(p) ==
  /\ p \in LegalTransitions[Current]
  /\ ledger' = Append(ledger, p)
  /\ p = "RESTORING" => pc = "restore"
  /\ pc \notin {"stop", "assemble", "done"} /\ pc' \notin {"assemble", "done"}
  /\ UNCHANGED record

\* Every step appends nothing to the ledger, or a phase it accepts.
LEMMA AppendsAreLegal ==
  ASSUME TypeOK, ControlInv, [Next]_vars
  PROVE  UNCHANGED ledger \/ \E p \in Phases : Appends(p)
<1> USE PhasesAtValues DEF ControlInv, LegalTransitions, Phases, Appends
<1>1. ValidatePreconditions => UNCHANGED ledger \/ Appends("PRECHECKED")
  BY DEF ValidatePreconditions
<1>2. Inject => Appends("INJECTING")
  BY DEF Inject
<1>3. InjectReturns => UNCHANGED ledger \/ Appends("INJECTED")
  BY DEF InjectReturns, Failed
<1>4. VerifyOnset => UNCHANGED ledger \/ Appends("ONSET_VERIFIED")
  BY DEF VerifyOnset
<1>5. Restore => Appends("RESTORING")
  BY DEF Restore, InjectedPhases
<1>6. RevertReturns => UNCHANGED ledger \/ Appends("RESTORED")
  BY DEF RevertReturns, Failed, AfterRestore
<1>7. ClearReturns => Appends("RESTORED")
  BY DEF ClearReturns, AfterRestore
<1>8. VerifyRecovery => UNCHANGED ledger \/ Appends("RECOVERY_VERIFIED")
  BY DEF VerifyRecovery
<1>9. \/ StartLab \/ ObserveTarget \/ CollectorFails \/ Converge
      \/ CollectBaseline \/ CollectOnsetBundle \/ CollectRecoveryBundle
      \/ RejectPrecondition \/ BuildRecord \/ StopLab \/ Assemble
      \/ RunnerRaises \/ Environment \/ UNCHANGED vars
      => UNCHANGED ledger
  BY DEF StartLab, ObserveTarget, CollectorFails, Converge, CollectBaseline,
         CollectOnsetBundle, CollectRecoveryBundle, RejectPrecondition,
         BuildRecord, StopLab, Assemble, RunnerRaises, Environment, LateCommand,
         SessionConverges, RouteConverges, SessionFlaps, vars, run
<1> HIDE DEF Appends
<1> QED
  BY <1>1, <1>2, <1>3, <1>4, <1>5, <1>6, <1>7, <1>8, <1>9 DEF Next, Step, Finished

\* LegalTransitions is never violated: no call of a run, on any failure path,
\* can make Ledger.append raise PhaseTransitionError.
THEOREM LedgerLegal == Spec => []LedgerIsLegal
<1>1. Init => LedgerIsLegal
  BY DEF Init, LedgerIsLegal, LegalPath
<1>2. TypeOK /\ ControlInv /\ LedgerIsLegal /\ [Next]_vars => LedgerIsLegal'
  <2> SUFFICES ASSUME TypeOK, ControlInv, LedgerIsLegal, [Next]_vars
               PROVE  LedgerIsLegal'
    OBVIOUS
  <2>1. CASE UNCHANGED ledger
    BY <2>1 DEF LedgerIsLegal
  <2>2. ASSUME NEW p \in Phases, p \in LegalTransitions[Current],
               ledger' = Append(ledger, p)
        PROVE  LedgerIsLegal'
    BY <2>2, PathExtends DEF LedgerIsLegal, Current, TypeOK
  <2> QED
    BY <2>1, <2>2, AppendsAreLegal DEF Appends
<1> QED
  BY <1>1, <1>2, TypeCorrect, ControlCorrect, PTL DEF Spec

-----------------------------------------------------------------------------
(* The end of a run                                                        *)

\* Every way to the end of a run that raises nothing has a verdict, and a record is
\* assembled only when the lab is gone (the finally of live_run.py).
THEOREM VerdictCorrect == Spec => []VerdictInv
<1>1. Init => VerdictInv
  BY DEF Init, VerdictInv
<1>2. TypeOK /\ ControlInv /\ VerdictInv /\ [Next]_vars => VerdictInv'
  <2> SUFFICES ASSUME TypeOK, ControlInv, VerdictInv, [Next]_vars PROVE VerdictInv'
    OBVIOUS
  <2> USE DEF VerdictInv
  <2>1. ASSUME Raise, UNCHANGED record, pc \notin {"stop", "assemble", "done"}
        PROVE  VerdictInv'
    BY <2>1 DEF Raise
  <2>2. CASE StartLab
    BY <2>1, <2>2 DEF StartLab
  <2>3. CASE ObserveTarget \/ CollectorFails
    BY <2>1, <2>3 DEF ObserveTarget, CollectorFails, Sampling, NetworkUnused, net
  <2>4. CASE Converge
    BY <2>1, <2>4 DEF Converge, PollAgain, PollTimesOut, PollSucceeds
  <2>5. CASE CollectBaseline \/ CollectOnsetBundle \/ CollectRecoveryBundle
    BY <2>5 DEF CollectBaseline, CollectOnsetBundle, CollectRecoveryBundle
  <2>6. CASE ValidatePreconditions
    BY <2>1, <2>6 DEF ValidatePreconditions
  <2>7. CASE Inject \/ InjectReturns
    BY <2>1, <2>7 DEF Inject, InjectReturns
  <2>8. CASE VerifyOnset \/ VerifyRecovery
    BY <2>1, <2>8 DEF VerifyOnset, VerifyRecovery, PollAgain, PollTimesOut, PollSucceeds
  <2>9. CASE Restore \/ RevertReturns
    BY <2>1, <2>9 DEF Restore, RevertReturns, AfterRestore
  <2>10. CASE ClearReturns
    BY <2>10 DEF ClearReturns, AfterRestore
  <2>11. CASE RejectPrecondition \/ BuildRecord
    BY <2>1, <2>11 DEF RejectPrecondition, BuildRecord
  <2>12. CASE StopLab
    BY <2>12 DEF StopLab, TornDown
  <2>13. CASE Assemble
    BY <2>13 DEF Assemble, ControlInv, NetworkUnused, net
  <2>14. CASE Environment \/ UNCHANGED vars
    BY <2>14 DEF Environment, LateCommand, SessionConverges, RouteConverges,
                 SessionFlaps, vars, run, net
  <2>15. CASE RunnerRaises
    BY <2>1, <2>15, RunnerLeaves
  <2> QED
    BY <2>2, <2>3, <2>4, <2>5, <2>6, <2>7, <2>8, <2>9, <2>10, <2>11, <2>12, <2>13, <2>14, <2>15
    DEF Next, Step, Finished
<1> QED
  BY <1>1, <1>2, TypeCorrect, ControlCorrect, PTL DEF Spec

\* A run that returns a result has left nothing of its lab behind.
THEOREM ReturnedTornDown == Spec => []ReturnedMeansTornDown
<1>1. VerdictInv => ReturnedMeansTornDown
  BY DEF VerdictInv, ReturnedMeansTornDown
<1> QED
  BY <1>1, VerdictCorrect, PTL

-----------------------------------------------------------------------------
(* The transcript                                                          *)

\* What an append adds to the elements of a sequence.
LEMMA HasAppended ==
  ASSUME NEW S, NEW q \in Seq(S), NEW e \in S, NEW x
  PROVE  (\E i \in 1 .. Len(Append(q, e)) : Append(q, e)[i] = x)
           <=> (\E i \in 1 .. Len(q) : q[i] = x) \/ e = x
<1>1. ASSUME NEW i \in 1 .. Len(Append(q, e)), Append(q, e)[i] = x
      PROVE  (\E j \in 1 .. Len(q) : q[j] = x) \/ e = x
  <2>1. i \in 1 .. Len(q) \/ i = Len(q) + 1
    OBVIOUS
  <2>2. i \in 1 .. Len(q) => Append(q, e)[i] = q[i]
    OBVIOUS
  <2>3. i = Len(q) + 1 => Append(q, e)[i] = e
    OBVIOUS
  <2> QED
    BY <1>1, <2>1, <2>2, <2>3
<1>2. ASSUME NEW i \in 1 .. Len(q), q[i] = x
      PROVE  \E j \in 1 .. Len(Append(q, e)) : Append(q, e)[j] = x
  <2>1. i \in 1 .. Len(Append(q, e)) /\ Append(q, e)[i] = x
    BY <1>2
  <2> QED
    BY <2>1
<1>3. ASSUME e = x
      PROVE  \E j \in 1 .. Len(Append(q, e)) : Append(q, e)[j] = x
  <2>1. Len(q) + 1 \in 1 .. Len(Append(q, e)) /\ Append(q, e)[Len(q) + 1] = x
    BY <1>3
  <2> QED
    BY <2>1
<1> QED
  BY <1>1, <1>2, <1>3

\* A completed entry is never a write-ahead entry, and each command has its own.
LEMMA EntriesDiffer ==
  /\ \A c, d \in Commands, s \in ExecStatus : Completed(c, s) # Pending(d)
  /\ \A c, d \in Commands : Pending(c) = Pending(d) => c = d
  BY DEF Pending, Completed

\* What has been issued once the transcript has grown by an entry.
LEMMA IssuedAfterPending ==
  ASSUME TypeOK, NEW c \in Commands, transcript' = Append(transcript, Pending(c)),
         NEW d \in Commands
  PROVE  Issued(d)' <=> Issued(d) \/ c = d
<1>1. transcript \in Seq(Entries) /\ Pending(c) \in Entries
  BY EntryTypes DEF TypeOK
<1>2. Issued(d)' <=> Issued(d) \/ Pending(c) = Pending(d)
  BY <1>1, HasAppended DEF Issued
<1> QED
  BY <1>2, EntriesDiffer

LEMMA IssuedAfterCompleted ==
  ASSUME TypeOK, NEW c \in Commands, NEW s \in ExecStatus,
         transcript' = Append(transcript, Completed(c, s)),
         NEW d \in Commands
  PROVE  Issued(d)' <=> Issued(d)
<1>1. transcript \in Seq(Entries) /\ Completed(c, s) \in Entries
  BY EntryTypes DEF TypeOK
<1>2. Issued(d)' <=> Issued(d) \/ Completed(c, s) = Pending(d)
  BY <1>1, HasAppended DEF Issued
<1> QED
  BY <1>2, EntriesDiffer

LEMMA IssuedAfterBoth ==
  ASSUME TypeOK, NEW c \in Commands, NEW b \in Commands, NEW s \in ExecStatus,
         transcript' = Append(Append(transcript, Completed(c, s)), Pending(b)),
         NEW d \in Commands
  PROVE  Issued(d)' <=> Issued(d) \/ b = d
<1> DEFINE once == Append(transcript, Completed(c, s))
<1>1. /\ transcript \in Seq(Entries) /\ Completed(c, s) \in Entries
      /\ Pending(b) \in Entries
  BY EntryTypes DEF TypeOK
<1>2. once \in Seq(Entries)
  BY <1>1, AppendTyped
<1>3. (\E i \in 1 .. Len(once) : once[i] = Pending(d))
        <=> Issued(d) \/ Completed(c, s) = Pending(d)
  BY <1>1, HasAppended DEF Issued
<1>4. Issued(d)' <=> (\E i \in 1 .. Len(once) : once[i] = Pending(d)) \/ Pending(b) = Pending(d)
  <2> transcript' = Append(once, Pending(b))
    OBVIOUS
  <2> HIDE DEF once
  <2> QED
    BY <1>1, <1>2, HasAppended DEF Issued
<1> QED
  BY <1>3, <1>4, EntriesDiffer

\* The ledger forgets no phase.
LEMMA AppendedStays ==
  ASSUME TypeOK, NEW p \in Phases, ledger' = Append(ledger, p), NEW q \in Phases
  PROVE  Appended(q)' <=> Appended(q) \/ p = q
<1>1. ledger \in Seq(Phases)
  BY DEF TypeOK
<1> QED
  BY <1>1, HasAppended DEF Appended

\* A command executed leaves late only itself.
LEMMA ExecutedLeavesLate ==
  ASSUME NEW c \in Commands, NEW s \in ExecStatus, Executed(c, s)
  PROVE  late' = late \/ (s = "timeout" /\ late' = late \cup {c})
  BY DEF Executed

\* IssueInv survives a step that issues nothing, moves the ledger within the
\* same stage of the run and mutates only what has been announced.
LEMMA IssueUndisturbed ==
  ASSUME TypeOK, IssueInv,
         \A c \in Commands : Issued(c)' <=> Issued(c),
         Current' \in Untouched <=> Current \in Untouched,
         Current' \in Reverted <=> Current \in Reverted,
         Appended("INJECTING") => Appended("INJECTING")',
         cfg' = "faulty" \/ late' # {} => Issued("inject")
  PROVE  IssueInv'
  BY DEF IssueInv, Commands

\* A step that touches neither the ledger nor the transcript.
LEMMA IssueQuiet ==
  ASSUME TypeOK, IssueInv, UNCHANGED <<ledger, transcript>>,
         cfg' = "faulty" \/ late' # {} => cfg = "faulty" \/ late # {} \/ Issued("inject")
  PROVE  IssueInv'
  BY DEF IssueInv, Issued, Appended, Current

\* What was issued is what the phases say: the fault from INJECTING on, its revert
\* from REVERTING on, and no configuration is faulty otherwise (runtime/mutation.py).
THEOREM IssueCorrect == Spec => []IssueInv
<1>1. Init => IssueInv
  BY DEF Init, IssueInv, Issued, Current, LastPhase, Untouched, Reverted
<1>2. TypeOK /\ ControlInv /\ IssueInv /\ [Next]_vars => IssueInv'
  <2> SUFFICES ASSUME TypeOK, ControlInv, IssueInv, [Next]_vars PROVE IssueInv'
    OBVIOUS
  <2>1. CASE ValidatePreconditions
    <3>1. UNCHANGED <<transcript, cfg, late>>
      BY <2>1 DEF ValidatePreconditions, NetworkUnused, net
    <3>2. CASE ledger' = Append(ledger, "PRECHECKED")
      <4>1. Current = "PENDING" /\ Current' = "PRECHECKED"
        BY <2>1, <3>2, CurrentAfter, PhasesAtValues DEF ValidatePreconditions, ControlInv, Phases
      <4> QED
        BY <3>1, <4>1 DEF IssueInv, Issued, Untouched, Reverted
    <3> QED
      BY <2>1, <3>1, <3>2, IssueQuiet DEF ValidatePreconditions
  <2>2. CASE Inject
    <3>1. Current = "PRECHECKED" /\ Current' = "INJECTING"
      BY <2>2, CurrentAfter, PhasesAtValues DEF Inject, ControlInv, Phases
    <3>2. Issued("inject")' /\ (Issued("revert")' <=> Issued("revert"))
      BY <2>2, IssuedAfterPending DEF Inject, Commands
    <3>3. Appended("INJECTING")'
      BY <2>2, AppendedStays DEF Inject, Phases
    <3> QED
      BY <3>1, <3>2, <3>3 DEF IssueInv, Untouched, Reverted
  <2>3. CASE InjectReturns
    <3>1. PICK s \in ExecStatus :
            /\ transcript' = Append(transcript, Completed("inject", s))
            /\ ledger' = ledger \/ ledger' = Append(ledger, "INJECTED")
      BY <2>3 DEF InjectReturns, Failed
    <3>2. Current = "INJECTING" /\ Current' \in {"INJECTING", "INJECTED"}
      BY <2>3, <3>1, CurrentAfter, PhasesAtValues DEF InjectReturns, Failed, ControlInv, Phases
    <3>3. \A c \in Commands : Issued(c)' <=> Issued(c)
      BY <3>1, IssuedAfterCompleted DEF Commands
    <3>4. Appended("INJECTING") => Appended("INJECTING")'
      <4>1. CASE ledger' = ledger
        BY <4>1 DEF Appended
      <4>2. CASE ledger' = Append(ledger, "INJECTED")
        BY <4>2, AppendedStays DEF Phases
      <4> QED
        BY <3>1, <4>1, <4>2
    <3> QED
      BY <3>2, <3>3, <3>4, IssueUndisturbed DEF IssueInv, Untouched, Reverted
  <2>4. CASE VerifyOnset
    <3>1. UNCHANGED <<transcript, cfg, late>>
      BY <2>4 DEF VerifyOnset, NetworkUnused, net
    <3>2. CASE ledger' = Append(ledger, "ONSET_VERIFIED")
      <4>1. Current = "INJECTED" /\ Current' = "ONSET_VERIFIED"
        BY <2>4, <3>2, CurrentAfter, PhasesAtValues DEF VerifyOnset, ControlInv, Phases
      <4>2. Appended("INJECTING") => Appended("INJECTING")'
        BY <3>2, AppendedStays DEF Phases
      <4> QED
        BY <3>1, <4>1, <4>2 DEF IssueInv, Issued, Untouched, Reverted
    <3> QED
      BY <2>4, <3>1, <3>2, IssueQuiet DEF VerifyOnset
  <2>5. CASE Restore
    <3>1. Current \in InjectedPhases /\ Current' = "RESTORING"
      BY <2>5, CurrentAfter, PhasesAtValues DEF Restore, ControlInv, Phases
    <3>2. Issued("revert")' /\ (Issued("inject")' <=> Issued("inject"))
      BY <2>5, IssuedAfterPending DEF Restore, Commands
    <3>3. Appended("INJECTING") => Appended("INJECTING")'
      BY <2>5, AppendedStays DEF Restore, Phases
    <3> QED
      BY <3>1, <3>2, <3>3 DEF IssueInv, Untouched, Reverted, InjectedPhases
  <2>6. CASE RevertReturns
    <3>1. Current = "RESTORING"
      BY <2>6, PhasesAtValues DEF RevertReturns, Failed, ControlInv
    <3>2. ledger' = ledger \/ ledger' = Append(ledger, "RESTORED")
      BY <2>6 DEF RevertReturns, Failed
    <3>3. Current' \in {"RESTORING", "RESTORED"}
      BY <3>1, <3>2, CurrentAfter DEF Phases
    <3>4. \A c \in {"inject", "revert"} : Issued(c)' <=> Issued(c)
      <4>1. PICK s \in ExecStatus :
              \/ transcript' = Append(transcript, Completed("revert", s))
              \/ transcript' = Append(Append(transcript, Completed("revert", s)), Pending("clear"))
        BY <2>6 DEF RevertReturns, Failed
      <4> QED
        BY <4>1, IssuedAfterCompleted, IssuedAfterBoth DEF Commands
    <3>5. Appended("INJECTING") => Appended("INJECTING")'
      <4>1. CASE ledger' = ledger
        BY <4>1 DEF Appended
      <4>2. CASE ledger' = Append(ledger, "RESTORED")
        BY <4>2, AppendedStays DEF Phases
      <4> QED
        BY <3>2, <4>1, <4>2
    <3> QED
      BY <3>1, <3>3, <3>4, <3>5 DEF IssueInv, Untouched, Reverted
  <2>7. CASE ClearReturns
    <3>1. PICK s \in ExecStatus : transcript' = Append(transcript, Completed("clear", s))
      BY <2>7 DEF ClearReturns
    <3>2. Current = "RESTORING" /\ Current' = "RESTORED"
      BY <2>7, CurrentAfter, PhasesAtValues DEF ClearReturns, ControlInv, Phases
    <3>3. \A c \in Commands : Issued(c)' <=> Issued(c)
      BY <3>1, IssuedAfterCompleted DEF Commands
    <3>4. Appended("INJECTING") => Appended("INJECTING")'
      BY <2>7, AppendedStays DEF ClearReturns, Phases
    <3> QED
      BY <3>2, <3>3, <3>4, IssueUndisturbed DEF IssueInv, Untouched, Reverted
  <2>8. CASE VerifyRecovery
    <3>1. UNCHANGED <<transcript, cfg, late>>
      BY <2>8 DEF VerifyRecovery, NetworkUnused, net
    <3>2. CASE ledger' = Append(ledger, "RECOVERY_VERIFIED")
      <4>1. Current = "RESTORED" /\ Current' = "RECOVERY_VERIFIED"
        BY <2>8, <3>2, CurrentAfter, PhasesAtValues DEF VerifyRecovery, ControlInv, Phases
      <4>2. Appended("INJECTING") => Appended("INJECTING")'
        BY <3>2, AppendedStays DEF Phases
      <4> QED
        BY <3>1, <4>1, <4>2 DEF IssueInv, Issued, Untouched, Reverted
    <3> QED
      BY <2>8, <3>1, <3>2, IssueQuiet DEF VerifyRecovery
  <2>9. CASE \/ StartLab \/ ObserveTarget \/ CollectorFails \/ Converge
             \/ CollectBaseline \/ CollectOnsetBundle \/ CollectRecoveryBundle
             \/ RejectPrecondition \/ BuildRecord \/ Assemble
    BY <2>9, IssueQuiet
    DEF StartLab, ObserveTarget, CollectorFails, Converge, CollectBaseline,
        CollectOnsetBundle, CollectRecoveryBundle, RejectPrecondition,
        BuildRecord, Assemble, NetworkUnused, net
  <2>10. CASE StopLab
    BY <2>10, IssueQuiet DEF StopLab, TornDown
  <2>11. CASE LateCommand
    BY <2>11, IssueQuiet DEF LateCommand, run
  <2>12. CASE SessionConverges \/ RouteConverges \/ SessionFlaps \/ UNCHANGED vars
    BY <2>12, IssueQuiet DEF SessionConverges, RouteConverges, SessionFlaps, vars, run, net
  <2>13. CASE RunnerRaises
    <3>1. Current \in {"INJECTING", "RESTORING"} /\ UNCHANGED <<ledger, transcript>>
      BY <2>13, RunnerLeaves, PhasesAtValues DEF ControlInv
    <3> QED
      BY <3>1, IssueQuiet DEF IssueInv, Untouched
  <2> QED
    BY <2>1, <2>2, <2>3, <2>4, <2>5, <2>6, <2>7, <2>8, <2>9, <2>10, <2>11, <2>12, <2>13
    DEF Next, Step, Environment, Finished
<1> QED
  BY <1>1, <1>2, TypeCorrect, ControlCorrect, PTL DEF Spec

\* A router is never mutated without a write-ahead entry and INJECTING.
THEOREM FaultLogged == Spec => []FaultIsLogged
<1>1. IssueInv => FaultIsLogged
  BY DEF IssueInv, FaultIsLogged
<1> QED
  BY <1>1, IssueCorrect, PTL

\* However a run comes to stop its lab, an issued fault has had its revert issued.
THEOREM InjectedReverted == Spec => []InjectedIsReverted
<1>1. TypeOK /\ ControlInv /\ IssueInv => InjectedIsReverted
  BY PhasesAtValues
  DEF TypeOK, ControlInv, IssueInv, InjectedIsReverted, Untouched, Reverted,
      InjectedPhases, Phases
<1> QED
  BY <1>1, TypeCorrect, ControlCorrect, IssueCorrect, PTL

-----------------------------------------------------------------------------
(* The network                                                             *)

\* What a command that returned "ok" did: it landed and is not on its way.
LEMMA ExecutedOk ==
  ASSUME NEW c \in Commands, Executed(c, "ok")
  PROVE  Lands(c) /\ UNCHANGED late
  BY DEF Executed

\* The configuration after a command landed.
LEMMA LandsConfig ==
  /\ Lands("inject") => cfg' = "faulty"
  /\ Lands("revert") => cfg' = "correct"
  /\ Lands("clear") => cfg' = cfg
  BY DEF Lands

\* A "clear" changes no configuration, however it ends.
LEMMA ClearKeepsConfig ==
  ASSUME NEW s \in ExecStatus, Executed("clear", s)
  PROVE  cfg' = cfg /\ late' \subseteq late \cup {"clear"}
  BY LandsConfig DEF Executed

\* A run on which an exception propagates promises nothing of the network,
\* as long as its record is not an accepted one.
LEMMA RaisedPromisesNothing ==
  ASSUME raised', record' # "accepted"
  PROVE  NetworkInv'
  BY DEF NetworkInv

\* A step that leaves the configuration and the ledger's stage alone.
LEMMA NetworkQuiet ==
  ASSUME NetworkInv, UNCHANGED <<cfg, late, ledger, record>>,
         raised => raised', pc' # "clearing"
  PROVE  NetworkInv'
  BY DEF NetworkInv, Current

\* A record is built only at the end of a run: none exists at another call.
LEMMA NoRecordYet ==
  ASSUME TypeOK, VerdictInv, pc \notin {"stop", "assemble", "done"}
  PROVE  record # "accepted"
  BY DEF VerdictInv

\* On a run that raised nothing no command takes effect late but a clear, and from the
\* restoration on the router has its own configuration back (runtime/mutation.py).
THEOREM NetworkCorrect == Spec => []NetworkInv
<1>1. Init => NetworkInv
  BY DEF Init, NetworkInv, Current, LastPhase
<1>2. TypeOK /\ ControlInv /\ VerdictInv /\ NetworkInv /\ [Next]_vars => NetworkInv'
  <2> SUFFICES ASSUME TypeOK, ControlInv, VerdictInv, NetworkInv, [Next]_vars
               PROVE  NetworkInv'
    OBVIOUS
  <2>1. CASE StartLab \/ ObserveTarget \/ CollectorFails
    BY <2>1, NetworkQuiet
    DEF StartLab, ObserveTarget, CollectorFails, Sampling, Raise, NetworkUnused, net
  <2>2. CASE Converge
    BY <2>2, NetworkQuiet
    DEF Converge, PollAgain, PollTimesOut, PollSucceeds, Raise, NetworkUnused, net
  <2>3. CASE CollectBaseline \/ CollectOnsetBundle \/ CollectRecoveryBundle
    BY <2>3, NetworkQuiet
    DEF CollectBaseline, CollectOnsetBundle, CollectRecoveryBundle, NetworkUnused, net
  <2>4. CASE ValidatePreconditions
    <3>1. CASE Raise /\ UNCHANGED ledger
      BY <2>4, <3>1, NetworkQuiet DEF ValidatePreconditions, Raise, NetworkUnused, net
    <3>2. CASE ledger' = Append(ledger, "PRECHECKED") /\ pc' = "inject" /\ UNCHANGED raised
      <4>1. Current = "PENDING" /\ Current' = "PRECHECKED"
        BY <2>4, <3>2, CurrentAfter, PhasesAtValues DEF ValidatePreconditions, ControlInv, Phases
      <4> QED
        BY <2>4, <3>2, <4>1 DEF ValidatePreconditions, NetworkInv, Reverted, NetworkUnused, net
    <3> QED
      BY <2>4, <3>1, <3>2 DEF ValidatePreconditions
  <2>5. CASE Inject
    <3>1. Current = "PRECHECKED" /\ Current' = "INJECTING"
      BY <2>5, CurrentAfter, PhasesAtValues DEF Inject, ControlInv, Phases
    <3> QED
      BY <2>5, <3>1 DEF Inject, NetworkInv, Reverted, NetworkUnused, net
  <2>6. CASE InjectReturns
    <3>1. record # "accepted" /\ record' = record
      BY <2>6, NoRecordYet DEF InjectReturns, Failed
    <3>2. CASE Raise
      BY <3>1, <3>2, RaisedPromisesNothing DEF Raise
    <3>3. CASE Executed("inject", "ok") /\ ledger' = Append(ledger, "INJECTED") /\ pc' = "onset" /\ UNCHANGED raised
      <4>1. Current = "INJECTING" /\ Current' = "INJECTED"
        BY <2>6, <3>3, CurrentAfter, PhasesAtValues DEF InjectReturns, Failed, ControlInv, Phases
      <4>2. late' = late
        BY <3>3, ExecutedOk DEF Commands
      <4> QED
        BY <3>1, <3>3, <4>1, <4>2 DEF NetworkInv, Reverted
    <3> QED
      BY <2>6, <3>2, <3>3 DEF InjectReturns, Failed
  <2>7. CASE VerifyOnset
    <3>1. CASE UNCHANGED ledger
      BY <2>7, <3>1, NetworkQuiet
      DEF VerifyOnset, PollAgain, PollTimesOut, PollSucceeds, Raise, NetworkUnused, net
    <3>2. CASE ledger' = Append(ledger, "ONSET_VERIFIED") /\ pc' = "onsetBundle" /\ UNCHANGED raised
      <4>1. Current = "INJECTED" /\ Current' = "ONSET_VERIFIED"
        BY <2>7, <3>2, CurrentAfter, PhasesAtValues DEF VerifyOnset, ControlInv, Phases
      <4> QED
        BY <2>7, <3>2, <4>1 DEF VerifyOnset, NetworkInv, Reverted, NetworkUnused, net
    <3> QED
      BY <2>7, <3>1, <3>2 DEF VerifyOnset, PollSucceeds
  <2>8. CASE Restore
    <3>1. Current \in InjectedPhases /\ Current' = "RESTORING"
      BY <2>8, CurrentAfter, PhasesAtValues DEF Restore, ControlInv, Phases
    <3> QED
      BY <2>8, <3>1 DEF Restore, NetworkInv, Reverted, InjectedPhases, NetworkUnused, net
  <2>9. CASE RevertReturns
    <3>1. record # "accepted" /\ record' = record
      BY <2>9, NoRecordYet DEF RevertReturns, Failed
    <3>2. CASE Raise
      BY <3>1, <3>2, RaisedPromisesNothing DEF Raise
    <3>3. CASE Executed("revert", "ok") /\ UNCHANGED raised
      <4>1. cfg' = "correct" /\ late' = late
        BY <3>3, ExecutedOk, LandsConfig DEF Commands
      <4>2. Current = "RESTORING" /\ Current' \in {"RESTORING", "RESTORED"}
        BY <2>9, CurrentAfter, PhasesAtValues DEF RevertReturns, Failed, ControlInv, Phases
      <4> QED
        BY <3>1, <3>3, <4>1, <4>2 DEF NetworkInv, Reverted
    <3> QED
      BY <2>9, <3>2, <3>3 DEF RevertReturns, Failed
  <2>10. CASE ClearReturns
    <3>1. record # "accepted" /\ record' = record
      BY <2>10, NoRecordYet DEF ClearReturns
    <3>2. cfg' = cfg /\ late' \subseteq late \cup {"clear"}
      BY <2>10, ClearKeepsConfig DEF ClearReturns
    <3>3. Current' = "RESTORED" /\ pc = "clearing" /\ UNCHANGED raised
      BY <2>10, CurrentAfter DEF ClearReturns, Phases
    <3> QED
      BY <3>1, <3>2, <3>3 DEF NetworkInv, Reverted
  <2>11. CASE VerifyRecovery
    <3>1. CASE UNCHANGED ledger
      BY <2>11, <3>1, NetworkQuiet
      DEF VerifyRecovery, PollAgain, PollTimesOut, PollSucceeds, Raise, NetworkUnused, net
    <3>2. CASE ledger' = Append(ledger, "RECOVERY_VERIFIED") /\ pc' = "recoveryBundle" /\ UNCHANGED raised
      <4>1. Current = "RESTORED" /\ Current' = "RECOVERY_VERIFIED"
        BY <2>11, <3>2, CurrentAfter, PhasesAtValues DEF VerifyRecovery, ControlInv, Phases
      <4> QED
        BY <2>11, <3>2, <4>1 DEF VerifyRecovery, NetworkInv, Reverted, NetworkUnused, net
    <3> QED
      BY <2>11, <3>1, <3>2 DEF VerifyRecovery, PollSucceeds
  <2>12. CASE RejectPrecondition
    <3>1. CASE Raise /\ UNCHANGED record
      BY <2>12, <3>1, NetworkQuiet DEF RejectPrecondition, Raise, NetworkUnused, net
    <3>2. CASE record' = "rejected" /\ pc' = "stop" /\ UNCHANGED raised
      BY <2>12, <3>2 DEF RejectPrecondition, NetworkInv, Current, NetworkUnused, net
    <3> QED
      BY <2>12, <3>1, <3>2 DEF RejectPrecondition
  <2>13. CASE BuildRecord
    <3>1. CASE Raise /\ UNCHANGED record
      BY <2>13, <3>1, NetworkQuiet DEF BuildRecord, Raise, NetworkUnused, net
    <3>2. CASE record' = "accepted" /\ pc' = "stop" /\ UNCHANGED raised
      <4>1. ~raised /\ Current = "RECOVERY_VERIFIED"
        BY <2>13, PhasesAtValues DEF BuildRecord, ControlInv
      <4> QED
        BY <2>13, <3>2, <4>1 DEF BuildRecord, NetworkInv, Current, NetworkUnused, net
    <3> QED
      BY <2>13, <3>1, <3>2 DEF BuildRecord
  <2>14. CASE StopLab
    BY <2>14 DEF StopLab, TornDown, NetworkInv, Current
  <2>15. CASE Assemble
    BY <2>15, NetworkQuiet DEF Assemble, ControlInv, NetworkUnused, net
  <2>16. CASE LateCommand
    <3>1. PICK c \in late : Lands(c) /\ late' = late \ {c}
      BY <2>16 DEF LateCommand
    <3>2. c = "clear" => cfg' = cfg
      BY <3>1, LandsConfig
    <3>3. UNCHANGED <<ledger, raised, pc, record>>
      BY <2>16 DEF LateCommand, run
    <3> QED
      BY <3>1, <3>2, <3>3 DEF NetworkInv, Current
  <2>17. CASE SessionConverges \/ RouteConverges \/ SessionFlaps \/ UNCHANGED vars
    BY <2>17 DEF SessionConverges, RouteConverges, SessionFlaps, vars, run, net, NetworkInv, Current
  <2>18. CASE RunnerRaises
    BY <2>18, RunnerLeaves, NoRecordYet, RaisedPromisesNothing
  <2> QED
    BY <2>1, <2>2, <2>3, <2>4, <2>5, <2>6, <2>7, <2>8, <2>9, <2>10, <2>11, <2>12, <2>13, <2>14, <2>15, <2>16, <2>17, <2>18
    DEF Next, Step, Environment, Finished
<1> QED
  BY <1>1, <1>2, TypeCorrect, ControlCorrect, VerdictCorrect, PTL DEF Spec

\* An accepted record is built only for a router whose configuration is
\* restored for good: nothing that could change it is on its way.
THEOREM AcceptedRestored == Spec => []AcceptedIsRestored
<1>1. NetworkInv => AcceptedIsRestored
  BY DEF NetworkInv, AcceptedIsRestored
<1> QED
  BY <1>1, NetworkCorrect, PTL

-----------------------------------------------------------------------------
(* The onset evidence                                                      *)

\* No command is on its way while the onset is verified and recorded.
LEMMA NothingLateAtOnset ==
  ASSUME TypeOK, ControlInv, NetworkInv, pc \in {"onset", "onsetBundle"}
  PROVE  late = {}
  BY PhasesAtValues DEF ControlInv, NetworkInv, Reverted

\* A step to any other call of the run, that records no bundle.
LEMMA OnsetLeft ==
  ASSUME OnsetInv, pc' \notin {"onset", "onsetBundle"}, UNCHANGED <<onsetBundle, family>>
  PROVE  OnsetInv'
  BY DEF OnsetInv, OnsetEvidenceShowsFault

\* A step that leaves the onset calls and the network alone, and drops the view.
LEMMA OnsetStays ==
  ASSUME OnsetInv, UNCHANGED <<pc, onsetBundle, family, cfg, sess, route>>,
         view' = view \/ view' = NoView
  PROVE  OnsetInv'
  BY DEF OnsetInv, OnsetEvidenceShowsFault

\* A successful onset poll of a withdrawn prefix has seen its route missing.
LEMMA OnsetSeesRouteMissing ==
  ASSUME NEW p, Checks["prefix_withdrawal"].onset \subseteq Passing(view, p)
  PROVE  p.route # TRUE
<1>1. "peer_no_route" \in Passing(view, p)
  BY DEF Checks, PrefixWithdrawalChecks
<1> QED
  BY <1>1 DEF Passing

\* While the onset is judged and its bundle collected the fault is there: no step in
\* between can put it back (live_run.py, collectors).
THEOREM OnsetCorrect == Spec => []OnsetInv
<1>1. Init => OnsetInv
  BY DEF Init, OnsetInv, OnsetEvidenceShowsFault
<1>2. TypeOK /\ ControlInv /\ NetworkInv /\ OnsetInv /\ [Next]_vars => OnsetInv'
  <2> SUFFICES ASSUME TypeOK, ControlInv, NetworkInv, OnsetInv, [Next]_vars
               PROVE  OnsetInv'
    OBVIOUS
  <2>1. CASE StartLab \/ CollectBaseline \/ CollectRecoveryBundle
    BY <2>1, OnsetLeft DEF StartLab, CollectBaseline, CollectRecoveryBundle, Raise
  <2>2. CASE ObserveTarget
    <3>1. view' = [cfg |-> cfg, sess |-> sess["target"], route |-> route["target"]]
      BY <2>2 DEF ObserveTarget, Observe
    <3> QED
      BY <2>2, <3>1 DEF ObserveTarget, OnsetInv, OnsetEvidenceShowsFault, NetworkUnused, net
  <2>3. CASE CollectorFails
    BY <2>3, OnsetLeft DEF CollectorFails, Raise
  <2>4. CASE Converge
    BY <2>4, OnsetLeft DEF Converge, PollAgain, PollTimesOut, Raise
  <2>5. CASE ValidatePreconditions \/ Inject
    BY <2>5, OnsetLeft DEF ValidatePreconditions, Inject, Raise
  <2>6. CASE InjectReturns
    <3>1. CASE Raise
      BY <2>6, <3>1, OnsetLeft DEF InjectReturns, Failed, Raise
    <3>2. CASE Executed("inject", "ok") /\ pc' = "onset"
      <4>1. Lands("inject")
        BY <3>2, ExecutedOk DEF Commands
      <4>2. cfg' = "faulty" /\ (family \in SessionFaults => ~sess'["target"])
        BY <4>1 DEF Lands, TypeOK, Routers
      <4> QED
        BY <2>6, <3>2, <4>2 DEF InjectReturns, Failed, OnsetInv, OnsetEvidenceShowsFault
    <3> QED
      BY <2>6, <3>1, <3>2 DEF InjectReturns, Failed
  <2>7. CASE VerifyOnset
    <3>1. UNCHANGED <<onsetBundle, family, cfg, sess, route>> /\ view' = NoView
      BY <2>7 DEF VerifyOnset, NetworkUnused, net
    <3>2. CASE pc' = pc
      BY <3>1, <3>2, OnsetStays
    <3>3. CASE Raise
      BY <3>1, <3>3, OnsetLeft DEF Raise
    <3>4. CASE /\ Checks[family].onset \subseteq Passing(view, Observe("peer"))
               /\ pc' = "onsetBundle"
      <4>1. family = "prefix_withdrawal" => ~route["peer"]
        <5> SUFFICES ASSUME family = "prefix_withdrawal" PROVE ~route["peer"]
          OBVIOUS
        <5>1. Checks["prefix_withdrawal"].onset \subseteq Passing(view, Observe("peer"))
          BY <3>4
        <5>2. Observe("peer").route # TRUE
          BY <5>1, OnsetSeesRouteMissing
        <5> QED
          BY <5>2 DEF Observe, TypeOK, Routers
      <4>2. pc = "onset"
        BY <2>7 DEF VerifyOnset
      <4> QED
        BY <3>1, <3>4, <4>1, <4>2 DEF OnsetInv, OnsetEvidenceShowsFault
    <3> QED
      BY <2>7, <3>2, <3>3, <3>4 DEF VerifyOnset, PollAgain, PollTimesOut, PollSucceeds
  <2>8. CASE CollectOnsetBundle
    <3>1. onsetBundle' = [target |-> view, peer |-> [cfg |-> cfg, sess |-> sess["peer"], route |-> route["peer"]]]
      BY <2>8 DEF CollectOnsetBundle, Observe
    <3>2. pc = "onsetBundle" /\ view # NoView /\ pc' = "restore" /\ UNCHANGED family
      BY <2>8 DEF CollectOnsetBundle
    <3> QED
      BY <3>1, <3>2 DEF OnsetInv, OnsetEvidenceShowsFault
  <2>9. CASE Restore \/ RevertReturns \/ ClearReturns
    BY <2>9, OnsetLeft DEF Restore, RevertReturns, ClearReturns, AfterRestore, Raise
  <2>10. CASE VerifyRecovery
    BY <2>10, OnsetLeft DEF VerifyRecovery, PollAgain, PollTimesOut, Raise
  <2>11. CASE RejectPrecondition \/ BuildRecord
    BY <2>11, OnsetLeft DEF RejectPrecondition, BuildRecord, Raise
  <2>12. CASE StopLab \/ Assemble
    BY <2>12, OnsetLeft DEF StopLab, Assemble
  <2>13. CASE LateCommand
    <3>1. pc \notin {"onset", "onsetBundle"}
      BY <2>13, NothingLateAtOnset DEF LateCommand
    <3> QED
      BY <2>13, <3>1, OnsetLeft DEF LateCommand, run
  <2>14. CASE SessionConverges
    <3>1. pc \in {"onset", "onsetBundle"} /\ family \in SessionFaults
            => sess'["target"] = sess["target"] \/ sess'["target"] = FALSE
      BY <2>14 DEF SessionConverges, SessionPossible, OnsetInv, TypeOK, Routers
    <3> QED
      BY <2>14, <3>1 DEF SessionConverges, OnsetInv, OnsetEvidenceShowsFault, run
  <2>15. CASE RouteConverges
    <3>1. pc = "onsetBundle" /\ family = "prefix_withdrawal" => route'["peer"] = route["peer"]
      BY <2>15 DEF RouteConverges, Advertised, OnsetInv, TypeOK, Routers
    <3> QED
      BY <2>15, <3>1 DEF RouteConverges, OnsetInv, OnsetEvidenceShowsFault, run
  <2>16. CASE SessionFlaps
    BY <2>16 DEF SessionFlaps, OnsetInv, OnsetEvidenceShowsFault, run, AllDown, Routers
  <2>17. CASE UNCHANGED vars
    BY <2>17, OnsetStays DEF vars, run, net
  <2>18. CASE RunnerRaises
    BY <2>18, RunnerLeaves, OnsetLeft
  <2> QED
    BY <2>1, <2>2, <2>3, <2>4, <2>5, <2>6, <2>7, <2>8, <2>9, <2>10, <2>11, <2>12, <2>13, <2>14, <2>15, <2>16, <2>17, <2>18
    DEF Next, Step, Environment, Finished
<1> QED
  BY <1>1, <1>2, TypeCorrect, ControlCorrect, NetworkCorrect, PTL DEF Spec

\* The bundle recorded for the onset shows the fault that was injected.
THEOREM OnsetShown == Spec => []OnsetEvidenceShowsFault
<1>1. OnsetInv => OnsetEvidenceShowsFault
  BY DEF OnsetInv
<1> QED
  BY <1>1, OnsetCorrect, PTL

-----------------------------------------------------------------------------
(* The transcript                                                          *)

\* An exception promises nothing of the transcript of a run without a record.
LEMMA RaisedTranscript ==
  ASSUME raised', record' # "accepted"
  PROVE  TranscriptInv'
  BY DEF TranscriptInv

\* A step that issues nothing and goes no further in the order of commands.
LEMMA TranscriptQuiet ==
  ASSUME TypeOK, TranscriptInv, UNCHANGED <<family, transcript, record>>,
         \/ UNCHANGED pc /\ (raised => raised')
         \/ pc' \in {"stop", "assemble", "done"}
  PROVE  TranscriptInv'
  BY DEF TranscriptInv, FullTranscript

\* A transcript written out grows by an entry.
LEMMA SequenceWritten ==
  ASSUME NEW S, NEW p \in Seq(S)
  PROVE  /\ Len(p) = 2 => p = <<p[1], p[2]>>
         /\ Len(p) = 3 => p = <<p[1], p[2], p[3]>>
         /\ Len(p) = 4 => p = <<p[1], p[2], p[3], p[4]>>
         /\ Len(p) = 5 => p = <<p[1], p[2], p[3], p[4], p[5]>>
         /\ Len(p) = 6 => p = <<p[1], p[2], p[3], p[4], p[5], p[6]>>
  OBVIOUS

LEMMA SequenceGrown ==
  ASSUME NEW S, NEW p \in Seq(S), NEW e \in S, NEW q, q = Append(p, e)
  PROVE  /\ q \in Seq(S) /\ Len(q) = Len(p) + 1 /\ q[Len(p) + 1] = e
         /\ \A i \in 1 .. Len(p) : q[i] = p[i]
  OBVIOUS

LEMMA EntriesGrow ==
  ASSUME NEW a \in Entries, NEW b \in Entries, NEW c \in Entries,
         NEW d \in Entries, NEW e \in Entries, NEW f \in Entries
  PROVE  /\ Append(<<>>, a) = <<a>>
         /\ Append(<<a>>, b) = <<a, b>>
         /\ Append(<<a, b>>, c) = <<a, b, c>>
         /\ Append(<<a, b, c>>, d) = <<a, b, c, d>>
         /\ Append(<<a, b, c, d>>, e) = <<a, b, c, d, e>>
         /\ Append(<<a, b, c, d, e>>, f) = <<a, b, c, d, e, f>>
<1>1. Append(<<>>, a) = <<a>>
  OBVIOUS
<1>2. Append(<<a>>, b) = <<a, b>>
  <2>1. PICK p, q : p = <<a>> /\ q = Append(p, b)
    OBVIOUS
  <2>2. /\ p \in Seq(Entries) /\ Len(p) = 1
        /\ p[1] = a
    BY <2>1
  <2>3. /\ q \in Seq(Entries) /\ Len(q) = 2
        /\ q[1] = a /\ q[2] = b
    BY <2>1, <2>2, SequenceGrown
  <2> QED
    BY <2>1, <2>3, SequenceWritten
<1>3. Append(<<a, b>>, c) = <<a, b, c>>
  <2>1. PICK p, q : p = <<a, b>> /\ q = Append(p, c)
    OBVIOUS
  <2>2. /\ p \in Seq(Entries) /\ Len(p) = 2
        /\ p[1] = a /\ p[2] = b
    BY <2>1
  <2>3. /\ q \in Seq(Entries) /\ Len(q) = 3
        /\ q[1] = a /\ q[2] = b /\ q[3] = c
    BY <2>1, <2>2, SequenceGrown
  <2> QED
    BY <2>1, <2>3, SequenceWritten
<1>4. Append(<<a, b, c>>, d) = <<a, b, c, d>>
  <2>1. PICK p, q : p = <<a, b, c>> /\ q = Append(p, d)
    OBVIOUS
  <2>2. /\ p \in Seq(Entries) /\ Len(p) = 3
        /\ p[1] = a /\ p[2] = b /\ p[3] = c
    BY <2>1
  <2>3. /\ q \in Seq(Entries) /\ Len(q) = 4
        /\ q[1] = a /\ q[2] = b /\ q[3] = c /\ q[4] = d
    BY <2>1, <2>2, SequenceGrown
  <2> QED
    BY <2>1, <2>3, SequenceWritten
<1>5. Append(<<a, b, c, d>>, e) = <<a, b, c, d, e>>
  <2>1. PICK p, q : p = <<a, b, c, d>> /\ q = Append(p, e)
    OBVIOUS
  <2>2. /\ p \in Seq(Entries) /\ Len(p) = 4
        /\ p[1] = a /\ p[2] = b /\ p[3] = c /\ p[4] = d
    BY <2>1
  <2>3. /\ q \in Seq(Entries) /\ Len(q) = 5
        /\ q[1] = a /\ q[2] = b /\ q[3] = c /\ q[4] = d /\ q[5] = e
    BY <2>1, <2>2, SequenceGrown
  <2> QED
    BY <2>1, <2>3, SequenceWritten
<1>6. Append(<<a, b, c, d, e>>, f) = <<a, b, c, d, e, f>>
  <2>1. PICK p, q : p = <<a, b, c, d, e>> /\ q = Append(p, f)
    OBVIOUS
  <2>2. /\ p \in Seq(Entries) /\ Len(p) = 5
        /\ p[1] = a /\ p[2] = b /\ p[3] = c /\ p[4] = d /\ p[5] = e
    BY <2>1
  <2>3. /\ q \in Seq(Entries) /\ Len(q) = 6
        /\ q[1] = a /\ q[2] = b /\ q[3] = c /\ q[4] = d /\ q[5] = e /\ q[6] = f
    BY <2>1, <2>2, SequenceGrown
  <2> QED
    BY <2>1, <2>3, SequenceWritten
<1> QED
  BY <1>1, <1>2, <1>3, <1>4, <1>5, <1>6

\* The transcript of a run, entry by entry.
LEMMA TranscriptGrows ==
  LET i == Pending("inject")
      j == Completed("inject", "ok")
      r == Pending("revert")
      q == Completed("revert", "ok")
      c == Pending("clear")
  IN /\ Append(<<>>, i) = <<i>>
     /\ Append(<<i>>, j) = <<i, j>>
     /\ Append(<<i, j>>, r) = <<i, j, r>>
     /\ Append(<<i, j, r>>, q) = <<i, j, r, q>>
     /\ Append(Append(<<i, j, r>>, q), c) = <<i, j, r, q, c>>
     /\ \A s \in ExecStatus :
          Append(<<i, j, r, q, c>>, Completed("clear", s)) = <<i, j, r, q, c, Completed("clear", s)>>
<1> DEFINE i == Pending("inject")
           j == Completed("inject", "ok")
           r == Pending("revert")
           q == Completed("revert", "ok")
           c == Pending("clear")
<1>1. i \in Entries /\ j \in Entries /\ r \in Entries /\ q \in Entries /\ c \in Entries
  BY EntryTypes DEF Commands, ExecStatus
<1>2. \A s \in ExecStatus : Completed("clear", s) \in Entries
  BY EntryTypes DEF Commands
<1> HIDE DEF i, j, r, q, c
<1>3. /\ Append(<<>>, i) = <<i>>
      /\ Append(<<i>>, j) = <<i, j>>
      /\ Append(<<i, j>>, r) = <<i, j, r>>
      /\ Append(<<i, j, r>>, q) = <<i, j, r, q>>
      /\ Append(<<i, j, r, q>>, c) = <<i, j, r, q, c>>
      /\ \A s \in ExecStatus :
           Append(<<i, j, r, q, c>>, Completed("clear", s)) = <<i, j, r, q, c, Completed("clear", s)>>
  BY <1>1, <1>2, EntriesGrow
<1>4. Append(Append(<<i, j, r>>, q), c) = <<i, j, r, q, c>>
  BY <1>3
<1> QED
  BY <1>3, <1>4 DEF i, j, r, q, c

LEMMA TranscriptStarts == Init => TranscriptInv
  BY DEF Init, TranscriptInv

LEMMA TranscriptStep ==
  ASSUME TypeOK, ControlInv, VerdictInv, TranscriptInv, [Next]_vars
  PROVE  TranscriptInv'
<1>0. pc \notin {"stop", "assemble", "done"} => record # "accepted"
  BY NoRecordYet
<1>1. ASSUME UNCHANGED <<family, transcript, record>>, pc \notin {"stop", "assemble", "done"},
             \/ Raise
             \/ UNCHANGED <<pc, raised>>
             \/ UNCHANGED raised /\ <<pc, pc'>> \in
                  {<<"start", "converge">>, <<"converge", "reject">>, <<"converge", "baseline">>,
                   <<"baseline", "precheck">>, <<"precheck", "inject">>, <<"onset", "onsetBundle">>,
                   <<"onsetBundle", "restore">>, <<"recovery", "recoveryBundle">>,
                   <<"recoveryBundle", "gate">>}
      PROVE  TranscriptInv'
  <2>1. CASE Raise
    BY <1>0, <1>1, <2>1, RaisedTranscript DEF Raise
  <2>2. CASE UNCHANGED <<pc, raised>>
    BY <1>1, <2>2, TranscriptQuiet
  <2>3. CASE UNCHANGED raised /\ ~UNCHANGED <<pc, raised>>
    BY <1>0, <1>1, <2>3 DEF TranscriptInv, FullTranscript, Raise
  <2> QED
    BY <1>1, <2>1, <2>2, <2>3
<1>2. CASE StartLab \/ ObserveTarget \/ CollectorFails
  BY <1>1, <1>2 DEF StartLab, ObserveTarget, CollectorFails, Sampling
<1>3. CASE Converge
  BY <1>1, <1>3 DEF Converge, PollAgain, PollTimesOut, PollSucceeds
<1>4. CASE CollectBaseline \/ CollectOnsetBundle \/ CollectRecoveryBundle
  BY <1>1, <1>4 DEF CollectBaseline, CollectOnsetBundle, CollectRecoveryBundle
<1>5. CASE ValidatePreconditions
  BY <1>1, <1>5 DEF ValidatePreconditions
<1>6. CASE VerifyOnset
  BY <1>1, <1>6 DEF VerifyOnset, PollAgain, PollTimesOut, PollSucceeds
<1>7. CASE VerifyRecovery
  BY <1>1, <1>7 DEF VerifyRecovery, PollAgain, PollTimesOut, PollSucceeds
<1>8. CASE Inject
  <2>1. ~raised => transcript' = <<Pending("inject")>>
    BY <1>8, TranscriptGrows DEF Inject, TranscriptInv
  <2> QED
    BY <1>0, <1>8, <2>1 DEF Inject, TranscriptInv
<1>9. CASE InjectReturns
  <2>1. record' = record /\ record # "accepted"
    BY <1>0, <1>9 DEF InjectReturns
  <2>2. CASE ~raised'
    <3>1. /\ ~raised /\ pc' = "onset"
          /\ transcript' = Append(transcript, Completed("inject", "ok"))
      BY <1>9, <2>2 DEF InjectReturns, Failed, Raise
    <3>2. transcript' = InjectEntries
      BY <1>9, <3>1, TranscriptGrows DEF InjectReturns, TranscriptInv, InjectEntries
    <3> QED
      BY <2>1, <3>1, <3>2 DEF TranscriptInv
  <2> QED
    BY <2>1, <2>2, RaisedTranscript
<1>10. CASE Restore
  <2>1. /\ record' = record /\ record # "accepted" /\ pc' = "reverting" /\ UNCHANGED raised
        /\ transcript' = Append(transcript, Pending("revert"))
    BY <1>0, <1>10 DEF Restore
  <2>2. ~raised => transcript' =
          <<Pending("inject"), Completed("inject", "ok"), Pending("revert")>>
    BY <1>10, <2>1, TranscriptGrows DEF Restore, TranscriptInv, InjectEntries
  <2> QED
    BY <2>1, <2>2 DEF TranscriptInv
<1>11. CASE RevertReturns
  <2>1. record' = record /\ record # "accepted" /\ family' = family
    BY <1>0, <1>11 DEF RevertReturns
  <2>2. CASE ~raised'
    <3>1. /\ ~raised
          /\ transcript = <<Pending("inject"), Completed("inject", "ok"), Pending("revert")>>
      BY <1>11, <2>2 DEF RevertReturns, Raise, TranscriptInv
    <3>2. CASE pc' = "clearing" /\ family \in ForcedReset
      <4>1. transcript' =
              Append(Append(transcript, Completed("revert", "ok")), Pending("clear"))
        BY <1>11, <2>2, <3>2 DEF RevertReturns, Failed, Raise
      <4> QED
        BY <2>1, <3>1, <3>2, <4>1, TranscriptGrows DEF TranscriptInv
    <3>3. CASE pc' = "recovery" /\ family \notin ForcedReset
      <4>1. transcript' = Append(transcript, Completed("revert", "ok"))
        BY <1>11, <2>2, <3>3 DEF RevertReturns, Failed, Raise
      <4>2. transcript' = RevertEntries
        BY <3>1, <4>1, TranscriptGrows DEF RevertEntries
      <4> QED
        BY <2>1, <3>3, <4>2 DEF TranscriptInv, FullTranscript
    <3> QED
      BY <1>11, <2>2, <3>1, <3>2, <3>3 DEF RevertReturns, Raise, AfterRestore
  <2> QED
    BY <2>1, <2>2, RaisedTranscript
<1>12. CASE ClearReturns
  <2>1. record' = record /\ record # "accepted" /\ family' = family /\ raised' = raised
    BY <1>0, <1>12 DEF ClearReturns
  <2>2. CASE ~raised
    <3>1. /\ family \in ForcedReset
          /\ transcript = <<Pending("inject"), Completed("inject", "ok"), Pending("revert"),
                            Completed("revert", "ok"), Pending("clear")>>
      BY <1>12, <2>2 DEF ClearReturns, TranscriptInv
    <3>2. PICK s \in ExecStatus : transcript' = Append(transcript, Completed("clear", s))
      BY <1>12 DEF ClearReturns
    <3>3. transcript' = <<Pending("inject"), Completed("inject", "ok"), Pending("revert"),
                          Completed("revert", "ok"), Pending("clear"), Completed("clear", s)>>
      BY <3>1, <3>2, TranscriptGrows
    <3>4. pc' = "recovery"
      BY <1>12, <2>2 DEF ClearReturns, AfterRestore
    <3> QED
      BY <2>1, <3>1, <3>3, <3>4 DEF TranscriptInv, FullTranscript
  <2> QED
    BY <2>1, <2>2, RaisedTranscript
<1>13. CASE RejectPrecondition
  <2>1. CASE Raise /\ UNCHANGED record
    BY <1>0, <1>13, <2>1, RaisedTranscript DEF RejectPrecondition, Raise
  <2>2. CASE record' = "rejected" /\ pc' = "stop"
    BY <2>2 DEF TranscriptInv
  <2> QED
    BY <1>13, <2>1, <2>2 DEF RejectPrecondition
<1>14. CASE BuildRecord
  <2>1. CASE Raise /\ UNCHANGED record
    BY <1>0, <1>14, <2>1, RaisedTranscript DEF BuildRecord, Raise
  <2>2. CASE pc' = "stop" /\ UNCHANGED raised
    BY <1>14, <2>2 DEF BuildRecord, ControlInv, TranscriptInv, FullTranscript
  <2> QED
    BY <1>14, <2>1, <2>2 DEF BuildRecord
<1>15. CASE StopLab \/ Assemble
  BY <1>15, TranscriptQuiet DEF StopLab, Assemble
<1>16. CASE Environment \/ UNCHANGED vars
  BY <1>16, TranscriptQuiet
  DEF Environment, LateCommand, SessionConverges, RouteConverges, SessionFlaps, vars, run
<1>17. CASE RunnerRaises
  BY <1>1, <1>17, RunnerLeaves
<1> QED
  BY <1>2, <1>3, <1>4, <1>5, <1>6, <1>7, <1>8, <1>9, <1>10, <1>11, <1>12, <1>13, <1>14, <1>15, <1>16, <1>17
  DEF Next, Step, Finished

\* A run on which no exception propagates has issued what its next call presumes, each
\* command with its entry ahead and its outcome after (runtime/mutation.py).
THEOREM TranscriptCorrect == Spec => []TranscriptInv
<1>1. TypeOK /\ ControlInv /\ VerdictInv /\ TranscriptInv /\ [Next]_vars => TranscriptInv'
  BY TranscriptStep
<1> QED
  BY <1>1, TranscriptStarts, TypeCorrect, ControlCorrect, VerdictCorrect, PTL DEF Spec

\* The first four entries of a transcript, and the two after them.
LEMMA TranscriptParts ==
  ASSUME NEW p \in Seq(Entries)
  PROVE  /\ Len(p) \in {4, 6} => SubSeq(p, 1, 4) = <<p[1], p[2], p[3], p[4]>>
         /\ Len(p) = 6 => SubSeq(p, 5, Len(p)) = <<p[5], p[6]>>
<1>1. ASSUME Len(p) \in {4, 6}
      PROVE  SubSeq(p, 1, 4) = <<p[1], p[2], p[3], p[4]>>
  <2>1. PICK q : q = SubSeq(p, 1, 4)
    OBVIOUS
  <2>2. /\ q \in Seq(Entries) /\ Len(q) = 4
        /\ q[1] = p[1] /\ q[2] = p[2] /\ q[3] = p[3] /\ q[4] = p[4]
    BY <1>1, <2>1
  <2> QED
    BY <2>1, <2>2, SequenceWritten
<1>2. ASSUME Len(p) = 6
      PROVE  SubSeq(p, 5, Len(p)) = <<p[5], p[6]>>
  <2>1. PICK q : q = SubSeq(p, 5, 6)
    OBVIOUS
  <2>2. 5 \in 1 .. Len(p) /\ 6 \in 1 .. Len(p)
    BY <1>2
  <2>3. q \in Seq(Entries) /\ Len(q) = 2 /\ \A k \in 1 .. 2 : q[k] = p[5 + k - 1]
    BY <2>1, <2>2, SubSeqProperties
  <2>4. q[1] = p[5] /\ q[2] = p[6]
    BY <2>3
  <2>5. q = <<p[5], p[6]>>
    BY <2>3, <2>4, SequenceWritten
  <2> QED
    BY <1>2, <2>1, <2>5
<1> QED
  BY <1>1, <1>2

\* The transcript stored with an accepted record has every command of the family
\* once, paired and in order, and the two configuration commands succeeded.
THEOREM AcceptedTranscripts == Spec => []AcceptedTranscript
<1>1. ASSUME TypeOK, TranscriptInv
      PROVE  AcceptedTranscript
  <2> SUFFICES ASSUME record = "accepted" PROVE AcceptedTranscript
    BY DEF AcceptedTranscript
  <2>1. transcript \in Seq(Entries) /\ FullTranscript
    BY <1>1 DEF TypeOK, TranscriptInv
  <2>2. CASE family \in ForcedReset
    <3>1. PICK s \in ExecStatus :
            transcript = <<Pending("inject"), Completed("inject", "ok"), Pending("revert"),
                           Completed("revert", "ok"), Pending("clear"), Completed("clear", s)>>
      BY <2>1, <2>2 DEF FullTranscript
    <3>2. /\ Len(transcript) = 6
          /\ transcript[1] = Pending("inject") /\ transcript[2] = Completed("inject", "ok")
          /\ transcript[3] = Pending("revert") /\ transcript[4] = Completed("revert", "ok")
          /\ transcript[5] = Pending("clear") /\ transcript[6] = Completed("clear", s)
      BY <3>1
    <3> QED
      BY <2>1, <2>2, <3>2, TranscriptParts DEF AcceptedTranscript
  <2>3. CASE family \notin ForcedReset
    <3>1. /\ Len(transcript) = 4
          /\ transcript[1] = Pending("inject") /\ transcript[2] = Completed("inject", "ok")
          /\ transcript[3] = Pending("revert") /\ transcript[4] = Completed("revert", "ok")
      BY <2>1, <2>3 DEF FullTranscript, RevertEntries
    <3> QED
      BY <2>1, <2>3, <3>1, TranscriptParts DEF AcceptedTranscript
  <2> QED
    BY <2>2, <2>3
<1> QED
  BY <1>1, TypeCorrect, TranscriptCorrect, PTL

-----------------------------------------------------------------------------
(* The contract                                                            *)

\* An exception is never taken back, and a record is built from what its verdict
\* requires.
LEMMA RecordsAreBuilt ==
  ASSUME TypeOK, ControlInv, [Next]_vars
  PROVE  /\ ~raised' => ~raised
         /\ \/ UNCHANGED record
            \/ record' = "accepted" /\ Current = "RECOVERY_VERIFIED" /\ ~raised
            \/ record' = "rejected" /\ Current = "PENDING"
<1>1. CASE StopLab \/ Assemble
  BY <1>1 DEF StopLab, Assemble, ControlInv
<1>2. CASE BuildRecord
  BY <1>2 DEF BuildRecord, ControlInv, Raise
<1>3. CASE RejectPrecondition
  BY <1>3, PhasesAtValues DEF RejectPrecondition, ControlInv, Raise
<1>4. \/ StartLab \/ ObserveTarget \/ CollectorFails \/ Converge
      \/ CollectBaseline \/ ValidatePreconditions
      \/ Inject \/ InjectReturns \/ VerifyOnset \/ CollectOnsetBundle
      \/ Restore \/ RevertReturns \/ ClearReturns \/ RunnerRaises
      \/ VerifyRecovery \/ CollectRecoveryBundle
      \/ Environment \/ UNCHANGED vars
      => UNCHANGED record /\ (~raised' => ~raised)
  BY DEF StartLab, ObserveTarget, CollectorFails, Converge, CollectBaseline, ValidatePreconditions,
         Inject, InjectReturns, VerifyOnset, CollectOnsetBundle, Restore, RevertReturns,
         ClearReturns, RunnerRaises, VerifyRecovery, CollectRecoveryBundle, PollAgain, PollTimesOut,
         PollSucceeds, Raise, Environment, LateCommand, SessionConverges, RouteConverges,
         SessionFlaps, vars, run
<1> QED
  BY <1>1, <1>2, <1>3, <1>4 DEF Next, Step, Finished

\* What the ledger shows after an append.
LEMMA ShownAfterAppend ==
  ASSUME TypeOK, NEW p \in Phases, Appends(p)
  PROVE  /\ Current' = p
         /\ \A q \in Phases : Appended(q)' <=> Appended(q) \/ p = q
  BY CurrentAfter, AppendedStays DEF Appends

LEMMA HistoryStep ==
  ASSUME TypeOK, ControlInv, VerdictInv, HistoryInv, [Next]_vars
  PROVE  HistoryInv'
<1>1. CASE UNCHANGED ledger
  <2>1. /\ Current' = Current
        /\ \A q \in Phases : Appended(q)' <=> Appended(q)
    BY <1>1 DEF Current, Appended
  <2>2. Current = "RECOVERY_VERIFIED" /\ ~raised => Appended("RESTORED") /\ Appended("ONSET_VERIFIED")
    BY DEF HistoryInv, Reverted
  <2> QED
    BY <2>1, <2>2, RecordsAreBuilt DEF HistoryInv, Phases, Untouched
<1>2. ASSUME NEW p \in Phases, Appends(p)
      PROVE  HistoryInv'
  <2>1. /\ Current' = p /\ Current \in Phases /\ p \in LegalTransitions[Current]
        /\ \A q \in Phases : Appended(q)' <=> Appended(q) \/ p = q
    BY <1>2, ShownAfterAppend, CurrentAfter DEF Appends
  <2>2. record' = "none"
    BY <1>2 DEF Appends, VerdictInv
  <2>3. p = "RESTORING" /\ ~raised' => Current = "ONSET_VERIFIED"
    BY <1>2, RecordsAreBuilt DEF Appends, ControlInv
  <2>4. ~raised' => ~raised
    BY RecordsAreBuilt
  <2> QED
    BY <2>1, <2>2, <2>3, <2>4
    DEF HistoryInv, Phases, LegalTransitions, Untouched, Reverted
<1> QED
  BY <1>1, <1>2, AppendsAreLegal

\* The ledger of a run that raised nothing tells its whole history, and a record is
\* built only from a ledger that went the whole way, or nowhere.
THEOREM HistoryCorrect == Spec => []HistoryInv
<1>1. Init => HistoryInv
  BY DEF Init, HistoryInv, Appended, Current, LastPhase, Untouched, Reverted
<1>2. TypeOK /\ ControlInv /\ VerdictInv /\ HistoryInv /\ [Next]_vars => HistoryInv'
  BY HistoryStep
<1> QED
  BY <1>1, <1>2, TypeCorrect, ControlCorrect, VerdictCorrect, PTL DEF Spec

Standing == ~(pc \in {"assemble", "done"} /\ lab = "absent")
Verdict == IF pc # "done" THEN "open" ELSE IF raised THEN "failed" ELSE record

LEMMA ContractStep ==
  ASSUME TypeOK, ControlInv, VerdictInv, HistoryInv, [Next]_vars
  PROVE  [Contract!Next]_(Contract!vars)
<1>1. ASSUME NEW p \in Phases, Appends(p)
      PROVE  [Contract!Next]_(Contract!vars)
  <2>1. /\ Current \in Phases /\ p \in LegalTransitions[Current]
        /\ \A q \in Phases : Appended(q)' <=> Appended(q) \/ p = q
    BY <1>1, ShownAfterAppend, CurrentAfter DEF Appends
  <2>2. /\ Standing = TRUE /\ Standing' = TRUE /\ Verdict = "open" /\ Verdict' = "open"
    BY <1>1 DEF Appends, Standing, Verdict
  <2>3. \/ NetworkView = "untouched" /\ NetworkView' = "faulted"
        \/ NetworkView = "faulted" /\ NetworkView' = "observed"
        \/ NetworkView = "observed" /\ NetworkView' = "restored"
        \/ NetworkView = "faulted" /\ NetworkView' = "abandoned"
        \/ NetworkView' = NetworkView
    BY <2>1 DEF NetworkView, HistoryInv, Phases, LegalTransitions, Untouched, Reverted
  <2> QED
    BY <2>2, <2>3 DEF Contract!Next, Contract!vars, Contract!Fault, Contract!Observed,
                      Contract!Restore, Contract!Abandon, Standing, Verdict
<1>2. ASSUME UNCHANGED ledger
      PROVE  [Contract!Next]_(Contract!vars)
  <2>1. NetworkView' = NetworkView
    BY <1>2 DEF NetworkView, Appended
  <2>2. CASE StopLab
    <3>1. Standing = TRUE /\ Verdict = "open" /\ Standing' \in {TRUE, FALSE}
      BY <2>2 DEF StopLab, Standing, Verdict
    <3>2. \/ Verdict' = "open" /\ Standing' = FALSE
          \/ Verdict' = "failed"
      BY <2>2 DEF StopLab, TornDown, Standing, Verdict
    <3> QED
      BY <2>1, <3>1, <3>2 DEF Contract!Next, Contract!vars, Contract!TearDown, Contract!Fail,
                              Standing, Verdict
  <2>3. CASE Assemble
    <3>1. /\ Standing = FALSE /\ Standing' = FALSE /\ Verdict = "open"
          /\ ~raised /\ record \in {"accepted", "rejected"}
      BY <2>3 DEF Assemble, NetworkUnused, net, Standing, Verdict, VerdictInv, ControlInv, TypeOK
    <3>2. Verdict' \in {"failed", record}
      BY <2>3 DEF Assemble, Verdict
    <3>3. /\ record = "accepted" => NetworkView = "restored"
          /\ record = "rejected" => NetworkView = "untouched"
      BY DEF HistoryInv, NetworkView, Untouched, Reverted
    <3> QED
      BY <2>1, <3>1, <3>2, <3>3 DEF Contract!Next, Contract!vars, Contract!Accept, Contract!Reject,
                                    Contract!Fail, Standing, Verdict
  <2>4. CASE pc # "done" /\ ~StopLab /\ ~Assemble /\ Step
    <3>1. pc \notin {"stop", "assemble", "done"} /\ pc' \notin {"assemble", "done"}
      BY <2>4 DEF Step, StartLab, ObserveTarget, CollectorFails, Converge, CollectBaseline,
                  ValidatePreconditions, Inject, InjectReturns, VerifyOnset, CollectOnsetBundle,
                  Restore, RevertReturns, ClearReturns, RunnerRaises, VerifyRecovery,
                  CollectRecoveryBundle,
                  RejectPrecondition, BuildRecord, PollAgain, PollTimesOut, PollSucceeds, Raise,
                  AfterRestore, Sampling, Called
    <3>2. Standing' = Standing /\ Verdict' = Verdict
      BY <3>1 DEF Standing, Verdict
    <3> QED
      BY <2>1, <3>2 DEF Contract!vars, Standing, Verdict
  <2>5. CASE Environment \/ UNCHANGED vars
    <3>1. UNCHANGED <<pc, raised, record, lab>>
      BY <2>5 DEF Environment, LateCommand, SessionConverges, RouteConverges, SessionFlaps, vars,
                  run, net
    <3>2. Standing' = Standing /\ Verdict' = Verdict
      BY <3>1 DEF Standing, Verdict
    <3> QED
      BY <2>1, <3>2 DEF Contract!vars, Standing, Verdict
  <2>6. Step => pc # "done"
    BY DEF Step, StartLab, ObserveTarget, CollectorFails, Converge, CollectBaseline,
           ValidatePreconditions, Inject, InjectReturns, VerifyOnset, CollectOnsetBundle,
           Restore, RevertReturns, ClearReturns, RunnerRaises, VerifyRecovery,
           CollectRecoveryBundle, RejectPrecondition, BuildRecord, StopLab, Assemble, Sampling, Called
  <2> QED
    BY <2>2, <2>3, <2>4, <2>5, <2>6 DEF Next, Finished
<1> QED
  BY <1>1, <1>2, AppendsAreLegal

\* A caller sees what IncidentContract promises: at most one fault, put back at most
\* once and after it, one verdict, and a verdict other than "failed" only without a lab
\* and for a network in the state it says (orchestrator/live_run.py).
THEOREM RunKeepsContract == Spec => ContractSafety
<1>1. Init => Contract!Init
  BY DEF Init, Contract!Init, NetworkView, Appended
<1>2. TypeOK /\ ControlInv /\ VerdictInv /\ HistoryInv /\ [Next]_vars
        => [Contract!Next]_(Contract!vars)
  BY ContractStep
<1> QED
  BY <1>1, <1>2, TypeCorrect, ControlCorrect, VerdictCorrect, HistoryCorrect, PTL
  DEF Spec, ContractSafety

=============================================================================
