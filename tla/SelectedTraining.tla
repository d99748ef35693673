--------------------------- MODULE SelectedTraining ---------------------------
(***************************************************************************)
(* From the selection of sources to executions: a corpus is selected, a    *)
(* plan counts its examples, and the engine executes and resumes the plan. *)
(***************************************************************************)
EXTENDS TrainingEngine, CorpusSelection

CONSTANTS
  Sources,             \* the prepared corpora considered
  SelectionPolicies,
  Batches, Windows,    \* batch sizes and accumulation counts
  Epochs, StepBudgets

\* A prepared corpus as PreparedCorpus stores it, a policy as its validator
\* leaves it, and a training configuration's batch size.
ASSUME SourcesAssumption ==
  \A rows \in Sources :
    rows \in Seq([group : Nat, family : STRING, partition : STRING, kind : STRING])
ASSUME SelectionPoliciesAssumption ==
  \A p \in SelectionPolicies :
    p.order \in Seq(STRING) /\ \A f \in Range(p.order) : p.quota[f] \in Nat
ASSUME BatchesAssumption == Batches \subseteq Nat \ {0}

VARIABLES
  prepared,            \* the prepared corpus, the policy of the selection and
  selection,           \* the batch size: fixed at the start
  batchSize

selectedVars == <<engineVars, prepared, selection, batchSize>>

Selection(p, rows) == [policy |-> p, ids |-> SelectedSources(rows, p)]

Corpus == EvidenceCorpus(prepared, selection.ids)

SelectedInit ==
  /\ prepared \in Sources
  /\ selection \in { Selection(p, prepared) :
                       p \in { p \in SelectionPolicies : /\ SelectionPolicyIsValid(p)
                                                         /\ CanSelect(prepared, p) } }
  /\ CanBuildCorpus(prepared, selection.ids)
  /\ batchSize \in Batches
  /\ plan \in { EpochPlan(Len(Corpus), batchSize, g, n) : g \in Windows, n \in Epochs }
              \cup { StepPlan(Len(Corpus), batchSize, g, s) : g \in Windows, s \in StepBudgets }
  /\ plan \in Plans
  /\ policy \in Policies
  /\ chain = << >>

SelectedNext == EngineNext /\ UNCHANGED <<prepared, selection, batchSize>>

SelectedSpec == SelectedInit /\ [][SelectedNext]_selectedVars

(***************************************************************************)
(* Properties                                                              *)
(***************************************************************************)
\* The examples of a batch of the corpus.
Batch(b) == { Corpus[i] : i \in (b * batchSize + 1) .. Len(Corpus) }
            \ { Corpus[i] : i \in ((b + 1) * batchSize + 1) .. Len(Corpus) }

\* A completed chain of executions goes through the corpus in order, and under an
\* epoch budget it trains each family exactly as often as the selection policy
\* says, epoch by epoch: although the corpus keeps its examples in another order
\* than the selection, batches cut across families, and the chain may have been
\* stopped and resumed anywhere (evidence_corpus.py:151, engine.py:15).
CompletedChainTrainsTheSelection ==
  /\ CompletedChainTrainsInOrder
  /\ chain # << >> /\ Latest.final = "completed" /\ plan.epochs # Absent =>
       LET trained == Trained
           of(f) == { x \in Range(Corpus) : prepared[x].family = f }
       IN \A f \in Range(selection.policy.order), e \in 0 .. (plan.epochs - 1) :
            Cardinality({ t \in (DOMAIN trained) \X of(f) :
                            /\ trained[t[1]].epoch = e
                            /\ t[2] \in Batch(trained[t[1]].batch) })
              = selection.policy.quota[f]

\* Runs of one group are near copies of each other.  A selection that fills the
\* quota of a family from its groups in turn is ahead of a group by two runs only when
\* it has taken all that this group has, whatever the other groups have
\* (selection.py:378).
GroupsAreSpread ==
  selection.policy.fill = "groups" =>
    \A f \in Range(selection.policy.order) :
      LET all(g) == { i \in OfFamily(prepared, f) : prepared[i].group = g }
          taken(g) == all(g) \cap Range(selection.ids)
      IN \A g, h \in GroupsOf(prepared, OfFamily(prepared, f)) :
           Cardinality(taken(g)) > Cardinality(taken(h)) + 1 => taken(h) = all(h)
===============================================================================
