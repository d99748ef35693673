------------------------------- MODULE Evaluation -------------------------------
(***************************************************************************)
(* The pure core of evaluation/ and experiment/analysis.py: what a         *)
(* predictor makes of a backend's answer, how a record is scored, the      *)
(* metrics of a run, the ranking of a benchmark, the paired comparison of  *)
(* two runs and the outcome of a preregistered experiment.                 *)
(***************************************************************************)
EXTENDS Naturals, Integers, Sequences, FiniteSets, SequencesExt

CONSTANTS
  Corpus,      \* prepared examples: [id, partition, kind, family, onset]
  Families,    \* candidate families of the prompt template, as written there
  Normalize,   \* NormalizationPolicy: a family as written -> its normal form
  Absent

BackendReasons == {"backend_unavailable", "inference_timeout", "backend_error"}
AcceptedPartitions == {"train", "validation", "test"}

\* Every accepted example is in a split, and no abstention is (datasets/features.py).
ASSUME CorpusAssumption ==
  /\ IsFiniteSet(Corpus)
  /\ \A e \in Corpus : (e.kind = "accepted_fault") <=> (e.partition \in AcceptedPartitions)

Ids == { e.id : e \in Corpus }
ExampleOf(id) == CHOOSE e \in Corpus : e.id = id
Accepted(id) == ExampleOf(id).kind = "accepted_fault"
Target(id) == IF Accepted(id) THEN ExampleOf(id).family ELSE "abstain"

(***************************************************************************)
(* Predictions                                                             *)
(***************************************************************************)
Diagnosis(family) == [kind |-> "diagnosis", family |-> family, reason |-> Absent, raw |-> Absent]
Abstention(reason) == [kind |-> "abstention", family |-> Absent, reason |-> reason, raw |-> Absent]
Invalid(reason, raw) == [kind |-> "invalid", family |-> Absent, reason |-> reason, raw |-> raw]

Candidate == { Normalize[f] : f \in Families }

\* A response: whether it is JSON, an object, its fields; "looks" is its text.
ParseBackendResponse(text) ==
  LET invalid(reason) == Invalid(reason, text.looks)
  IN CASE ~text.json -> invalid("malformed_json")
       [] text.json /\ ~text.object -> invalid("not_an_object")
       [] text.json /\ text.object /\ text.type = "abstention" -> Abstention("model_abstained")
       [] text.json /\ text.object /\ text.type = "diagnosis" ->
            IF text.family = Absent THEN invalid("missing_fault_family")
            ELSE IF Normalize[text.family] \notin Candidate THEN invalid("unknown_fault_family")
            ELSE Diagnosis(Normalize[text.family])
       [] OTHER -> invalid("unsupported_prediction_type")

\* validate_response_schema, the second reading of the same text.
SchemaCompliant(text) ==
  /\ text.json /\ text.object
  /\ \/ text.type = "abstention"
     \/ /\ text.type = "diagnosis" /\ text.family # Absent
        /\ Normalize[text.family] \in Candidate

\* predict() of the model predictors: a failing backend gives a prediction as well.
Predict(reply) ==
  IF reply.failure # Absent THEN Invalid(reply.failure, reply.failure)
  ELSE ParseBackendResponse(reply.text)

FixedPriorPredict(family) == Diagnosis(family)

EvidenceRulePredict(example, family) ==
  IF example.onset THEN Diagnosis(family) ELSE Abstention("no_onset_evidence")

(***************************************************************************)
(* Records and runs.  A run: its predictor, and a record for each example. *)
(***************************************************************************)
CorrectOutcomes == {"correct_diagnosis", "correct_abstention"}

Score(prediction, id) ==
  CASE prediction.kind = "invalid" -> "invalid_prediction"
    [] prediction.kind = "abstention" ->
         IF Accepted(id) THEN "abstained_on_diagnosis" ELSE "correct_abstention"
    [] prediction.kind = "diagnosis" ->
         IF ~Accepted(id) THEN "false_diagnosis_on_rejected"
         ELSE IF Normalize[ExampleOf(id).family] = Normalize[prediction.family]
              THEN "correct_diagnosis" ELSE "incorrect_diagnosis"

BuildRecord(id, prediction) ==
  LET outcome == Score(prediction, id)
  IN [prediction |-> prediction, target |-> Target(id), outcome |-> outcome,
      correct |-> outcome \in CorrectOutcomes]

PartitionIds(partition) == { id \in Ids : ExampleOf(id).partition = partition }

AcceptedPartitionMetrics(records, partition) ==
  LET members == { id \in PartitionIds(partition) : Accepted(id) }
      with(outcomes) == Cardinality({ id \in members : records[id].outcome \in outcomes })
  IN [evaluated |-> Cardinality(members),
      correct |-> with({"correct_diagnosis"}),
      incorrect |-> with({"incorrect_diagnosis", "invalid_prediction"}),
      abstained |-> with({"abstained_on_diagnosis"})]

AbstentionMetrics(records) ==
  LET members == { id \in Ids : ~Accepted(id) }
      with(outcome) == Cardinality({ id \in members : records[id].outcome = outcome })
  IN [count |-> Cardinality(members), correct |-> with("correct_abstention"),
      false |-> with("false_diagnosis_on_rejected")]

AggregateMetrics(records) ==
  [accepted |-> [p \in AcceptedPartitions |-> AcceptedPartitionMetrics(records, p)],
   abstention |-> AbstentionMetrics(records)]

\* Confusion counts of the accepted examples with a valid prediction.
Confusion(records) ==
  LET counted == { id \in Ids : Accepted(id) /\ records[id].prediction.kind # "invalid" }
      cell(id) == <<records[id].target,
                    IF records[id].prediction.kind = "diagnosis"
                    THEN records[id].prediction.family ELSE "abstain">>
  IN [c \in { cell(id) : id \in counted } |->
        Cardinality({ id \in counted : cell(id) = c })]

EvaluationRun(predictor, predictions) ==
  LET records == [id \in Ids |-> BuildRecord(id, predictions[id])]
  IN [predictor |-> predictor, records |-> records,
      metrics |-> AggregateMetrics(records), confusion |-> Confusion(records)]

\* audit_evaluation_run, which verify_evaluation runs on what was stored.
AuditEvaluationRun(run) ==
  /\ \A id \in Ids : run.records[id] = BuildRecord(id, run.records[id].prediction)
  /\ run.metrics = AggregateMetrics(run.records)
  /\ run.confusion = Confusion(run.records)

EvaluationId(run) ==
  [predictor |-> run.predictor, metrics |-> run.metrics,
   predictions |-> [id \in Ids |-> run.records[id].prediction]]

(***************************************************************************)
(* Parser statistics                                                       *)
(***************************************************************************)
MalformedCategories ==
  {"empty_output", "degenerate_repetition", "truncated_json", "prose_wrapped_json",
   "malformed_other"}

ClassifyInvalidOutput(prediction) ==
  CASE prediction.reason \in BackendReasons -> "backend_failure"
    [] prediction.reason = "not_an_object" -> "non_object_json"
    [] prediction.reason = "missing_fault_family" -> "missing_required_field"
    [] prediction.reason = "unknown_fault_family" -> "out_of_schema_value"
    [] prediction.reason = "unsupported_prediction_type" -> "unsupported_prediction_type"
    [] OTHER -> prediction.raw

ParserStatistics(run) ==
  LET invalid == { id \in Ids : run.records[id].prediction.kind = "invalid" }
      category(id) == ClassifyInvalidOutput(run.records[id].prediction)
      malformed == { id \in invalid : category(id) \in MalformedCategories }
      backend == { id \in invalid : category(id) = "backend_failure" }
  IN [evaluation |-> EvaluationId(run), predictor |-> run.predictor,
      valid |-> Cardinality(Ids \ invalid), invalid |-> Cardinality(invalid),
      jsonValid |-> Cardinality(Ids \ (malformed \cup backend)),
      malformed |-> Cardinality(malformed), backend |-> Cardinality(backend)]

(***************************************************************************)
(* Benchmark: a row for each predictor, and their total order.             *)
(***************************************************************************)
ComparisonRow(run) ==
  LET accepted == { id \in Ids : Accepted(id) }
      abstained == run.metrics.abstention
  IN [predictor |-> run.predictor, evaluation |-> EvaluationId(run),
      correct |-> Quantify(accepted, LAMBDA id : run.records[id].correct),
      abstentions |-> abstained.correct,
      invalid |-> Quantify(Ids, LAMBDA id : run.records[id].prediction.kind = "invalid")]

\* Every run has the same examples, so that counts compare as the ratios do.
RanksBefore(r, s, order) ==
  \/ r.correct > s.correct
  \/ r.correct = s.correct /\ r.abstentions > s.abstentions
  \/ r.correct = s.correct /\ r.abstentions = s.abstentions /\ r.invalid < s.invalid
  \/ /\ r.correct = s.correct /\ r.abstentions = s.abstentions /\ r.invalid = s.invalid
     /\ order[r.predictor.name] < order[s.predictor.name]

Ranking(rows, order) == SetToSortSeq(rows, LAMBDA r, s : RanksBefore(r, s, order))

(***************************************************************************)
(* Paired comparison of a base and a trained run                           *)
(***************************************************************************)
\* assess_matched_pair_fairness: everything but the model is the same.  A predictor:
\* [name, model, config].
Fair(base, trained) ==
  /\ base.predictor.config = trained.predictor.config
  /\ base.predictor # trained.predictor

Classify(b, t) ==
  CASE b.correct /\ t.correct -> "unchanged_correct"
    [] b.correct /\ ~t.correct -> "regressed"
    [] ~b.correct /\ t.correct -> "improved"
    [] OTHER -> IF b.prediction = t.prediction THEN "unchanged_incorrect"
                ELSE "changed_but_still_incorrect"

\* comparison.py compares whole predictions, analysis.py what they say.
Says(prediction) ==
  CASE prediction.kind = "diagnosis" -> <<"diagnosis", prediction.family>>
    [] prediction.kind = "abstention" -> <<"abstain", "">>
    [] OTHER -> <<"invalid", prediction.reason>>

PairedCounts(base, trained, ids) ==
  [total |-> Cardinality(ids),
   wins |-> Quantify(ids, LAMBDA id : ~base.records[id].correct /\ trained.records[id].correct),
   losses |-> Quantify(ids, LAMBDA id : base.records[id].correct /\ ~trained.records[id].correct),
   differed |-> Quantify(ids, LAMBDA id :
     Says(base.records[id].prediction) # Says(trained.records[id].prediction))]

ComparisonCounts(base, trained, ids) ==
  LET transitions(kind) ==
        Quantify(ids, LAMBDA id : Classify(base.records[id], trained.records[id]) = kind)
  IN [total |-> Cardinality(ids),
      wins |-> transitions("improved"), losses |-> transitions("regressed"),
      differed |-> Quantify(ids, LAMBDA id :
        base.records[id].prediction # trained.records[id].prediction)]

NonTrain == { id \in Ids : ExampleOf(id).partition # "train" }

BuildPairedComparison(base, trained) ==
  [base |-> EvaluationId(base), trained |-> EvaluationId(trained),
   fair |-> Fair(base, trained), tests |-> Cardinality(PartitionIds("test")),
   disagreements |-> { id \in Ids : base.records[id].prediction # trained.records[id].prediction },
   all |-> ComparisonCounts(base, trained, Ids),
   nonTrain |-> ComparisonCounts(base, trained, NonTrain)]

\* policy: [tests, changed], the least numbers that support a conclusion.
Interpret(comparison, policy) ==
  LET c == comparison.nonTrain
  IN CASE ~comparison.fair -> "confounded"
       [] comparison.fair /\ c.differed = 0 -> "no_observed_effect"
       [] comparison.fair /\ c.differed > 0 ->
            IF comparison.tests < policy.tests \/ c.differed < policy.changed
              THEN "inconclusive_underpowered"
            ELSE IF c.wins > 0 /\ c.losses = 0 THEN "better_on_this_corpus"
            ELSE IF c.losses > 0 /\ c.wins = 0 THEN "worse_on_this_corpus"
            ELSE IF c.wins > 0 /\ c.losses > 0 THEN "mixed_on_this_corpus"
            ELSE "unchanged_on_this_corpus"

\* verify_comparison, beyond the hashes.
ComparisonIsConsistent(comparison, conclusion, policy) ==
  /\ Cardinality(comparison.disagreements) = comparison.all.differed
  /\ conclusion = Interpret(comparison, policy)

(***************************************************************************)
(* The outcome of an experiment (experiment/analysis.py)                   *)
(***************************************************************************)
ExtractPrimaryMetrics(base, trained, unconfounded) ==
  LET paired == PairedCounts(base, trained, PartitionIds("test"))
      tests(run) == run.metrics.accepted["test"]
  IN [eligible |-> tests(base).evaluated,
      baseCorrect |-> tests(base).correct, trainedCorrect |-> tests(trained).correct,
      wins |-> paired.wins, losses |-> paired.losses, differed |-> paired.differed,
      baseInvalid |-> ParserStatistics(base).invalid,
      trainedInvalid |-> ParserStatistics(trained).invalid,
      baseAbstention |-> base.metrics.abstention.correct,
      trainedAbstention |-> trained.metrics.abstention.correct,
      unconfounded |-> unconfounded]

\* success_policy_checks: all of them, under a policy [minimum].
SuccessChecks(m, policy) ==
  /\ m.eligible >= policy.minimum
  /\ m.unconfounded
  /\ m.trainedCorrect > m.baseCorrect
  /\ m.wins > m.losses
  /\ m.trainedInvalid <= m.baseInvalid
  /\ m.trainedAbstention >= m.baseAbstention

\* Mutant: fewer correct abstentions do not stand in the way of "improved".
ClassifyOutcomeWithoutAbstention(m, policy) ==
  LET up == m.trainedCorrect > m.baseCorrect /\ m.wins > m.losses
              /\ m.trainedInvalid <= m.baseInvalid
  IN CASE ~m.unconfounded -> "experiment_failed"
       [] m.unconfounded /\ m.eligible < policy.minimum -> "inconclusive"
       [] OTHER -> IF up THEN "improved" ELSE "regressed"

ClassifyOutcome(m, policy) ==
  LET degradation == \/ m.trainedCorrect < m.baseCorrect \/ m.trainedInvalid > m.baseInvalid
                     \/ m.trainedAbstention < m.baseAbstention \/ m.wins < m.losses
      improvement == \/ m.trainedCorrect > m.baseCorrect \/ m.trainedInvalid < m.baseInvalid
                     \/ m.trainedAbstention > m.baseAbstention \/ m.wins > m.losses
      improved == /\ m.trainedCorrect > m.baseCorrect /\ m.wins > m.losses
                  /\ m.trainedInvalid <= m.baseInvalid
                  /\ m.trainedAbstention >= m.baseAbstention
  IN CASE ~m.unconfounded -> "experiment_failed"
       [] m.unconfounded /\ m.eligible < policy.minimum -> "inconclusive"
       [] OTHER -> IF improved THEN "improved"
                   ELSE IF degradation /\ improvement THEN "mixed"
                   ELSE IF degradation THEN "regressed"
                   ELSE IF improvement THEN "mixed"
                   ELSE "unchanged"
================================================================================
