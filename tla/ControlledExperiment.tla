-------------------------- MODULE ControlledExperiment --------------------------
(***************************************************************************)
(* A controlled experiment (experiment/store.py and its operational test): *)
(* a specification is preregistered, a base model and a trained checkpoint *)
(* are bundled and evaluated on the same corpus, and the result is         *)
(* finalized in the directory of the specification.  Inference may fail,   *)
(* the base model's directory may change, and the operator's process may   *)
(* be cut off and started again.                                           *)
(***************************************************************************)
EXTENDS Evaluation, ArtifactDirectory

CONSTANTS
  Specs,          \* specifications: [plan, minimum]; the content is the id
  Configs,        \* prompt, decoding and normalization settings, taken together
  BaseModel,      \* the content of the base model's directory, as it was approved
  Contents,       \* what that directory may become
  Checkpoint,     \* the content of the trained checkpoint
  Answers,        \* for each example, the texts that a model may answer
  Failures,       \* how a backend may fail
  Order,          \* the order of predictor ids
  InterpretationPolicy,
  MaxFaults,      \* cut-offs, changes of the directory, failing examples together
  MaxAttempts

ASSUME FailuresAssumption == Failures \subseteq BackendReasons \ {Absent}
ASSUME SpecsAssumption == \A s \in Specs : s.minimum \in Nat

VARIABLES
  baseDir,      \* the content of the base model's directory
  answers,      \* model content -> its answers, settled when it first generates
  evaluations,  \* evaluation runs stored by the attempts
  experiments,  \* experiments root: specification -> directory
  attempt,      \* what the operator's process is doing
  attempts, efaults

xvars == <<baseDir, answers, evaluations, experiments, attempt, attempts, efaults>>

NoAttempt == [step |-> "idle"]

XInit ==
  /\ baseDir = BaseModel
  /\ answers = << >>
  /\ evaluations = {}
  /\ experiments = [s \in Specs |-> NoDirectory]
  /\ attempt = NoAttempt
  /\ attempts = 0 /\ efaults = 0

(***************************************************************************)
(* Preregistration: marker and specification; the marker stays.            *)
(***************************************************************************)
SpecFile == "experiment-spec.json"

\* An operator who is cut off goes on with a specification that is in its place.
Begin(spec, config) ==
  /\ attempt.step = "idle" /\ attempts < MaxAttempts
  /\ attempts' = attempts + 1
  /\ \/ /\ Vacant(experiments[spec])
        /\ experiments' = [experiments EXCEPT ![spec] = Put(@, Marker, Subdirectory)]
        /\ attempt' = [step |-> "preregister", spec |-> spec, config |-> config]
     \/ /\ SpecFile \in Entries(experiments[spec])
        /\ attempt' = [step |-> "bundle", spec |-> spec, config |-> config]
        /\ UNCHANGED experiments
  /\ UNCHANGED <<baseDir, answers, evaluations, efaults>>

PersistSpec ==
  /\ attempt.step = "preregister"
  /\ experiments' = [experiments EXCEPT ![attempt.spec] = Put(@, SpecFile, attempt.spec)]
  /\ attempt' = [attempt EXCEPT !.step = "bundle"]
  /\ UNCHANGED <<baseDir, answers, evaluations, attempts, efaults>>

(***************************************************************************)
(* Evaluation                                                              *)
(***************************************************************************)
\* The two bundles; the predictor ids bind the contents, and the settings.
Bundle ==
  /\ attempt.step = "bundle"
  /\ attempt' =
       [step |-> "evaluate-base", spec |-> attempt.spec,
        base |-> [name |-> "base", model |-> baseDir, config |-> "matched"],
        trained |-> [name |-> "trained", model |-> Checkpoint, config |-> attempt.config]]
  /\ UNCHANGED <<baseDir, answers, evaluations, experiments, attempts, efaults>>

\* Mutant: what is in the directory only has to be a model.
ReverifyAnyContent(model) == baseDir \in Contents \cup {BaseModel}

\* VerifiedBaseModelBundle.reverify: the hashes are compared again.
Reverify(model) == baseDir = model

\* The answers of a content: the ones it has given before, or any.
AnswersOf(content) ==
  IF content \in DOMAIN answers THEN {answers[content]}
  ELSE { a \in [Ids -> UNION { Answers[id] : id \in Ids }] : \A id \in Ids : a[id] \in Answers[id] }

Learn(content, a) ==
  answers' = [c \in DOMAIN answers \cup {content} |-> IF c = content THEN a ELSE answers[c]]

\* evaluate_prepared_corpus: the backend loads the model at the first example and
\* keeps it; "failing" are the examples for which it fails.
Evaluate(predictor, content, a, failing, how) ==
  EvaluationRun(predictor,
    [id \in Ids |-> Predict(IF id \in failing THEN [failure |-> how, text |-> Absent]
                            ELSE [failure |-> Absent, text |-> a[id]])])

\* write_evaluation verifies what it wrote, and audits it.  Each attempt may have an
\* evaluations root of its own: that a run is there already is no reason to refuse.
Store(run) == AuditEvaluationRun(run) /\ evaluations' = evaluations \cup {run}

MayFail(failing) ==
  /\ efaults + Cardinality(failing) <= MaxFaults
  /\ efaults' = efaults + Cardinality(failing)

EvaluateBase(failing, how) ==
  /\ attempt.step = "evaluate-base"
  /\ MayFail(failing)
  /\ \/ /\ ~Reverify(attempt.base.model) /\ failing = {}
        /\ attempt' = NoAttempt
        /\ UNCHANGED <<answers, evaluations>>
     \/ /\ Reverify(attempt.base.model)
        /\ \E a \in AnswersOf(baseDir) :
             LET run == Evaluate(attempt.base, baseDir, a, failing, how)
             IN /\ Learn(baseDir, a) /\ Store(run)
                /\ attempt' = [step |-> "evaluate-trained", spec |-> attempt.spec,
                               trained |-> attempt.trained, baseRun |-> run]
  /\ UNCHANGED <<baseDir, experiments, attempts>>

EvaluateTrained(failing, how) ==
  /\ attempt.step = "evaluate-trained"
  /\ MayFail(failing)
  /\ \E a \in AnswersOf(Checkpoint) :
       LET run == Evaluate(attempt.trained, Checkpoint, a, failing, how)
       IN /\ Learn(Checkpoint, a) /\ Store(run)
          /\ attempt' = [step |-> "benchmark", spec |-> attempt.spec,
                         baseRun |-> attempt.baseRun, trainedRun |-> run]
  /\ UNCHANGED <<baseDir, experiments, attempts>>

(***************************************************************************)
(* Benchmark, comparison and result                                        *)
(***************************************************************************)
FixedRun == EvaluationRun([name |-> "fixed", model |-> Absent, config |-> Absent],
  [id \in Ids |-> FixedPriorPredict(CHOOSE f \in Candidate : TRUE)])

RuleRun == EvaluationRun([name |-> "rule", model |-> Absent, config |-> Absent],
  [id \in Ids |-> EvidenceRulePredict(ExampleOf(id), CHOOSE f \in Candidate : TRUE)])

\* run_benchmark evaluates every predictor once more, with the models still loaded.
Again(run, failing, how) ==
  Evaluate(run.predictor, run.predictor.model, answers[run.predictor.model], failing, how)

BenchmarkRanking(base, trained) ==
  LET ranked == Ranking({ ComparisonRow(r) : r \in {FixedRun, RuleRun, base, trained} }, Order)
  IN [k \in DOMAIN ranked |-> ranked[k].predictor.name]

Reliability(base, trained) ==
  [base |-> ParserStatistics(base), trained |-> ParserStatistics(trained)]

ContentOrder ==
  <<"training-binding.json", "checkpoint-binding.json", "evaluation-bindings.json",
    "benchmark-binding.json", "paired-summary.json", "reliability-summary.json",
    "interpretation.json">>

ExperimentLayout == [subdirs |-> << >>, files |-> Append(ContentOrder, SpecFile) \o <<Manifest>>]

BuildResult(spec, base, trained, metrics) ==
  [spec |-> spec, metrics |-> metrics, success |-> SuccessChecks(metrics, spec),
   outcome |-> ClassifyOutcome(metrics, spec),
   base |-> EvaluationId(base), trained |-> EvaluationId(trained), checkpoint |-> Checkpoint]

\* The seven content files and the manifest of a finalization.  The caller says that
\* the comparison is unconfounded when its fairness check does, as every caller does.
Finalization(spec, base, trained, ranking, reliability) ==
  LET comparison == BuildPairedComparison(base, trained)
      result == BuildResult(spec, base, trained,
                            ExtractPrimaryMetrics(base, trained, comparison.fair))
      content ==
        [f \in Files(ExperimentLayout) \ {Manifest} |->
           CASE f = SpecFile -> spec
             [] f = "training-binding.json" -> [spec |-> spec, plan |-> spec.plan]
             [] f = "checkpoint-binding.json" ->
                  [spec |-> spec, plan |-> spec.plan, checkpoint |-> Checkpoint]
             [] f = "evaluation-bindings.json" ->
                  [spec |-> spec, fixed |-> EvaluationId(FixedRun), rule |-> EvaluationId(RuleRun),
                   base |-> EvaluationId(base), trained |-> EvaluationId(trained)]
             [] f = "benchmark-binding.json" -> [spec |-> spec, ranking |-> ranking]
             [] f = "paired-summary.json" ->
                  [spec |-> spec, conclusion |-> Interpret(comparison, InterpretationPolicy),
                   tests |-> PairedCounts(base, trained, PartitionIds("test"))]
             [] f = "reliability-summary.json" ->
                  [spec |-> spec, base |-> reliability.base, trained |-> reliability.trained]
             [] f = "interpretation.json" -> result]
  IN Put(content, Manifest, [files |-> content, outcome |-> result.outcome])

\* EvaluationBindings' validator.
BindsDistinctRuns(evaluated) ==
  /\ Cardinality({evaluated.fixed, evaluated.rule, evaluated.base, evaluated.trained}) = 4
  /\ evaluated.base.predictor # evaluated.trained.predictor

\* _cross_checks, of bindings that are valid.
CrossChecks(d, spec) ==
  LET metrics == d["interpretation.json"].metrics
      tests == d["paired-summary.json"].tests
      reliability == d["reliability-summary.json"]
      evaluated == d["evaluation-bindings.json"]
      ranked == { d["benchmark-binding.json"].ranking[k] :
                    k \in DOMAIN d["benchmark-binding.json"].ranking }
  IN /\ \A f \in { ContentOrder[k] : k \in DOMAIN ContentOrder } : d[f].spec = spec
     /\ d["training-binding.json"].plan = spec.plan
     /\ d["checkpoint-binding.json"].plan = d["training-binding.json"].plan
     /\ d["interpretation.json"].checkpoint = d["checkpoint-binding.json"].checkpoint
     /\ BindsDistinctRuns(evaluated)
     /\ d["interpretation.json"].base = evaluated.base
     /\ d["interpretation.json"].trained = evaluated.trained
     /\ tests.wins = metrics.wins /\ tests.losses = metrics.losses
     /\ tests.differed = metrics.differed
     /\ reliability.base.invalid = metrics.baseInvalid
     /\ reliability.trained.invalid = metrics.trainedInvalid
     /\ reliability.base.evaluation = evaluated.base
     /\ reliability.trained.evaluation = evaluated.trained
     /\ {evaluated.base.predictor.name, evaluated.trained.predictor.name} \subseteq ranked

\* verify_controlled_experiment, the marker left aside.
ExperimentVerifies(d) ==
  /\ FilesVerify(d, ExperimentLayout)
  /\ d[Manifest].outcome = d["interpretation.json"].outcome
  /\ d["interpretation.json"].outcome = ClassifyOutcome(d["interpretation.json"].metrics, d[SpecFile])
  /\ d["interpretation.json"].success = SuccessChecks(d["interpretation.json"].metrics, d[SpecFile])
  /\ CrossChecks(d, d[SpecFile])

ExperimentReadable(spec) ==
  Unmarked(experiments[spec]) /\ Manifest \in Entries(experiments[spec])
    /\ ExperimentVerifies(experiments[spec])

\* Mutant: a finalized experiment may be finalized once more.
FinalizableAgain(d, spec) == SpecFile \in Entries(d) /\ d[SpecFile] = spec

Finalizable(d, spec) ==
  /\ SpecFile \in Entries(d)
  /\ d[SpecFile] = spec
  /\ Manifest \notin Entries(d)

\* Benchmark, comparison and report, up to the refusals of write_experiment_result.
\* The reliability that the caller hands over is that of the stored runs, or that of
\* the benchmark's own runs, which its report has.
Benchmark(failing, how) ==
  LET base == attempt.baseRun
      trained == attempt.trainedRun
      baseAgain == Again(base, failing, how)
      trainedAgain == Again(trained, failing, how)
      comparison == BuildPairedComparison(base, trained)
  IN /\ attempt.step = "benchmark"
     /\ MayFail(failing)
     /\ \E reliability \in {Reliability(base, trained), Reliability(baseAgain, trainedAgain)} :
          LET artifact == Finalization(attempt.spec, base, trained,
                                       BenchmarkRanking(baseAgain, trainedAgain), reliability)
          IN /\ ComparisonIsConsistent(comparison, artifact["paired-summary.json"].conclusion,
                                       InterpretationPolicy)
             /\ IF /\ Finalizable(experiments[attempt.spec], attempt.spec)
                   /\ CrossChecks(artifact, attempt.spec)
                THEN /\ attempt' = [step |-> "finalize", spec |-> attempt.spec, pos |-> 1,
                                    artifact |-> artifact]
                     /\ experiments' =
                          [experiments EXCEPT ![attempt.spec] = Put(@, Marker, Subdirectory)]
                ELSE attempt' = NoAttempt /\ UNCHANGED experiments
     /\ UNCHANGED <<baseDir, answers, evaluations, attempts>>

WriteContent ==
  LET names == Append(ContentOrder, Manifest)
  IN /\ attempt.step = "finalize" /\ attempt.pos <= Len(names)
     /\ experiments' = [experiments EXCEPT ![attempt.spec] =
                          Install(@, names[attempt.pos], attempt.artifact)]
     /\ attempt' = [attempt EXCEPT !.pos = @ + 1]
     /\ UNCHANGED <<baseDir, answers, evaluations, attempts, efaults>>

FinishExperiment ==
  /\ attempt.step = "finalize" /\ attempt.pos = Len(ContentOrder) + 2
  /\ experiments' = [experiments EXCEPT ![attempt.spec] =
                       IF ExperimentVerifies(@) THEN Drop(@, Marker) ELSE @]
  /\ attempt' = NoAttempt
  /\ UNCHANGED <<baseDir, answers, evaluations, attempts, efaults>>

CutOffAttempt ==
  /\ efaults < MaxFaults /\ attempt.step # "idle"
  /\ efaults' = efaults + 1
  /\ attempt' = NoAttempt
  /\ UNCHANGED <<baseDir, answers, evaluations, experiments, attempts>>

\* The directory matters until the backend has loaded the model.
ReplaceBaseModel(content) ==
  /\ efaults < MaxFaults /\ content # baseDir
  /\ attempt.step \in {"idle", "evaluate-base"}
  /\ efaults' = efaults + 1
  /\ baseDir' = content
  /\ UNCHANGED <<answers, evaluations, experiments, attempt, attempts>>

XNext ==
  \/ \E s \in Specs, c \in Configs : Begin(s, c)
  \/ PersistSpec \/ Bundle
  \/ \E failing \in SUBSET Ids, how \in Failures :
       \/ EvaluateBase(failing, how) \/ EvaluateTrained(failing, how)
       \/ Benchmark(failing, how)
  \/ WriteContent \/ FinishExperiment \/ CutOffAttempt
  \/ \E c \in Contents : ReplaceBaseModel(c)

XSpec == XInit /\ [][XNext]_xvars

(***************************************************************************)
(* Properties                                                              *)
(***************************************************************************)
Finalized == { s \in Specs : ExperimentReadable(s) }

\* Every prediction of a stored run is what the model named by its predictor id
\* answered, or a failure of the backend, and it is valid just when the answer meets
\* the response schema: although the base model's directory may be replaced between
\* the bundle and the first prediction (basemodel.py:196, hfinference.py:98).
PredictionsAreOfTheNamedModel ==
  \A run \in evaluations : \A id \in Ids :
    LET prediction == run.records[id].prediction
    IN \/ prediction.reason \in BackendReasons
       \/ /\ run.predictor.model \in DOMAIN answers
          /\ LET answer == answers[run.predictor.model][id]
             IN /\ prediction = Predict([failure |-> Absent, text |-> answer])
                /\ (prediction.kind # "invalid") = SchemaCompliant(answer)

\* A finalized outcome agrees with the rest of what it is finalized with: "improved"
\* just when every preregistered criterion holds, and then the paired comparison,
\* which is computed apart and on more examples, does not say the opposite; a
\* confounded comparison is never an outcome; and the accuracies, taken from each
\* run's own metrics, differ by the wins less the losses of the pairing.
OutcomeFollowsEvidence ==
  \A s \in Finalized :
    LET result == experiments[s]["interpretation.json"]
        conclusion == experiments[s]["paired-summary.json"].conclusion
        m == result.metrics
    IN /\ (result.outcome = "improved") = SuccessChecks(m, s)
       /\ result.outcome = "improved" =>
            conclusion \in {"better_on_this_corpus", "mixed_on_this_corpus",
                            "inconclusive_underpowered"}
       /\ (result.outcome = "experiment_failed") = (conclusion = "confounded")
       /\ m.trainedCorrect - m.baseCorrect = m.wins - m.losses

\* What was finalized is never finalized again with other results, whatever was cut
\* off and however often the operator tries (store.py:568).
FinalizedStands ==
  [][\A s \in Finalized : experiments'[s] = experiments[s]]_xvars

\* experiment/spec.py:393: "infrastructure_failure=>experiment_failed_never_model_quality".
InfrastructureIsNotQuality ==
  \A s \in Finalized :
    LET bound == experiments[s]["evaluation-bindings.json"]
    IN (\E run \in {bound.base, bound.trained}, id \in Ids :
          run.predictions[id].reason \in BackendReasons)
         => experiments[s]["interpretation.json"].outcome = "experiment_failed"
================================================================================
