----------------------- MODULE ControlledExperimentProofs -----------------------
(***************************************************************************)
(* Theorems about ControlledExperiment, for every corpus, specification,   *)
(* model and answer, and every number of attempts and faults: predictions  *)
(* are those of the model that is named, a finalized result stands, and    *)
(* its outcome follows from what was measured.                             *)
(***************************************************************************)
EXTENDS ControlledExperiment, FiniteSetTheorems, SequenceTheorems, TLAPS

(***************************************************************************)
(* The inductive invariant                                                 *)
(***************************************************************************)
AttemptSteps ==
  {"idle", "preregister", "bundle", "evaluate-base", "evaluate-trained", "benchmark", "finalize"}

\* m is the manifest of a finalization of two of the runs.
IsResult(runs, spec, m) ==
  \E base, trained \in runs :
    \E ranking, reliability : m = Finalization(spec, base, trained, ranking, reliability)[Manifest]

\* What the operator's process works on: runs that are stored, in a directory whose
\* marker is there, with a result that comes from them.
AttemptInv ==
  /\ attempt.step \in AttemptSteps
  /\ attempt.step # "idle" => attempt.spec \in Specs
  /\ attempt.step \in {"evaluate-base", "evaluate-trained"} => attempt.trained.model = Checkpoint
  /\ attempt.step \in {"evaluate-trained", "benchmark"} => attempt.baseRun \in evaluations
  /\ attempt.step = "benchmark" => attempt.trainedRun \in evaluations
  /\ attempt.step \in {"preregister", "finalize"} => Marker \in Entries(experiments[attempt.spec])
  /\ attempt.step = "preregister" => DOMAIN attempt = {"step", "spec", "config"}
  /\ attempt.step = "finalize" =>
       /\ DOMAIN attempt = {"step", "spec", "pos", "artifact"}
       /\ Manifest \in DOMAIN attempt.artifact
       /\ IsResult(evaluations, attempt.spec, attempt.artifact[Manifest])

Kinds == {"diagnosis", "abstention", "invalid"}

\* The stored runs pass their audit, and have predictions of the three kinds.
Audited(run) == AuditEvaluationRun(run) /\ \A id \in Ids : run.records[id].prediction.kind \in Kinds
EvaluationsInv == \A run \in evaluations : Audited(run)

ResultsInv ==
  /\ DOMAIN experiments = Specs
  /\ \A s \in Specs : Manifest \in Entries(experiments[s]) =>
       IsResult(evaluations, s, experiments[s][Manifest])

ExperimentInv ==
  AttemptInv /\ EvaluationsInv /\ ResultsInv /\ PredictionsAreOfTheNamedModel

(***************************************************************************)
(* What a model answers, and what is made of it                            *)
(***************************************************************************)
\* The parser and the schema check, which read the same text apart, agree.
LEMMA ParserAgreesWithSchema ==
  ASSUME NEW t
  PROVE  (Predict([failure |-> Absent, text |-> t]).kind # "invalid") <=> SchemaCompliant(t)
  BY DEF Predict, ParseBackendResponse, SchemaCompliant, Invalid, Abstention, Diagnosis

LEMMA PredictionKinds ==
  ASSUME NEW reply
  PROVE  Predict(reply).kind \in Kinds
  BY DEF Predict, ParseBackendResponse, Invalid, Abstention, Diagnosis, Kinds

\* A run that was just evaluated: its records are those of its predictions.
LEMMA RunRecords ==
  ASSUME NEW predictor, NEW predictions, NEW run, run = EvaluationRun(predictor, predictions)
  PROVE  /\ run.predictor = predictor
         /\ \A id \in Ids : run.records[id].prediction = predictions[id]
         /\ AuditEvaluationRun(run)
<1> PICK records : records = [id \in Ids |-> BuildRecord(id, predictions[id])]
  OBVIOUS
<1>1. \A id \in Ids : /\ records[id] = BuildRecord(id, predictions[id])
                      /\ records[id].prediction = predictions[id]
  BY DEF BuildRecord
<1>2. /\ run.predictor = predictor /\ run.records = records
      /\ run.metrics = AggregateMetrics(records) /\ run.confusion = Confusion(records)
  BY DEF EvaluationRun
<1> QED
  BY <1>1, <1>2 DEF AuditEvaluationRun

\* One record is as the invariant says of every record of a stored run.
Faithful(prediction, model, id, known) ==
  \/ prediction.reason \in BackendReasons
  \/ /\ model \in DOMAIN known
     /\ prediction = Predict([failure |-> Absent, text |-> known[model][id]])
     /\ (prediction.kind # "invalid") = SchemaCompliant(known[model][id])

LEMMA NewRunIsFaithful ==
  ASSUME NEW predictor, NEW content, NEW a, NEW failing, NEW how \in Failures, NEW known,
         content \in DOMAIN known, known[content] = a, predictor.model = content,
         NEW run, run = Evaluate(predictor, content, a, failing, how)
  PROVE  /\ AuditEvaluationRun(run)
         /\ \A id \in Ids : run.records[id].prediction.kind \in Kinds
         /\ \A id \in Ids : Faithful(run.records[id].prediction, run.predictor.model, id, known)
<1> PICK predictions :
      predictions = [id \in Ids |-> Predict(IF id \in failing
                                            THEN [failure |-> how, text |-> Absent]
                                            ELSE [failure |-> Absent, text |-> a[id]])]
  OBVIOUS
<1>1. /\ run.predictor = predictor
      /\ \A id \in Ids : run.records[id].prediction = predictions[id]
      /\ AuditEvaluationRun(run)
  BY RunRecords DEF Evaluate
<1>2. ASSUME NEW id \in Ids
      PROVE  Faithful(predictions[id], content, id, known)
  <2>1. CASE id \in failing
    <3>1. predictions[id] = Predict([failure |-> how, text |-> Absent])
      BY <2>1
    <3>2. how \in BackendReasons /\ how # Absent
      BY FailuresAssumption
    <3> QED
      BY <3>1, <3>2 DEF Predict, Invalid, Faithful
  <2>2. CASE id \notin failing
    <3>1. predictions[id] = Predict([failure |-> Absent, text |-> known[content][id]])
      BY <2>2
    <3> QED
      BY <3>1, ParserAgreesWithSchema DEF Faithful
  <2> QED
    BY <2>1, <2>2
<1>3. \A id \in Ids : predictions[id].kind \in Kinds
  BY PredictionKinds
<1> QED
  BY <1>1, <1>2, <1>3

LEMMA FaithfulStays ==
  ASSUME NEW prediction, NEW model, NEW id, NEW known, NEW more,
         Faithful(prediction, model, id, known),
         DOMAIN known \subseteq DOMAIN more, \A c \in DOMAIN known : more[c] = known[c]
  PROVE  Faithful(prediction, model, id, more)
  BY DEF Faithful

LEMMA PredictionsAreFaithful ==
  PredictionsAreOfTheNamedModel <=>
    \A run \in evaluations : \A id \in Ids :
      Faithful(run.records[id].prediction, run.predictor.model, id, answers)
  BY DEF PredictionsAreOfTheNamedModel, Faithful

(***************************************************************************)
(* The invariant is kept                                                   *)
(***************************************************************************)
\* Learning a content's answers adds to what is known, and changes nothing of it.
LEMMA LearningAdds ==
  ASSUME NEW content, NEW a \in AnswersOf(content), Learn(content, a)
  PROVE  /\ content \in DOMAIN answers' /\ answers'[content] = a
         /\ DOMAIN answers \subseteq DOMAIN answers'
         /\ \A c \in DOMAIN answers : answers'[c] = answers[c]
  BY DEF AnswersOf, Learn

\* One more run, of the model that its predictor names.
LEMMA EvaluationKeeps ==
  ASSUME PredictionsAreOfTheNamedModel, EvaluationsInv,
         NEW predictor, NEW failing, NEW how \in Failures,
         NEW a \in AnswersOf(predictor.model), Learn(predictor.model, a),
         NEW run, run = Evaluate(predictor, predictor.model, a, failing, how), Store(run)
  PROVE  PredictionsAreOfTheNamedModel' /\ EvaluationsInv'
<1> PICK content : content = predictor.model
  OBVIOUS
<1> PICK known : known = answers
  OBVIOUS
<1> PICK more : more = answers'
  OBVIOUS
<1>1. /\ content \in DOMAIN more /\ more[content] = a
      /\ DOMAIN known \subseteq DOMAIN more
      /\ \A c \in DOMAIN known : more[c] = known[c]
  BY LearningAdds
<1>2. /\ AuditEvaluationRun(run)
      /\ \A id \in Ids : run.records[id].prediction.kind \in Kinds
      /\ \A id \in Ids : Faithful(run.records[id].prediction, run.predictor.model, id, more)
  BY <1>1, NewRunIsFaithful
<1>3. evaluations' = evaluations \cup {run}
  BY DEF Store
<1>4. ASSUME NEW r \in evaluations, NEW id \in Ids
      PROVE  Faithful(r.records[id].prediction, r.predictor.model, id, more)
  <2>1. Faithful(r.records[id].prediction, r.predictor.model, id, known)
    BY PredictionsAreFaithful
  <2> QED
    BY <2>1, <1>1, FaithfulStays
<1>5. \A r \in evaluations' : \A id \in Ids :
        Faithful(r.records[id].prediction, r.predictor.model, id, answers')
  BY <1>2, <1>3, <1>4
<1>6. PredictionsAreOfTheNamedModel'
  BY <1>5 DEF PredictionsAreOfTheNamedModel, Faithful
<1>7. EvaluationsInv'
  BY <1>2, <1>3 DEF EvaluationsInv, Audited
<1> QED
  BY <1>6, <1>7

\* A result stays one when more runs are stored.
LEMMA ResultsStay ==
  ASSUME NEW runs, NEW more, runs \subseteq more, NEW spec, NEW m, IsResult(runs, spec, m)
  PROVE  IsResult(more, spec, m)
  BY DEF IsResult

\* What Put and Drop do to a directory, entry by entry.
LEMMA PutKeepsOthers ==
  ASSUME NEW d, NEW name, NEW content
  PROVE  /\ Entries(Put(d, name, content)) = Entries(d) \cup {name}
         /\ Put(d, name, content)[name] = content
         /\ \A n \in Entries(d) : n # name => Put(d, name, content)[n] = d[n]
  BY DEF Put, Entries

LEMMA DropKeepsOthers ==
  ASSUME NEW d, NEW name
  PROVE  /\ Entries(Drop(d, name)) = Entries(d) \ {name}
         /\ \A n \in Entries(d) : n # name => Drop(d, name)[n] = d[n]
  BY DEF Drop, Entries

LEMMA NamesDiffer ==
  /\ Marker # Manifest /\ SpecFile # Manifest /\ Marker # SpecFile
  BY DEF Marker, Manifest, SpecFile

\* A step on the directory of one specification keeps the results if the manifest
\* there is the one it had, or one of a finalization.
LEMMA ResultsKept ==
  ASSUME ResultsInv, evaluations \subseteq evaluations', NEW spec \in Specs, NEW d,
         experiments' = [experiments EXCEPT ![spec] = d],
         Manifest \in Entries(d) =>
           \/ Manifest \in Entries(experiments[spec]) /\ d[Manifest] = experiments[spec][Manifest]
           \/ IsResult(evaluations', spec, d[Manifest])
  PROVE  ResultsInv'
<1> USE DEF ResultsInv
<1>1. DOMAIN experiments' = Specs
  OBVIOUS
<1>2. ASSUME NEW s \in Specs, Manifest \in Entries(experiments'[s])
      PROVE  IsResult(evaluations', s, experiments'[s][Manifest])
  <2>1. CASE s = spec /\ IsResult(evaluations', spec, d[Manifest])
    BY <2>1
  <2>2. CASE /\ Manifest \in Entries(experiments[s])
             /\ experiments'[s][Manifest] = experiments[s][Manifest]
    BY <2>2, ResultsStay
  <2> QED
    BY <1>2, <2>1, <2>2 DEF Entries
<1> QED
  BY <1>1, <1>2

LEMMA ResultsUnchanged ==
  ASSUME ResultsInv, evaluations \subseteq evaluations', UNCHANGED experiments
  PROVE  ResultsInv'
  BY ResultsStay DEF ResultsInv

LEMMA IdleAttempt ==
  ASSUME attempt' = NoAttempt
  PROVE  AttemptInv'
<1>1. attempt'.step = "idle"
  BY DEF NoAttempt
<1> QED
  BY <1>1 DEF AttemptInv, AttemptSteps

LEMMA ExperimentInvHoldsFirst == XInit => ExperimentInv
<1> SUFFICES ASSUME XInit PROVE ExperimentInv
  OBVIOUS
<1>1. AttemptInv
  <2>1. attempt.step = "idle"
    BY DEF XInit, NoAttempt
  <2> QED
    BY <2>1 DEF AttemptInv, AttemptSteps
<1>2. EvaluationsInv /\ PredictionsAreOfTheNamedModel
  BY DEF XInit, EvaluationsInv, PredictionsAreOfTheNamedModel
<1>3. ResultsInv
  <2>1. \A s \in Specs : Entries(experiments[s]) = {}
    BY DEF XInit, Entries, NoDirectory
  <2> QED
    BY <2>1 DEF XInit, ResultsInv
<1> QED
  BY <1>1, <1>2, <1>3 DEF ExperimentInv

LEMMA BeginKeepsInv ==
  ASSUME ExperimentInv, NEW spec \in Specs, NEW config, Begin(spec, config)
  PROVE  ExperimentInv'
<1> USE NamesDiffer DEF ExperimentInv
<1>1. EvaluationsInv' /\ PredictionsAreOfTheNamedModel'
  BY DEF Begin, EvaluationsInv, PredictionsAreOfTheNamedModel
<1>2. CASE /\ Vacant(experiments[spec])
           /\ experiments' = [experiments EXCEPT ![spec] = Put(@, Marker, Subdirectory)]
           /\ attempt' = [step |-> "preregister", spec |-> spec, config |-> config]
  <2>1. PICK d : d = Put(experiments[spec], Marker, Subdirectory)
    OBVIOUS
  <2>2. Entries(d) = {Marker}
    BY <1>2, <2>1, PutKeepsOthers DEF Vacant
  <2>3. experiments' = [experiments EXCEPT ![spec] = d]
    BY <1>2, <2>1
  <2>4. ResultsInv'
    BY <2>2, <2>3, ResultsKept DEF Begin
  <2>5. experiments'[spec] = d
    BY <2>3 DEF ResultsInv
  <2> QED
    BY <1>1, <1>2, <2>2, <2>4, <2>5 DEF AttemptInv, AttemptSteps
<1>3. CASE /\ attempt' = [step |-> "bundle", spec |-> spec, config |-> config]
           /\ UNCHANGED experiments
  <2>1. ResultsInv'
    BY <1>3, ResultsUnchanged DEF Begin
  <2>2. AttemptInv'
    BY <1>3 DEF AttemptInv, AttemptSteps
  <2> QED
    BY <1>1, <2>1, <2>2
<1> QED
  BY <1>2, <1>3 DEF Begin

LEMMA PersistSpecKeepsInv ==
  ASSUME ExperimentInv, PersistSpec
  PROVE  ExperimentInv'
<1> USE NamesDiffer DEF ExperimentInv
<1>1. EvaluationsInv' /\ PredictionsAreOfTheNamedModel'
  BY DEF PersistSpec, EvaluationsInv, PredictionsAreOfTheNamedModel
<1>2. PICK spec \in Specs : spec = attempt.spec
  BY DEF PersistSpec, AttemptInv
<1>3. PICK d : d = Put(experiments[spec], SpecFile, spec)
  OBVIOUS
<1>4. /\ \A n \in Entries(experiments[spec]) : n # SpecFile => d[n] = experiments[spec][n]
      /\ Entries(d) = Entries(experiments[spec]) \cup {SpecFile}
  BY <1>3, PutKeepsOthers
<1>5. experiments' = [experiments EXCEPT ![spec] = d]
  BY <1>2, <1>3 DEF PersistSpec
<1>6. ResultsInv'
  BY <1>4, <1>5, ResultsKept DEF PersistSpec
<1>7. attempt'.step = "bundle" /\ attempt'.spec = spec
  BY <1>2 DEF PersistSpec, AttemptInv
<1>8. AttemptInv'
  BY <1>7 DEF AttemptInv, AttemptSteps
<1> QED
  BY <1>1, <1>6, <1>8

LEMMA BundleKeepsInv ==
  ASSUME ExperimentInv, Bundle
  PROVE  ExperimentInv'
<1> USE DEF ExperimentInv
<1>1. EvaluationsInv' /\ PredictionsAreOfTheNamedModel'
  BY DEF Bundle, EvaluationsInv, PredictionsAreOfTheNamedModel
<1>2. ResultsInv'
  BY ResultsUnchanged DEF Bundle
<1>3. attempt'.step = "evaluate-base" /\ attempt'.spec \in Specs
      /\ attempt'.trained.model = Checkpoint
  BY DEF Bundle, AttemptInv
<1>4. AttemptInv'
  BY <1>3 DEF AttemptInv, AttemptSteps
<1> QED
  BY <1>1, <1>2, <1>4

LEMMA EvaluateBaseKeepsInv ==
  ASSUME ExperimentInv, NEW failing, NEW how \in Failures, EvaluateBase(failing, how)
  PROVE  ExperimentInv'
<1> USE DEF ExperimentInv
<1>1. CASE attempt' = NoAttempt /\ UNCHANGED <<answers, evaluations>>
  <2>1. EvaluationsInv' /\ PredictionsAreOfTheNamedModel'
    BY <1>1 DEF EvaluationsInv, PredictionsAreOfTheNamedModel
  <2>2. ResultsInv'
    BY <1>1, ResultsUnchanged DEF EvaluateBase
  <2> QED
    BY <1>1, <2>1, <2>2, IdleAttempt
<1>2. ASSUME Reverify(attempt.base.model), NEW a \in AnswersOf(baseDir), NEW run,
             run = Evaluate(attempt.base, baseDir, a, failing, how),
             Learn(baseDir, a), Store(run),
             attempt' = [step |-> "evaluate-trained", spec |-> attempt.spec,
                         trained |-> attempt.trained, baseRun |-> run]
      PROVE  ExperimentInv'
  <2>1. PICK predictor : predictor = attempt.base
    OBVIOUS
  <2>2. baseDir = predictor.model
    BY <1>2, <2>1 DEF Reverify
  <2>3. PredictionsAreOfTheNamedModel' /\ EvaluationsInv'
    BY <1>2, <2>1, <2>2, EvaluationKeeps
  <2>4. evaluations \subseteq evaluations' /\ run \in evaluations'
    BY <1>2 DEF Store
  <2>5. ResultsInv'
    BY <2>4, ResultsUnchanged DEF EvaluateBase
  <2>6. attempt.spec \in Specs /\ attempt.trained.model = Checkpoint
    BY DEF EvaluateBase, AttemptInv
  <2>7. AttemptInv'
    BY <1>2, <2>4, <2>6 DEF AttemptInv, AttemptSteps
  <2> QED
    BY <2>3, <2>5, <2>7
<1> QED
  BY <1>1, <1>2 DEF EvaluateBase

LEMMA EvaluateTrainedKeepsInv ==
  ASSUME ExperimentInv, NEW failing, NEW how \in Failures, EvaluateTrained(failing, how)
  PROVE  ExperimentInv'
<1> USE DEF ExperimentInv
<1>1. PICK a, run :
        /\ a \in AnswersOf(Checkpoint)
        /\ run = Evaluate(attempt.trained, Checkpoint, a, failing, how)
        /\ Learn(Checkpoint, a) /\ Store(run)
        /\ attempt' = [step |-> "benchmark", spec |-> attempt.spec,
                       baseRun |-> attempt.baseRun, trainedRun |-> run]
  BY DEF EvaluateTrained
<1>2. PICK predictor : predictor = attempt.trained
  OBVIOUS
<1>3. attempt.spec \in Specs /\ predictor.model = Checkpoint /\ attempt.baseRun \in evaluations
  BY <1>2 DEF EvaluateTrained, AttemptInv
<1>4. PredictionsAreOfTheNamedModel' /\ EvaluationsInv'
  BY <1>1, <1>2, <1>3, EvaluationKeeps
<1>5. evaluations \subseteq evaluations' /\ run \in evaluations'
  BY <1>1 DEF Store
<1>6. ResultsInv'
  BY <1>5, ResultsUnchanged DEF EvaluateTrained
<1>7. AttemptInv'
  BY <1>1, <1>3, <1>5 DEF AttemptInv, AttemptSteps
<1> QED
  BY <1>4, <1>6, <1>7

(***************************************************************************)
(* A finalization                                                          *)
(***************************************************************************)
\* Two of the files that a manifest binds.
LEMMA LayoutFiles ==
  \A f \in {"paired-summary.json", "interpretation.json"} :
    f \in Files(ExperimentLayout) /\ f # Manifest
<1> USE DEF ContentOrder, SpecFile, Manifest
<1>1. PICK names : names = Append(ContentOrder, SpecFile) \o <<Manifest>>
  OBVIOUS
<1>2. PICK S : S = {"training-binding.json", "checkpoint-binding.json",
                    "evaluation-bindings.json", "benchmark-binding.json",
                    "paired-summary.json", "reliability-summary.json",
                    "interpretation.json", "experiment-spec.json", "manifest.json"}
  OBVIOUS
<1>3. ContentOrder \in Seq(S) /\ Len(ContentOrder) = 7
  BY <1>2
<1>4. /\ ContentOrder[5] = "paired-summary.json"
      /\ ContentOrder[7] = "interpretation.json"
  OBVIOUS
<1>5. "paired-summary.json" # Manifest /\ "interpretation.json" # Manifest
  OBVIOUS
<1>6. SpecFile \in S /\ Manifest \in S
  BY <1>2
<1> HIDE DEF ContentOrder, SpecFile, Manifest
<1>9. \A k \in 1 .. 7 : k \in DOMAIN names /\ names[k] = ContentOrder[k]
  <2>1. PICK longer : longer = Append(ContentOrder, SpecFile)
    OBVIOUS
  <2>2. /\ longer \in Seq(S) /\ Len(longer) = 8
        /\ \A k \in 1 .. 7 : longer[k] = ContentOrder[k]
    <3>1. longer \in Seq(S)
      BY <1>3, <1>6, <2>1, AppendProperties
    <3>2. Len(longer) = Len(ContentOrder) + 1
      BY <1>3, <1>6, <2>1, AppendProperties
    <3>3. \A k \in 1 .. Len(ContentOrder) : longer[k] = ContentOrder[k]
      BY <1>3, <1>6, <2>1, AppendProperties
    <3> QED
      BY <3>1, <3>2, <3>3, <1>3
  <2>3. names = longer \o <<Manifest>>
    BY <1>1, <2>1
  <2>4. <<Manifest>> \in Seq(S) /\ Len(<<Manifest>>) = 1
    BY <1>6
  <2>5. /\ Len(names) = 9 /\ names \in Seq(S)
        /\ \A k \in 1 .. 8 : names[k] = longer[k]
    <3>1. names \in Seq(S)
      BY <2>2, <2>3, <2>4, ConcatProperties
    <3>2. Len(names) = Len(longer) + Len(<<Manifest>>)
      BY <2>2, <2>3, <2>4, ConcatProperties
    <3>3. \A k \in 1 .. 8 : names[k] = longer[k]
      BY <2>2, <2>3, <2>4
    <3> QED
      BY <3>1, <3>2, <3>3, <2>2, <2>4
  <2> QED
    BY <2>2, <2>5
<1>7. \A k \in DOMAIN names : names[k] \in Files(ExperimentLayout)
  <2>1. ExperimentLayout.files = names
    BY <1>1 DEF ExperimentLayout
  <2> QED
    BY <2>1 DEF Files
<1>8. names[5] \in Files(ExperimentLayout) /\ names[7] \in Files(ExperimentLayout)
  BY <1>9, <1>7
<1> QED
  BY <1>4, <1>5, <1>9, <1>8

\* What the manifest of a finalization binds.
LEMMA ManifestBinds ==
  ASSUME NEW spec, NEW base, NEW trained, NEW ranking, NEW reliability
  PROVE  LET m == Finalization(spec, base, trained, ranking, reliability)[Manifest]
             comparison == BuildPairedComparison(base, trained)
         IN /\ Manifest \in DOMAIN Finalization(spec, base, trained, ranking, reliability)
            /\ m.files["interpretation.json"] =
                 BuildResult(spec, base, trained,
                             ExtractPrimaryMetrics(base, trained, comparison.fair))
            /\ m.files["paired-summary.json"].conclusion =
                 Interpret(comparison, InterpretationPolicy)
<1> PICK m : m = Finalization(spec, base, trained, ranking, reliability)[Manifest]
  OBVIOUS
<1> PICK comparison : comparison = BuildPairedComparison(base, trained)
  OBVIOUS
<1>1. PICK content :
        content =
          [f \in Files(ExperimentLayout) \ {Manifest} |->
             CASE f = SpecFile -> spec
               [] f = "training-binding.json" -> [spec |-> spec, plan |-> spec.plan]
               [] f = "checkpoint-binding.json" ->
                    [spec |-> spec, plan |-> spec.plan, checkpoint |-> Checkpoint]
               [] f = "evaluation-bindings.json" ->
                    [spec |-> spec, fixed |-> EvaluationId(FixedRun),
                     rule |-> EvaluationId(RuleRun), base |-> EvaluationId(base),
                     trained |-> EvaluationId(trained)]
               [] f = "benchmark-binding.json" -> [spec |-> spec, ranking |-> ranking]
               [] f = "paired-summary.json" ->
                    [spec |-> spec,
                     conclusion |-> Interpret(BuildPairedComparison(base, trained),
                                              InterpretationPolicy),
                     tests |-> PairedCounts(base, trained, PartitionIds("test"))]
               [] f = "reliability-summary.json" ->
                    [spec |-> spec, base |-> reliability.base, trained |-> reliability.trained]
               [] f = "interpretation.json" ->
                    BuildResult(spec, base, trained,
                      ExtractPrimaryMetrics(base, trained,
                                            BuildPairedComparison(base, trained).fair))]
  OBVIOUS
<1>3. content["interpretation.json"] =
        BuildResult(spec, base, trained,
                    ExtractPrimaryMetrics(base, trained, comparison.fair))
  BY <1>1, LayoutFiles DEF SpecFile
<1>4. content["paired-summary.json"].conclusion = Interpret(comparison, InterpretationPolicy)
  BY <1>1, LayoutFiles DEF SpecFile
<1>5. PICK manifest :
        manifest = [files |-> content,
                    outcome |-> BuildResult(spec, base, trained,
                      ExtractPrimaryMetrics(base, trained,
                        BuildPairedComparison(base, trained).fair)).outcome]
  OBVIOUS
<1>6. Finalization(spec, base, trained, ranking, reliability) = Put(content, Manifest, manifest)
  BY <1>1, <1>5, Zenon DEF Finalization
<1>7. m = manifest /\ Manifest \in DOMAIN Finalization(spec, base, trained, ranking, reliability)
  <2>1. /\ Put(content, Manifest, manifest)[Manifest] = manifest
        /\ Manifest \in DOMAIN Put(content, Manifest, manifest)
    BY DEF Put, Entries
  <2> QED
    BY <1>6, <2>1
<1>8. manifest.files = content
  BY <1>5
<1> QED
  BY <1>3, <1>4, <1>7, <1>8

LEMMA FinalizationIsResult ==
  ASSUME NEW runs, NEW base \in runs, NEW trained \in runs, NEW spec, NEW ranking,
         NEW reliability,
         NEW artifact, artifact = Finalization(spec, base, trained, ranking, reliability)
  PROVE  Manifest \in DOMAIN artifact /\ IsResult(runs, spec, artifact[Manifest])
<1>1. Manifest \in DOMAIN artifact
  BY ManifestBinds
<1>2. IsResult(runs, spec, artifact[Manifest])
  BY DEF IsResult
<1> QED
  BY <1>1, <1>2

LEMMA BenchmarkKeepsInv ==
  ASSUME ExperimentInv, NEW failing, NEW how \in Failures, Benchmark(failing, how)
  PROVE  ExperimentInv'
<1> USE NamesDiffer DEF ExperimentInv
<1>1. EvaluationsInv' /\ PredictionsAreOfTheNamedModel'
  BY DEF Benchmark, EvaluationsInv, PredictionsAreOfTheNamedModel
<1>2. CASE attempt' = NoAttempt /\ UNCHANGED experiments
  BY <1>1, <1>2, ResultsUnchanged, IdleAttempt DEF Benchmark
<1>3. CASE ~(attempt' = NoAttempt /\ UNCHANGED experiments)
  <2>1. PICK ranking :
          ranking = BenchmarkRanking(Again(attempt.baseRun, failing, how),
                                     Again(attempt.trainedRun, failing, how))
    OBVIOUS
  <2>2. PICK reliability, artifact :
          /\ artifact = Finalization(attempt.spec, attempt.baseRun, attempt.trainedRun,
                                     ranking, reliability)
          /\ attempt' = [step |-> "finalize", spec |-> attempt.spec, pos |-> 1,
                         artifact |-> artifact]
          /\ experiments' = [experiments EXCEPT ![attempt.spec] = Put(@, Marker, Subdirectory)]
    BY <1>3, <2>1 DEF Benchmark
  <2>3. /\ attempt' = [step |-> "finalize", spec |-> attempt.spec, pos |-> 1,
                       artifact |-> artifact]
        /\ experiments' = [experiments EXCEPT ![attempt.spec] = Put(@, Marker, Subdirectory)]
        /\ attempt.step = "benchmark"
        /\ UNCHANGED <<baseDir, answers, evaluations, attempts>>
    BY <1>3, <2>1, <2>2 DEF Benchmark
  <2>4. PICK spec \in Specs : spec = attempt.spec
    BY <2>3 DEF AttemptInv
  <2>5. PICK base \in evaluations, trained \in evaluations :
          base = attempt.baseRun /\ trained = attempt.trainedRun
    BY <2>3 DEF AttemptInv
  <2>6. /\ Manifest \in DOMAIN artifact
        /\ IsResult(evaluations, spec, artifact[Manifest])
    BY <2>2, <2>4, <2>5, FinalizationIsResult
  <2>7. PICK d : d = Put(experiments[spec], Marker, Subdirectory)
    OBVIOUS
  <2>8. /\ \A n \in Entries(experiments[spec]) : n # Marker => d[n] = experiments[spec][n]
        /\ Entries(d) = Entries(experiments[spec]) \cup {Marker}
    BY <2>7, PutKeepsOthers
  <2>9. experiments' = [experiments EXCEPT ![spec] = d]
    BY <2>3, <2>4, <2>7
  <2>10. ResultsInv'
    BY <2>3, <2>8, <2>9, ResultsKept
  <2>11. experiments'[spec] = d
    BY <2>9 DEF ResultsInv
  <2>12. AttemptInv'
    BY <2>3, <2>4, <2>6, <2>8, <2>11 DEF AttemptInv, AttemptSteps
  <2> QED
    BY <1>1, <2>10, <2>12
<1> QED
  BY <1>2, <1>3

LEMMA WriteContentKeepsInv ==
  ASSUME ExperimentInv, WriteContent
  PROVE  ExperimentInv'
<1> USE NamesDiffer DEF ExperimentInv
<1>1. EvaluationsInv' /\ PredictionsAreOfTheNamedModel'
  BY DEF WriteContent, EvaluationsInv, PredictionsAreOfTheNamedModel
<1>2. PICK spec \in Specs : spec = attempt.spec
  BY DEF WriteContent, AttemptInv
<1>3. PICK name : name = Append(ContentOrder, Manifest)[attempt.pos]
  OBVIOUS
<1>4. PICK d : d = Install(experiments[spec], name, attempt.artifact)
  OBVIOUS
<1>5. /\ experiments' = [experiments EXCEPT ![spec] = d]
      /\ attempt' = [attempt EXCEPT !.pos = @ + 1]
      /\ attempt.step = "finalize" /\ UNCHANGED <<baseDir, answers, evaluations>>
  BY <1>2, <1>3, <1>4 DEF WriteContent
<1>6. /\ Entries(d) = Entries(experiments[spec]) \cup {name}
      /\ \A n \in Entries(experiments[spec]) : n # name => d[n] = experiments[spec][n]
      /\ name \in DOMAIN attempt.artifact => d[name] = attempt.artifact[name]
  BY <1>4, PutKeepsOthers DEF Install
<1>7. /\ Manifest \in DOMAIN attempt.artifact
      /\ IsResult(evaluations, spec, attempt.artifact[Manifest])
      /\ Marker \in Entries(experiments[spec])
      /\ DOMAIN attempt = {"step", "spec", "pos", "artifact"}
  BY <1>2, <1>5 DEF AttemptInv
<1>8. ResultsInv'
  BY <1>5, <1>6, <1>7, ResultsKept
<1>9. /\ attempt'.step = "finalize" /\ attempt'.spec = spec
      /\ attempt'.artifact = attempt.artifact
      /\ DOMAIN attempt' = {"step", "spec", "pos", "artifact"}
  BY <1>2, <1>5, <1>7
<1>10. Marker \in Entries(experiments'[spec])
  BY <1>5, <1>6, <1>7 DEF ResultsInv
<1>11. AttemptInv'
  BY <1>5, <1>7, <1>9, <1>10 DEF AttemptInv, AttemptSteps
<1> QED
  BY <1>1, <1>8, <1>11

LEMMA FinishExperimentKeepsInv ==
  ASSUME ExperimentInv, FinishExperiment
  PROVE  ExperimentInv'
<1> USE NamesDiffer DEF ExperimentInv
<1>1. EvaluationsInv' /\ PredictionsAreOfTheNamedModel'
  BY DEF FinishExperiment, EvaluationsInv, PredictionsAreOfTheNamedModel
<1>2. PICK spec \in Specs : spec = attempt.spec
  BY DEF FinishExperiment, AttemptInv
<1>3. PICK d : d = IF ExperimentVerifies(experiments[spec]) THEN Drop(experiments[spec], Marker)
                   ELSE experiments[spec]
  OBVIOUS
<1>4. experiments' = [experiments EXCEPT ![spec] = d]
  BY <1>2, <1>3 DEF FinishExperiment
<1>5. Manifest \in Entries(d) =>
        Manifest \in Entries(experiments[spec]) /\ d[Manifest] = experiments[spec][Manifest]
  BY <1>3, DropKeepsOthers
<1>6. ResultsInv'
  BY <1>4, <1>5, ResultsKept DEF FinishExperiment
<1> QED
  BY <1>1, <1>6, IdleAttempt DEF FinishExperiment

LEMMA CutOffKeepsInv ==
  ASSUME ExperimentInv, CutOffAttempt
  PROVE  ExperimentInv'
<1> USE DEF ExperimentInv
<1>1. EvaluationsInv' /\ PredictionsAreOfTheNamedModel'
  BY DEF CutOffAttempt, EvaluationsInv, PredictionsAreOfTheNamedModel
<1> QED
  BY <1>1, ResultsUnchanged, IdleAttempt DEF CutOffAttempt

LEMMA NothingElseKeepsInv ==
  ASSUME ExperimentInv, UNCHANGED <<answers, evaluations, experiments, attempt>>
  PROVE  ExperimentInv'
  BY DEF ExperimentInv, AttemptInv, EvaluationsInv, ResultsInv, PredictionsAreOfTheNamedModel

LEMMA ExperimentInvIsInductive ==
  ASSUME ExperimentInv, [XNext]_xvars
  PROVE  ExperimentInv'
<1>1. ASSUME NEW s \in Specs, NEW c \in Configs, Begin(s, c) PROVE ExperimentInv'
  BY <1>1, BeginKeepsInv
<1>2. ASSUME NEW failing \in SUBSET Ids, NEW how \in Failures,
             \/ EvaluateBase(failing, how) \/ EvaluateTrained(failing, how)
             \/ Benchmark(failing, how)
      PROVE ExperimentInv'
  BY <1>2, EvaluateBaseKeepsInv, EvaluateTrainedKeepsInv, BenchmarkKeepsInv
<1>3. ASSUME NEW c \in Contents, ReplaceBaseModel(c) PROVE ExperimentInv'
  BY <1>3, NothingElseKeepsInv DEF ReplaceBaseModel
<1>4. CASE UNCHANGED xvars
  BY <1>4, NothingElseKeepsInv DEF xvars
<1> QED
  BY <1>1, <1>2, <1>3, <1>4, PersistSpecKeepsInv, BundleKeepsInv, WriteContentKeepsInv,
     FinishExperimentKeepsInv, CutOffKeepsInv DEF XNext

\* The experiments keep their books: every manifest comes from two evaluations that
\* are stored and pass their audit, and a directory being written has its marker.
THEOREM ExperimentsAreConsistent == XSpec => []ExperimentInv
<1>1. XInit => ExperimentInv
  BY ExperimentInvHoldsFirst
<1>2. ExperimentInv /\ [XNext]_xvars => ExperimentInv'
  BY ExperimentInvIsInductive
<1> QED
  BY <1>1, <1>2, PTL DEF XSpec

\* Every prediction that was stored is what the model named by its predictor id
\* answered, or a backend failure, and valid just when the answer meets the schema,
\* however often the base model's directory is replaced (hfinference.py:98).
THEOREM NamedModelsPredict == XSpec => []PredictionsAreOfTheNamedModel
<1>1. ExperimentInv => PredictionsAreOfTheNamedModel
  BY DEF ExperimentInv
<1> QED
  BY <1>1, ExperimentsAreConsistent, PTL

\* A step leaves every finalized directory as it is.
LEMMA FinalizedIsLeftAlone ==
  ASSUME ExperimentInv, [XNext]_xvars, NEW s \in Finalized
  PROVE  experiments'[s] = experiments[s]
<1> USE DEF ExperimentInv
<1>1. s \in Specs /\ Marker \notin Entries(experiments[s]) /\ Manifest \in Entries(experiments[s])
  BY DEF Finalized, ExperimentReadable, Unmarked
<1>2. ASSUME NEW spec \in Specs, NEW d, experiments' = [experiments EXCEPT ![spec] = d], spec # s
      PROVE  experiments'[s] = experiments[s]
  BY <1>1, <1>2 DEF ResultsInv
<1>3. ASSUME NEW spec \in Specs, NEW c, Begin(spec, c)
      PROVE  experiments'[s] = experiments[s]
  <2>1. CASE UNCHANGED experiments
    BY <2>1
  <2>2. CASE /\ Vacant(experiments[spec])
             /\ experiments' = [experiments EXCEPT ![spec] = Put(@, Marker, Subdirectory)]
    <3>1. spec # s
      BY <1>1, <2>2 DEF Vacant
    <3> QED
      BY <1>2, <2>2, <3>1
  <2> QED
    BY <1>3, <2>1, <2>2 DEF Begin
<1>4. CASE PersistSpec \/ WriteContent \/ FinishExperiment
  <2>1. attempt.spec \in Specs /\ Marker \in Entries(experiments[attempt.spec])
    BY <1>4 DEF PersistSpec, WriteContent, FinishExperiment, AttemptInv
  <2>2. attempt.spec # s
    BY <1>1, <2>1
  <2>3. \E d : experiments' = [experiments EXCEPT ![attempt.spec] = d]
    BY <1>4 DEF PersistSpec, WriteContent, FinishExperiment
  <2> QED
    BY <1>2, <2>1, <2>2, <2>3
<1>5. ASSUME NEW failing, NEW how, Benchmark(failing, how)
      PROVE  experiments'[s] = experiments[s]
  <2>1. CASE UNCHANGED experiments
    BY <2>1
  <2>2. CASE /\ Finalizable(experiments[attempt.spec], attempt.spec)
             /\ experiments' = [experiments EXCEPT ![attempt.spec] = Put(@, Marker, Subdirectory)]
    <3>1. attempt.spec \in Specs /\ attempt.spec # s
      BY <1>1, <1>5, <2>2 DEF Finalizable, Benchmark, AttemptInv
    <3> QED
      BY <1>2, <2>2, <3>1
  <2> QED
    BY <1>5, <2>1, <2>2 DEF Benchmark
<1>6. CASE UNCHANGED experiments
  BY <1>6
<1>7. ASSUME NEW failing, NEW how, EvaluateBase(failing, how) \/ EvaluateTrained(failing, how)
      PROVE  UNCHANGED experiments
  BY <1>7 DEF EvaluateBase, EvaluateTrained
<1>8. ASSUME NEW c, ReplaceBaseModel(c)
      PROVE  UNCHANGED experiments
  BY <1>8 DEF ReplaceBaseModel
<1> QED
  BY <1>3, <1>4, <1>5, <1>6, <1>7, <1>8 DEF XNext, xvars, Bundle, CutOffAttempt

\* What was finalized is never finalized again with other results, whatever is cut
\* off and however often the operator tries (experiment/store.py:568).
THEOREM FinalizedResultsStand == XSpec => FinalizedStands
<1>1. ExperimentInv /\ [XNext]_xvars => [\A s \in Finalized : experiments'[s] = experiments[s]]_xvars
  BY FinalizedIsLeftAlone
<1> QED
  BY <1>1, ExperimentsAreConsistent, PTL DEF XSpec, FinalizedStands

(***************************************************************************)
(* What the outcome of a finalized experiment follows from                 *)
(***************************************************************************)
\* Two finite sets differ in size by what each has that the other has not.
LEMMA DifferenceOfCounts ==
  ASSUME NEW T, NEW B, IsFiniteSet(T), IsFiniteSet(B)
  PROVE  /\ Cardinality(T) \in Nat /\ Cardinality(B) \in Nat
         /\ Cardinality(T \ B) \in Nat /\ Cardinality(B \ T) \in Nat
         /\ Cardinality(T) - Cardinality(B) = Cardinality(T \ B) - Cardinality(B \ T)
<1>1. Cardinality(T) \in Nat /\ Cardinality(B) \in Nat
  BY FS_CardinalityType
<1>2. /\ Cardinality(T \ B) = Cardinality(T) - Cardinality(T \cap B)
      /\ Cardinality(B \ T) = Cardinality(B) - Cardinality(B \cap T)
      /\ IsFiniteSet(T \ B) /\ IsFiniteSet(B \ T)
  BY FS_Difference
<1>3. T \cap B = B \cap T
  OBVIOUS
<1>4. Cardinality(T \cap B) = Cardinality(B \cap T) /\ Cardinality(T \cap B) \in Nat
  BY <1>3, FS_Intersection, FS_CardinalityType
<1>5. Cardinality(T \ B) \in Nat /\ Cardinality(B \ T) \in Nat
  BY <1>2, FS_CardinalityType
<1> QED
  BY <1>1, <1>2, <1>4, <1>5

LEMMA IdsAreFinite == IsFiniteSet(Ids)
<1>1. PICK f : f = [e \in Corpus |-> e.id]
  OBVIOUS
<1>2. f \in Surjection(Corpus, Ids)
  BY <1>1 DEF Surjection, Ids
<1> QED
  BY <1>2, FS_Surjection, CorpusAssumption

LEMMA SubsetsOfIdsAreFinite ==
  ASSUME NEW S, S \subseteq Ids
  PROVE  IsFiniteSet(S) /\ Cardinality(S) \in Nat
  BY IdsAreFinite, FS_Subset, FS_CardinalityType

LEMMA ExamplesOfIds == \A id \in Ids : ExampleOf(id) \in Corpus /\ ExampleOf(id).id = id
  BY DEF Ids, ExampleOf

\* The test examples: all of them accepted faults, none of them trained on.
LEMMA TestExamples ==
  /\ PartitionIds("test") \subseteq NonTrain /\ NonTrain \subseteq Ids
  /\ \A id \in PartitionIds("test") : Accepted(id)
<1>1. "test" \in AcceptedPartitions /\ "test" # "train"
  BY DEF AcceptedPartitions
<1> QED
  BY <1>1, ExamplesOfIds, CorpusAssumption DEF PartitionIds, NonTrain, Accepted

\* On an accepted example the only correct outcome is the correct diagnosis.
LEMMA CorrectIsDiagnosed ==
  ASSUME NEW id, Accepted(id), NEW prediction, prediction.kind \in Kinds
  PROVE  BuildRecord(id, prediction).correct
           <=> BuildRecord(id, prediction).outcome \in {"correct_diagnosis"}
<1>1. Score(prediction, id) # "correct_abstention"
  <2>1. CASE prediction.kind = "invalid"
    BY <2>1 DEF Score
  <2>2. CASE prediction.kind = "abstention"
    BY <2>2 DEF Score
  <2>3. CASE prediction.kind = "diagnosis"
    BY <2>3 DEF Score
  <2> QED
    BY <2>1, <2>2, <2>3 DEF Kinds
<1> QED
  BY <1>1 DEF BuildRecord, CorrectOutcomes

CorrectIds(run, ids) == { id \in ids : run.records[id].correct }

\* The metrics of a stored run count its records: the correct ones of the test
\* partition are those with a correct diagnosis.
LEMMA RunCounts ==
  ASSUME NEW run, Audited(run)
  PROVE  /\ run.metrics.accepted["test"].correct = Cardinality(CorrectIds(run, PartitionIds("test")))
         /\ run.metrics.accepted["test"].evaluated \in Nat
         /\ run.metrics.abstention.correct \in Nat
         /\ ParserStatistics(run).invalid \in Nat
<1> PICK T : T = PartitionIds("test")
  OBVIOUS
<1>1. T \subseteq Ids /\ \A id \in T : Accepted(id)
  BY TestExamples
<1>2. { id \in T : Accepted(id) } = T
  BY <1>1
<1>3. run.metrics.accepted["test"] = AcceptedPartitionMetrics(run.records, "test")
  BY DEF Audited, AuditEvaluationRun, AggregateMetrics, AcceptedPartitions
<1>4. \A id \in T : run.records[id].correct
                      <=> run.records[id].outcome \in {"correct_diagnosis"}
  BY <1>1, CorrectIsDiagnosed DEF Audited, AuditEvaluationRun
<1>5. { id \in T : run.records[id].outcome \in {"correct_diagnosis"} } = CorrectIds(run, T)
  BY <1>4 DEF CorrectIds
<1>6. /\ AcceptedPartitionMetrics(run.records, "test").correct
           = Cardinality({ id \in { id \in T : Accepted(id) } :
                             run.records[id].outcome \in {"correct_diagnosis"} })
      /\ AcceptedPartitionMetrics(run.records, "test").evaluated
           = Cardinality({ id \in T : Accepted(id) })
  BY DEF AcceptedPartitionMetrics
<1>7. run.metrics.abstention.correct
        = Cardinality({ id \in { id \in Ids : ~Accepted(id) } :
                          run.records[id].outcome = "correct_abstention" })
  BY DEF Audited, AuditEvaluationRun, AggregateMetrics, AbstentionMetrics
<1>8. ParserStatistics(run).invalid
        = Cardinality({ id \in Ids : run.records[id].prediction.kind = "invalid" })
  BY DEF ParserStatistics
<1>9. /\ run.metrics.abstention.correct \in Nat /\ ParserStatistics(run).invalid \in Nat
      /\ Cardinality(T) \in Nat
  BY <1>1, <1>7, <1>8, SubsetsOfIdsAreFinite
<1> QED
  BY <1>2, <1>3, <1>5, <1>6, <1>9

\* The sets that the paired counts and the comparison count.
Won(base, trained, ids) ==
  { id \in ids : ~base.records[id].correct /\ trained.records[id].correct }
Lost(base, trained, ids) ==
  { id \in ids : base.records[id].correct /\ ~trained.records[id].correct }
Differing(base, trained, ids) ==
  { id \in ids : base.records[id].prediction # trained.records[id].prediction }

LEMMA PairCounts ==
  ASSUME NEW base, NEW trained, NEW ids, ids \subseteq Ids
  PROVE  /\ PairedCounts(base, trained, ids).wins = Cardinality(Won(base, trained, ids))
         /\ PairedCounts(base, trained, ids).losses = Cardinality(Lost(base, trained, ids))
  BY DEF PairedCounts, Quantify, Won, Lost

LEMMA TransitionCounts ==
  ASSUME NEW base, NEW trained, NEW ids, ids \subseteq Ids
  PROVE  /\ ComparisonCounts(base, trained, ids).wins = Cardinality(Won(base, trained, ids))
         /\ ComparisonCounts(base, trained, ids).losses = Cardinality(Lost(base, trained, ids))
         /\ ComparisonCounts(base, trained, ids).differed
              = Cardinality(Differing(base, trained, ids))
<1>1. \A b, t : /\ Classify(b, t) = "improved" <=> ~b.correct /\ t.correct
                /\ Classify(b, t) = "regressed" <=> b.correct /\ ~t.correct
  BY DEF Classify
<1>2. /\ { id \in ids : Classify(base.records[id], trained.records[id]) = "improved" }
           = Won(base, trained, ids)
      /\ { id \in ids : Classify(base.records[id], trained.records[id]) = "regressed" }
           = Lost(base, trained, ids)
  BY <1>1 DEF Won, Lost
<1>3. /\ ComparisonCounts(base, trained, ids).wins =
           Cardinality({ id \in ids :
                           Classify(base.records[id], trained.records[id]) = "improved" })
      /\ ComparisonCounts(base, trained, ids).losses =
           Cardinality({ id \in ids :
                           Classify(base.records[id], trained.records[id]) = "regressed" })
      /\ ComparisonCounts(base, trained, ids).differed
           = Cardinality({ id \in ids :
                             base.records[id].prediction # trained.records[id].prediction })
  BY DEF ComparisonCounts, Quantify
<1> QED
  BY <1>2, <1>3 DEF Differing

\* The measurements of a pair of stored runs: the accuracies of the test partition
\* differ by its wins less its losses, and the comparison of everything that was not
\* trained on has seen those wins, each of them as a difference.
LEMMA PairMeasured ==
  ASSUME NEW base, NEW trained, Audited(base), Audited(trained),
         NEW comparison, comparison = BuildPairedComparison(base, trained),
         NEW m, m = ExtractPrimaryMetrics(base, trained, comparison.fair)
  PROVE  /\ m.trainedCorrect \in Nat /\ m.baseCorrect \in Nat
         /\ m.wins \in Nat /\ m.losses \in Nat /\ m.eligible \in Nat
         /\ m.baseInvalid \in Nat /\ m.trainedInvalid \in Nat
         /\ m.baseAbstention \in Nat /\ m.trainedAbstention \in Nat
         /\ m.trainedCorrect - m.baseCorrect = m.wins - m.losses
         /\ comparison.nonTrain.wins \in Nat /\ comparison.nonTrain.losses \in Nat
         /\ comparison.nonTrain.differed \in Nat
         /\ m.wins <= comparison.nonTrain.wins
         /\ comparison.nonTrain.wins <= comparison.nonTrain.differed
         /\ m.unconfounded = comparison.fair
         /\ comparison.fair = Fair(base, trained)
<1> PICK T : T = PartitionIds("test")
  OBVIOUS
<1>1. T \subseteq NonTrain /\ NonTrain \subseteq Ids
  BY TestExamples
<1>2. PICK right : right = CorrectIds(trained, T)
  OBVIOUS
<1>3. PICK before : before = CorrectIds(base, T)
  OBVIOUS
<1>4. Won(base, trained, T) = right \ before /\ Lost(base, trained, T) = before \ right
  BY <1>2, <1>3 DEF Won, Lost, CorrectIds
<1>5. right \subseteq Ids /\ before \subseteq Ids
  BY <1>1, <1>2, <1>3 DEF CorrectIds
<1>6. /\ m.trainedCorrect = Cardinality(right) /\ m.baseCorrect = Cardinality(before)
      /\ m.eligible \in Nat
      /\ m.baseAbstention \in Nat /\ m.trainedAbstention \in Nat
      /\ m.baseInvalid \in Nat /\ m.trainedInvalid \in Nat
      /\ m.unconfounded = comparison.fair
  BY <1>2, <1>3, RunCounts DEF ExtractPrimaryMetrics
<1>7. /\ m.wins = Cardinality(Won(base, trained, T))
      /\ m.losses = Cardinality(Lost(base, trained, T))
  <2>1. m.wins = PairedCounts(base, trained, T).wins
        /\ m.losses = PairedCounts(base, trained, T).losses
    BY DEF ExtractPrimaryMetrics
  <2> QED
    BY <1>1, <2>1, PairCounts
<1>8. /\ comparison.nonTrain = ComparisonCounts(base, trained, NonTrain)
      /\ comparison.fair = Fair(base, trained)
  BY DEF BuildPairedComparison
<1>9. /\ comparison.nonTrain.wins = Cardinality(Won(base, trained, NonTrain))
      /\ comparison.nonTrain.losses = Cardinality(Lost(base, trained, NonTrain))
      /\ comparison.nonTrain.differed = Cardinality(Differing(base, trained, NonTrain))
  BY <1>1, <1>8, TransitionCounts
<1>10. /\ m.trainedCorrect \in Nat /\ m.baseCorrect \in Nat
       /\ m.wins \in Nat /\ m.losses \in Nat
       /\ m.trainedCorrect - m.baseCorrect = m.wins - m.losses
  BY <1>4, <1>5, <1>6, <1>7, SubsetsOfIdsAreFinite, DifferenceOfCounts
<1>11. /\ Won(base, trained, NonTrain) \subseteq Ids
       /\ Lost(base, trained, NonTrain) \subseteq Ids
       /\ Differing(base, trained, NonTrain) \subseteq Ids
  BY <1>1 DEF Won, Lost, Differing
<1>12. /\ comparison.nonTrain.wins \in Nat /\ comparison.nonTrain.losses \in Nat
       /\ comparison.nonTrain.differed \in Nat
  BY <1>9, <1>11, SubsetsOfIdsAreFinite
<1>13. Won(base, trained, T) \subseteq Won(base, trained, NonTrain)
  BY <1>1 DEF Won
<1>14. m.wins <= comparison.nonTrain.wins
  BY <1>7, <1>9, <1>11, <1>13, SubsetsOfIdsAreFinite, FS_Subset
<1>15. Won(base, trained, NonTrain) \subseteq Differing(base, trained, NonTrain)
  <2>1. \A id \in NonTrain : /\ base.records[id] = BuildRecord(id, base.records[id].prediction)
                             /\ trained.records[id] = BuildRecord(id, trained.records[id].prediction)
    BY <1>1 DEF Audited, AuditEvaluationRun
  <2>2. \A id \in NonTrain : base.records[id].prediction = trained.records[id].prediction
          => base.records[id] = trained.records[id]
    BY <2>1
  <2> QED
    BY <2>2 DEF Won, Differing
<1>16. comparison.nonTrain.wins <= comparison.nonTrain.differed
  BY <1>9, <1>11, <1>15, SubsetsOfIdsAreFinite, FS_Subset
<1> QED
  BY <1>6, <1>8, <1>10, <1>12, <1>14, <1>16

\* What ClassifyOutcome says of such measurements.
LEMMA OutcomeOfMeasures ==
  ASSUME NEW m, NEW policy, policy.minimum \in Nat,
         m.trainedCorrect \in Nat, m.baseCorrect \in Nat, m.wins \in Nat, m.losses \in Nat,
         m.eligible \in Nat, m.baseInvalid \in Nat, m.trainedInvalid \in Nat,
         m.baseAbstention \in Nat, m.trainedAbstention \in Nat
  PROVE  /\ ClassifyOutcome(m, policy) = "improved" <=> SuccessChecks(m, policy)
         /\ ClassifyOutcome(m, policy) = "experiment_failed" <=> ~m.unconfounded
<1>1. CASE ~m.unconfounded
  BY <1>1 DEF ClassifyOutcome, SuccessChecks
<1>2. CASE m.unconfounded /\ m.eligible < policy.minimum
  BY <1>2 DEF ClassifyOutcome, SuccessChecks
<1>3. CASE m.unconfounded /\ ~(m.eligible < policy.minimum)
  BY <1>3 DEF ClassifyOutcome, SuccessChecks
<1> QED
  BY <1>1, <1>2, <1>3

\* What Interpret says of a fair comparison with a win, and of one that is not fair.
LEMMA ConclusionOfComparison ==
  ASSUME NEW c, NEW policy, c.nonTrain.wins \in Nat, c.nonTrain.losses \in Nat,
         c.nonTrain.differed \in Nat
  PROVE  /\ Interpret(c, policy) = "confounded" <=> ~c.fair
         /\ c.fair /\ c.nonTrain.wins > 0 /\ c.nonTrain.differed > 0 =>
              Interpret(c, policy) \in {"better_on_this_corpus", "mixed_on_this_corpus",
                                        "inconclusive_underpowered"}
<1>1. CASE ~c.fair
  BY <1>1 DEF Interpret
<1>2. CASE c.fair /\ c.nonTrain.differed = 0
  BY <1>2 DEF Interpret
<1>3. CASE c.fair /\ c.nonTrain.differed > 0
  BY <1>3 DEF Interpret
<1> QED
  BY <1>1, <1>2, <1>3

LEMMA FinalizedFollowsEvidence ==
  ASSUME ExperimentInv
  PROVE  OutcomeFollowsEvidence
<1> SUFFICES ASSUME NEW s \in Finalized,
                    NEW result, result = experiments[s]["interpretation.json"],
                    NEW conclusion, conclusion = experiments[s]["paired-summary.json"].conclusion,
                    NEW m, m = result.metrics
             PROVE  /\ (result.outcome = "improved") = SuccessChecks(m, s)
                    /\ result.outcome = "improved" =>
                         conclusion \in {"better_on_this_corpus", "mixed_on_this_corpus",
                                         "inconclusive_underpowered"}
                    /\ (result.outcome = "experiment_failed") = (conclusion = "confounded")
                    /\ m.trainedCorrect - m.baseCorrect = m.wins - m.losses
  BY DEF OutcomeFollowsEvidence
<1>1. /\ s \in Specs /\ Manifest \in Entries(experiments[s])
      /\ \A f \in Files(ExperimentLayout) \ {Manifest} :
           experiments[s][f] = experiments[s][Manifest].files[f]
  BY DEF Finalized, ExperimentReadable, ExperimentVerifies, FilesVerify
<1>2. PICK manifest : manifest = experiments[s][Manifest]
  OBVIOUS
<1>3. PICK base \in evaluations, trained \in evaluations :
        \E ranking, reliability :
          manifest = Finalization(s, base, trained, ranking, reliability)[Manifest]
  BY <1>1, <1>2 DEF ExperimentInv, ResultsInv, IsResult
<1>4. PICK comparison : comparison = BuildPairedComparison(base, trained)
  OBVIOUS
<1>5. PICK ranking, reliability :
        manifest = Finalization(s, base, trained, ranking, reliability)[Manifest]
  BY <1>3
<1>6. /\ manifest.files["interpretation.json"] =
           BuildResult(s, base, trained, ExtractPrimaryMetrics(base, trained, comparison.fair))
      /\ manifest.files["paired-summary.json"].conclusion =
           Interpret(comparison, InterpretationPolicy)
  BY <1>4, <1>5, ManifestBinds
<1>7. /\ result = manifest.files["interpretation.json"]
      /\ conclusion = manifest.files["paired-summary.json"].conclusion
  BY <1>1, <1>2, LayoutFiles
<1>8. /\ m = ExtractPrimaryMetrics(base, trained, comparison.fair)
      /\ result.outcome = ClassifyOutcome(m, s)
      /\ conclusion = Interpret(comparison, InterpretationPolicy)
  BY <1>6, <1>7 DEF BuildResult
<1>9. Audited(base) /\ Audited(trained)
  BY <1>3 DEF ExperimentInv, EvaluationsInv, Audited
<1>10. /\ m.trainedCorrect \in Nat /\ m.baseCorrect \in Nat
       /\ m.wins \in Nat /\ m.losses \in Nat /\ m.eligible \in Nat
       /\ m.baseInvalid \in Nat /\ m.trainedInvalid \in Nat
       /\ m.baseAbstention \in Nat /\ m.trainedAbstention \in Nat
       /\ m.trainedCorrect - m.baseCorrect = m.wins - m.losses
       /\ comparison.nonTrain.wins \in Nat /\ comparison.nonTrain.losses \in Nat
       /\ comparison.nonTrain.differed \in Nat
       /\ m.wins <= comparison.nonTrain.wins
       /\ comparison.nonTrain.wins <= comparison.nonTrain.differed
       /\ m.unconfounded = comparison.fair
  BY <1>4, <1>8, <1>9, PairMeasured
<1>11. s.minimum \in Nat
  BY <1>1, SpecsAssumption
<1>12. /\ result.outcome = "improved" <=> SuccessChecks(m, s)
       /\ result.outcome = "experiment_failed" <=> ~m.unconfounded
  BY <1>8, <1>10, <1>11, OutcomeOfMeasures
<1>13. /\ conclusion = "confounded" <=> ~comparison.fair
       /\ comparison.fair /\ comparison.nonTrain.wins > 0 /\ comparison.nonTrain.differed > 0 =>
            conclusion \in {"better_on_this_corpus", "mixed_on_this_corpus",
                            "inconclusive_underpowered"}
  BY <1>8, <1>10, ConclusionOfComparison
<1>14. SuccessChecks(m, s) =>
         comparison.fair /\ comparison.nonTrain.wins > 0 /\ comparison.nonTrain.differed > 0
  BY <1>10 DEF SuccessChecks
<1>15. SuccessChecks(m, s) \in BOOLEAN
  BY DEF SuccessChecks
<1>16. (result.outcome = "improved") = SuccessChecks(m, s)
  BY <1>12, <1>15
<1>17. (result.outcome = "experiment_failed") = (conclusion = "confounded")
  BY <1>10, <1>12, <1>13
<1> QED
  BY <1>10, <1>12, <1>13, <1>14, <1>16, <1>17

\* The outcome of a finalized experiment agrees with the rest of what it is finalized
\* with: "improved" just when every preregistered criterion holds, and never against
\* the paired comparison, which is computed apart (analysis.py, comparison.py).
THEOREM OutcomesFollowEvidence == XSpec => []OutcomeFollowsEvidence
<1>1. ExperimentInv => OutcomeFollowsEvidence
  BY FinalizedFollowsEvidence
<1> QED
  BY <1>1, ExperimentsAreConsistent, PTL
================================================================================
