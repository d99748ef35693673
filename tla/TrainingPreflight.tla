--------------------------- MODULE TrainingPreflight ---------------------------
(***************************************************************************)
(* What has to hold before a real training run: the plan of a real backend *)
(* (training/backend.py, trainer.py), the environment snapshot, the        *)
(* preflight and the authorization it gives (preflight.py), the bounded    *)
(* policies of a run (bounds.py) and the second look at the authorization  *)
(* when the run starts (realexec.py).                                      *)
(*                                                                         *)
(* An id or a digest is a hash of what it identifies: here, the thing      *)
(* itself.  A machine is [packages, os, device, precisions, count, memory, *)
(* deterministic]; a package version is "absent", "unparseable", "old" or  *)
(* "current".                                                              *)
(***************************************************************************)
EXTENDS Integers, Sequences, FiniteSets

CONSTANTS
  Absent,            \* what is None, or cannot be read
  Corpora,           \* corpus name -> its examples, in canonical order
  BytesPerParameter  \* of weights, gradients and optimizer state together

\* A corpus is a list of examples.
ASSUME CorporaAssumption ==
  \A c \in DOMAIN Corpora : Corpora[c] \in Seq({ Corpora[c][k] : k \in DOMAIN Corpora[c] })

(***************************************************************************)
(* The backend and its plans                                               *)
(***************************************************************************)
\* build_hf_full_finetune_backend_spec.
Backend ==
  [name |-> "hf", systems |-> {"linux", "macos"}, devices |-> {"cpu", "cuda"},
   precisions |-> {"bfloat16", "float32"}, optimizers |-> {"adamw"},
   schedulers |-> {"constant", "linear_warmup"}, checkpoints |-> {"none"}]

\* build_training_request: what the trainer's capabilities ask of a spec.
IsSupported(spec) ==
  /\ spec.trainer = Backend.name
  /\ spec.provider = "huggingface"
  /\ spec.precision \in Backend.precisions
  /\ spec.optimizer \in Backend.optimizers
  /\ spec.checkpoint \in Backend.checkpoints

CeilDiv(a, b) == (a + b - 1) \div b

\* compute_plan_counts.
StepsPerEpoch(examples, spec) == CeilDiv(CeilDiv(examples, spec.batch), spec.accum)

\* plan_for_real_backend.  No epochs: a budget of optimizer steps.
PlanFor(spec, corpus) ==
  LET examples == Len(Corpora[corpus])
  IN [epochs |-> spec.epochs,
      steps |-> IF spec.epochs = Absent THEN spec.steps
                ELSE spec.epochs * StepsPerEpoch(examples, spec),
      examples |-> examples, corpus |-> corpus, spec |-> spec]

(***************************************************************************)
(* The environment                                                         *)
(***************************************************************************)
CheckPackage(version) ==
  CASE version = "absent" -> "missing"
    [] version = "unparseable" -> "unparseable"
    [] version = "old" -> "incompatible"
    [] version = "current" -> "compatible"

\* snapshot_from_probe.
Snapshot(machine) ==
  LET records == [p \in DOMAIN machine.packages |-> CheckPackage(machine.packages[p])]
  IN [machine EXCEPT !.packages = records,
                     !.os = IF @ \in {"linux", "macos", "windows"} THEN @ ELSE "other"]

Available(snapshot) ==
  \A p \in DOMAIN snapshot.packages : snapshot.packages[p] = "compatible"

AssessDeterminism(snapshot) ==
  CASE ~Available(snapshot) -> "unsupported"
    [] Available(snapshot) /\ ~snapshot.deterministic -> "nondeterministic"
    [] Available(snapshot) /\ snapshot.deterministic /\ snapshot.device = "cpu" -> "deterministic"
    [] OTHER -> "best_effort"

EstimateMemory(parameters, spec) ==
  ((parameters * BytesPerParameter + spec.batch * spec.tokens) * 5) \div 4

(***************************************************************************)
(* Preflight: the stages that report an ERROR                              *)
(***************************************************************************)
\* The plan is read from its store; what cannot be read is Absent.
PlanErrors(plan) == IF plan = Absent THEN {"plan"} ELSE {}

\* The corpus in the directory is the plan's, with as many pairs.
CorpusErrors(plan, corpus) ==
  IF plan = Absent \/ corpus = Absent THEN {"corpus"}
  ELSE IF corpus # plan.corpus \/ Len(Corpora[corpus]) # plan.examples THEN {"corpus"} ELSE {}

BackendErrors(plan) ==
  IF plan = Absent THEN {"backend"}
  ELSE IF ~IsSupported(plan.spec) \/ plan.spec.scheduler \notin Backend.schedulers
       THEN {"backend"} ELSE {}

PackageErrors(snapshot) == IF Available(snapshot) THEN {} ELSE {"packages"}

DeviceErrors(snapshot) ==
  IF /\ snapshot.os \in Backend.systems
     /\ snapshot.device \in Backend.devices
     /\ snapshot.count = 1
  THEN {} ELSE {"device"}

\* LocalModelArtifactResolver: the content of the directory, hashed.
Resolve(plan, content) ==
  IF plan = Absent \/ content = Absent THEN Absent
  ELSE [model |-> plan.spec.model, content |-> content]

ModelErrors(artifact) == IF artifact = Absent THEN {"model"} ELSE {}
TokenizerErrors(artifact) == IF artifact = Absent THEN {"tokenizer"} ELSE {}

PrecisionErrors(plan, snapshot) ==
  IF plan = Absent THEN {"precision"}
  ELSE IF plan.spec.precision \notin snapshot.precisions THEN {"precision"} ELSE {}

MemoryErrors(plan, artifact, snapshot) ==
  IF plan = Absent \/ artifact = Absent THEN {"memory"}
  ELSE IF snapshot.memory = 0 \/ EstimateMemory(artifact.content.parameters, plan.spec) > snapshot.memory
       THEN {"memory"} ELSE {}

DeterminismErrors(snapshot, allowed) ==
  IF AssessDeterminism(snapshot) \in allowed THEN {} ELSE {"determinism"}

CheckpointErrors(plan) ==
  IF plan = Absent THEN {"checkpoint"}
  ELSE IF plan.spec.checkpoint \notin Backend.checkpoints THEN {"checkpoint"} ELSE {}

\* run_preflight: a refusal is an authorization as well.
Preflight(plan, corpus, machine, model, tokenizer, allowed) ==
  LET snapshot == Snapshot(machine)
      artifact == Resolve(plan, model)
      errors == PlanErrors(plan) \cup CorpusErrors(plan, corpus) \cup BackendErrors(plan)
                \cup PackageErrors(snapshot) \cup DeviceErrors(snapshot)
                \cup ModelErrors(artifact) \cup TokenizerErrors(Resolve(plan, tokenizer))
                \cup PrecisionErrors(plan, snapshot) \cup MemoryErrors(plan, artifact, snapshot)
                \cup DeterminismErrors(snapshot, allowed) \cup CheckpointErrors(plan)
  IN [plan |-> plan, snapshot |-> snapshot, model |-> artifact,
      tokenizer |-> Resolve(plan, tokenizer), category |-> AssessDeterminism(snapshot),
      errors |-> errors, authorized |-> errors = {}]

\* TrainingExecutionAuthorization's validator.
AuthorizationIsValid(a) ==
  a.authorized => a.errors = {} /\ a.model # Absent /\ a.tokenizer # Absent

(***************************************************************************)
(* The bounds of a run                                                     *)
(***************************************************************************)
\* select_corpus_slice: the first examples in canonical order.
SelectSlice(corpus, max) ==
  LET examples == Corpora[corpus]
  IN [corpus |-> corpus, max |-> max,
      ids |-> SubSeq(examples, 1, IF max < Len(examples) THEN max ELSE Len(examples))]

SliceIsValid(slice) ==
  /\ slice.ids # << >>
  /\ \A j, k \in DOMAIN slice.ids : slice.ids[j] = slice.ids[k] => j = k
  /\ Len(slice.ids) <= slice.max

\* The limits that the model policy and the execution policy both set.
WithinBounds(plan, bounds) ==
  /\ plan.spec.tokens <= bounds.tokens
  /\ plan.examples <= bounds.examples
  /\ plan.epochs # Absent => plan.epochs <= bounds.epochs
  /\ plan.steps <= bounds.steps
  /\ plan.spec.batch * plan.spec.accum <= bounds.batch

\* The model policy, in revalidate_authorization.
WithinModelPolicy(plan, artifact, policy) ==
  /\ plan.spec.model = policy.model
  /\ artifact.content.parameters <= policy.parameters
  /\ WithinBounds(plan, policy)

\* Mutant: what the model directory holds now is not compared.
RevalidatesAnyContent(a, plan, artifact, tokenizer, modelPolicy, policy) ==
  /\ a.authorized
  /\ a.plan = plan
  /\ policy.authorization = a
  /\ policy.limits.backend \in {Backend.name, plan.spec.trainer}
  /\ a.category \in policy.determinism
  /\ WithinModelPolicy(plan, artifact, modelPolicy)
  /\ WithinBounds(plan, policy.limits)

\* revalidate_authorization.  The machine is not probed again, and the policy's own
\* model policy is not compared with the one that is presented.
Revalidates(a, plan, artifact, tokenizer, modelPolicy, policy) ==
  /\ a.authorized
  /\ a.plan = plan
  /\ policy.limits.backend \in {Backend.name, plan.spec.trainer}
  /\ policy.authorization = a
  /\ a.model = artifact
  /\ a.tokenizer = tokenizer
  /\ a.category \in policy.determinism
  /\ WithinModelPolicy(plan, artifact, modelPolicy)
  /\ WithinBounds(plan, policy.limits)

(***************************************************************************)
(* The engine's loop                                                       *)
(***************************************************************************)
\* Mutant: the accumulation window is not closed by the end of an epoch.
OptimizerStepsAcrossEpochs(examples, spec) ==
  LET batches == spec.epochs * Cardinality({ s \in 0 .. (examples - 1) : s % spec.batch = 0 })
  IN Cardinality({ k \in 1 .. batches : k % spec.accum = 0 \/ k = batches })

\* HFTrainingEngine.run: a batch begins at every multiple of the batch size, and a
\* step is taken when the window is full or the examples of the epoch are over.
OptimizerSteps(examples, spec) ==
  LET batches == Cardinality({ s \in 0 .. (examples - 1) : s % spec.batch = 0 })
  IN spec.epochs * Cardinality({ k \in 1 .. batches : k % spec.accum = 0 \/ k = batches })
================================================================================
