------------------------------ MODULE RealTraining ------------------------------
(***************************************************************************)
(* Real training (training/hfexecutor.py): a run is authorized by a        *)
(* preflight, admitted when the authorization is validated again, trains,  *)
(* publishes its checkpoint (realckptstore.py) and then records its        *)
(* execution (realexecstore.py).  The machine and the model directory may  *)
(* change at any time, and the process may be cut off.                     *)
(***************************************************************************)
EXTENDS TrainingPreflight, ArtifactDirectory, TLC

CONSTANTS
  Plans,          \* plans in the plan store
  Machines, Models, \* what the machine and the model directory may become
  Tokenizer,      \* the content of the tokenizer directory
  Allowed,        \* determinism categories that the caller accepts
  Limits,         \* the execution policies in use: [slice, backend] and WithinBounds'
  ModelPolicies,  \* the bounded model policies in use
  Losses,         \* what the losses of one and the same run may turn out to be
  EngineErrors,   \* how an engine may fail: "recorded", "escapes"
  MaxFaults,      \* changes of the world and cut-offs together
  MaxAuthorizations,
  MaxRuns         \* runs admitted

\* The plans are plan_for_real_backend's, with the bounds of BatchConfig and of
\* a slice (ge=1).
ASSUME PlansAssumption ==
  \A p \in Plans : /\ p = PlanFor(p.spec, p.corpus)
                  /\ p.spec.batch \in Nat \ {0} /\ p.spec.accum \in Nat \ {0}
ASSUME LimitsAssumption == \A l \in Limits : l.slice \in Nat \ {0}

VARIABLES
  world,          \* the machine, and the content of the model directory
  authorizations, \* authorizations in their store, refusals included
  job,            \* the run of the executor
  checkpoints,    \* real-checkpoints: id -> directory
  executions,     \* real-training-executions: id -> directory
  admitted,       \* runs admitted so far
  tfaults

world_ == <<world, authorizations>>
stores == <<checkpoints, executions>>
tvars == <<world, authorizations, job, checkpoints, executions, admitted, tfaults>>

(***************************************************************************)
(* The two stores                                                          *)
(***************************************************************************)
CheckpointLayout ==
  [subdirs |-> << >>,
   files |-> <<"checkpoint.json", "config.json", "model.safetensors", "tokenizer.json", Manifest>>]

ExecutionLayout ==
  [subdirs |-> << >>,
   files |-> <<"authorization-binding.json", "events.jsonl", "result.json", Manifest>>]

At(dirs, id) == IF id \in DOMAIN dirs THEN dirs[id] ELSE NoDirectory
SetAt(dirs, id, d) == [i \in DOMAIN dirs \cup {id} |-> IF i = id THEN d ELSE dirs[i]]

WithManifest(files, facts) ==
  Put(files, Manifest, [files |-> files, facts |-> facts])

\* verify_real_checkpoint.
CheckpointVerifies(d, id) ==
  /\ FilesVerify(d, CheckpointLayout)
  /\ d[Manifest].facts.lineage = id
  /\ id.steps >= 1

\* verify_real_execution.
ExecutionVerifies(d) ==
  /\ FilesVerify(d, ExecutionLayout)
  /\ LET facts == d[Manifest].facts
     IN /\ d["result.json"].final = facts.final
        /\ d["result.json"].checkpoint = facts.checkpoint
        /\ d["events.jsonl"].steps = facts.steps
        /\ facts.steps <= facts.id.policy.limits.steps
        /\ (facts.final = "completed") = (facts.checkpoint # Absent)

CheckpointReadable(id) ==
  LET d == At(checkpoints, id)
  IN Unmarked(d) /\ Manifest \in Entries(d) /\ CheckpointVerifies(d, id)

ExecutionReadable(id) ==
  LET d == At(executions, id)
  IN Unmarked(d) /\ Manifest \in Entries(d) /\ ExecutionVerifies(d)

Recorded(id) == executions[id][Manifest].facts

(***************************************************************************)
(* State                                                                   *)
(***************************************************************************)
NoJob == [step |-> "idle"]

TInit ==
  /\ world \in Machines \X Models
  /\ authorizations = {}
  /\ job = NoJob
  /\ checkpoints = << >> /\ executions = << >>
  /\ admitted = 0
  /\ tfaults = 0

Machine == world[1]
ModelDir == world[2]

\* run_preflight and write_training_authorization.
RunPreflight(plan, corpus) ==
  /\ job.step = "idle"
  /\ Cardinality(authorizations) < MaxAuthorizations
  /\ LET a == Preflight(plan, corpus, Machine, ModelDir, Tokenizer, Allowed)
     IN /\ a \notin authorizations /\ AuthorizationIsValid(a)
        /\ authorizations' = authorizations \cup {a}
  /\ UNCHANGED <<world, job, stores, admitted, tfaults>>

\* derive_real_execution_id: nothing in it tells two attempts apart.
ExecutionId(plan, a, artifact, slice, modelPolicy, policy) ==
  [plan |-> plan, authorization |-> a, model |-> artifact, slice |-> slice,
   modelPolicy |-> modelPolicy, policy |-> policy]

\* RealTrainingExecutor.execute, up to the engine: every refusal leaves no trace.
\* The slice is taken from the corpus directory, whatever corpus the plan names.
Admit(plan, corpus, a, limits, modelPolicy, bound) ==
  LET artifact == Resolve(plan, ModelDir)
      slice == SelectSlice(corpus, limits.slice)
      policy == [authorization |-> a, limits |-> limits, determinism |-> Allowed,
                 modelPolicy |-> bound.name]
      expected == plan.epochs * StepsPerEpoch(Len(slice.ids), plan.spec)
  IN /\ job.step = "idle" /\ admitted < MaxRuns
     /\ plan.epochs # Absent
     /\ SliceIsValid(slice)
     /\ artifact # Absent
     /\ Revalidates(a, plan, artifact, Resolve(plan, Tokenizer), modelPolicy, policy)
     /\ expected <= limits.steps
     /\ job' = [step |-> "admitted", expected |-> expected,
                id |-> ExecutionId(plan, a, artifact, slice, modelPolicy.name, policy)]
     /\ admitted' = admitted + 1
     /\ UNCHANGED <<world_, stores, tfaults>>

Failed(id, steps) ==
  [step |-> "record",
   artifact |-> WithManifest(
     ("authorization-binding.json" :> [authorization |-> id.authorization])
       @@ ("events.jsonl" :> [steps |-> steps])
       @@ ("result.json" :> [final |-> "failed", checkpoint |-> Absent]),
     [id |-> id, final |-> "failed", checkpoint |-> Absent, steps |-> steps]),
   id |-> id, pos |-> 1]

Completed(id, lineage) ==
  [step |-> "record",
   artifact |-> WithManifest(
     ("authorization-binding.json" :> [authorization |-> id.authorization])
       @@ ("events.jsonl" :> [steps |-> lineage.steps])
       @@ ("result.json" :> [final |-> "completed", checkpoint |-> lineage]),
     [id |-> id, final |-> "completed", checkpoint |-> lineage, steps |-> lineage.steps]),
   id |-> id, pos |-> 1]

\* A candidate: its lineage, and the payload that the engine gives it.  The engine
\* reads the model directory again.
Candidate(id, steps, losses) ==
  [execution |-> id, evidence |-> losses, steps |-> steps, corpus |-> id.plan.corpus]

Payload(lineage, content) ==
  WithManifest(
    ("checkpoint.json" :> [steps |-> lineage.steps])
      @@ ("config.json" :> [config |-> content])
      @@ ("model.safetensors" :> [trained |-> content, losses |-> lineage.evidence])
      @@ ("tokenizer.json" :> [tokenizer |-> Tokenizer]),
    [lineage |-> lineage])

\* Mutant: an existing directory is written again.
AnyDirectory(d) == TRUE

\* A store refuses a directory with something in it.
Startable(d) == Vacant(d)

StepBudget(id) ==
  IF id.plan.steps < id.policy.limits.steps THEN id.plan.steps ELSE id.policy.limits.steps

\* RealTrainingExecution's validator: the bindings and the bounds of every record ...
BindingsHold(id, steps) ==
  /\ id.policy.modelPolicy = id.modelPolicy
  /\ id.policy.authorization = id.authorization
  /\ steps <= StepBudget(id)

\* ... and all the steps of the slice, in the record of a completed run.
Assembles(id, steps, expected) == BindingsHold(id, steps) /\ steps = expected

\* Mutant: the execution is recorded before its checkpoint is published.
EngineCompletesUnpublished(losses) ==
  /\ job.step = "admitted"
  /\ job' = IF Startable(At(executions, job.id))
            THEN Completed(job.id, Candidate(job.id, job.expected, losses)) ELSE NoJob
  /\ UNCHANGED <<world_, stores, admitted, tfaults>>

\* The engine returns.  It is the real one: only it asks for gradient clipping.
EngineCompletes(losses) ==
  LET steps == OptimizerSteps(Len(job.id.slice.ids), job.id.plan.spec)
      lineage == Candidate(job.id, steps, losses)
  IN /\ job.step = "admitted"
     /\ job.id.plan.spec.clip /\ ModelDir # Absent
     /\ steps <= StepBudget(job.id)
     /\ job' = IF Startable(At(checkpoints, lineage))
               THEN [step |-> "publish", id |-> job.id, expected |-> job.expected, pos |-> 1,
                     lineage |-> lineage, artifact |-> Payload(lineage, ModelDir)]
               ELSE NoJob
     /\ UNCHANGED <<world_, stores, admitted, tfaults>>

\* The engine raises.  A TrainingEngineError is recorded, unless the validator
\* refuses the record; anything else ends the run.
EngineFails(steps, how) ==
  /\ job.step = "admitted"
  /\ steps \in 0 .. (IF job.id.plan.spec.clip THEN StepBudget(job.id) ELSE 0)
  /\ job' = IF /\ how = "recorded" /\ BindingsHold(job.id, steps)
               /\ Startable(At(executions, job.id))
            THEN Failed(job.id, steps) ELSE NoJob
  /\ UNCHANGED <<world_, stores, admitted, tfaults>>

WriteCheckpointEntry ==
  /\ job.step = "publish"
  /\ job.pos <= Len(WriteOrder(CheckpointLayout))
  /\ checkpoints' = SetAt(checkpoints, job.lineage,
       Install(At(checkpoints, job.lineage), WriteOrder(CheckpointLayout)[job.pos], job.artifact))
  /\ job' = [job EXCEPT !.pos = @ + 1]
  /\ UNCHANGED <<world_, executions, admitted, tfaults>>

\* The record is validated only after the checkpoint is published.
PublishCheckpoint ==
  /\ job.step = "publish"
  /\ job.pos > Len(WriteOrder(CheckpointLayout))
  /\ CheckpointVerifies(checkpoints[job.lineage], job.lineage)
  /\ checkpoints' = SetAt(checkpoints, job.lineage, Drop(checkpoints[job.lineage], Marker))
  /\ job' = IF /\ Assembles(job.id, job.lineage.steps, job.expected)
               /\ Startable(At(executions, job.id))
            THEN Completed(job.id, job.lineage) ELSE NoJob
  /\ UNCHANGED <<world_, executions, admitted, tfaults>>

WriteExecutionEntry ==
  /\ job.step = "record"
  /\ job.pos <= Len(WriteOrder(ExecutionLayout))
  /\ executions' = SetAt(executions, job.id,
       Install(At(executions, job.id), WriteOrder(ExecutionLayout)[job.pos], job.artifact))
  /\ job' = [job EXCEPT !.pos = @ + 1]
  /\ UNCHANGED <<world_, checkpoints, admitted, tfaults>>

RecordExecution ==
  /\ job.step = "record"
  /\ job.pos > Len(WriteOrder(ExecutionLayout))
  /\ ExecutionVerifies(executions[job.id])
  /\ executions' = SetAt(executions, job.id, Drop(executions[job.id], Marker))
  /\ job' = NoJob
  /\ UNCHANGED <<world_, checkpoints, admitted, tfaults>>

CutOffTraining ==
  /\ tfaults < MaxFaults /\ job.step # "idle"
  /\ tfaults' = tfaults + 1
  /\ job' = NoJob
  /\ UNCHANGED <<world_, stores, admitted>>

\* While files are written nothing looks at the world: a change then is one later.
ChangeWorld(machine, model) ==
  /\ tfaults < MaxFaults
  /\ job.step \in {"idle", "admitted"}
  /\ world # <<machine, model>>
  /\ world' = <<machine, model>>
  /\ tfaults' = tfaults + 1
  /\ UNCHANGED <<authorizations, job, stores, admitted>>

TNext ==
  \/ \E p \in Plans \cup {Absent}, c \in DOMAIN Corpora \cup {Absent} : RunPreflight(p, c)
  \/ \E p \in Plans, c \in DOMAIN Corpora, a \in authorizations, l \in Limits,
        m, b \in ModelPolicies : Admit(p, c, a, l, m, b)
  \/ \E l \in Losses : EngineCompletes(l)
  \/ \E k \in 0 .. 2, how \in EngineErrors : EngineFails(k, how)
  \/ WriteCheckpointEntry \/ PublishCheckpoint \/ WriteExecutionEntry \/ RecordExecution
  \/ CutOffTraining
  \/ \E s \in Machines, m \in Models : ChangeWorld(s, m)

TSpec == TInit /\ [][TNext]_tvars

(***************************************************************************)
(* Properties                                                              *)
(***************************************************************************)
Published == { id \in DOMAIN checkpoints : CheckpointReadable(id) }
Records == { id \in DOMAIN executions : ExecutionReadable(id) }

\* What a checkpoint says of its origin is true of the preflight: the authorization
\* was granted, for that plan, on a machine that passed, and for the very content
\* that the model directory had when the run was admitted - although the directory
\* and the machine may have changed in between (realexec.py:349).
CheckpointsWereAuthorized ==
  \A id \in Published :
    LET run == id.execution
    IN /\ run.authorization.authorized
       /\ run.authorization.plan = run.plan
       /\ run.authorization.model = run.model
       /\ Available(run.authorization.snapshot)

\* A completed execution that can be read has its checkpoint, readable and its own,
\* with the steps that its slice takes: whatever was cut off (hfexecutor.py:393).
CompletedHasItsCheckpoint ==
  \A id \in Records : Recorded(id).final = "completed" =>
    /\ Recorded(id).checkpoint \in Published
    /\ Recorded(id).checkpoint.execution = id
    /\ Recorded(id).steps = id.plan.epochs * StepsPerEpoch(Len(id.slice.ids), id.plan.spec)

\* A run that the executor carries on with is never refused for its step count: the
\* engine's loop and the plan's arithmetic agree, so no checkpoint is published for
\* a run that cannot be recorded on that account (realexec.py:311).
StepsAgree ==
  job.step = "publish" => job.lineage.steps = job.expected

\* What was published stays as it was, and an execution that has been decided is
\* not decided again by another attempt, which has the same id.
OutcomesStand ==
  [][/\ \A id \in Published : checkpoints'[id] = checkpoints[id]
     /\ \A id \in Records : executions'[id] = executions[id]]_tvars

\* docs/architecture/decisions/0027-...: "Checkpoint publication requires BOTH a
\* verified authorization and a verified COMPLETED execution."
PublicationNeedsCompletion ==
  job.step = "idle" => \A id \in Published :
    id.execution \in Records /\ Recorded(id.execution).final = "completed"
================================================================================
