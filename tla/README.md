# VerifiedNet in TLA+

VerifiedNet produces network incidents whose ground truth does not come from a
model: a lab of two FRR routers is started, a known fault is injected, its onset
and its recovery are verified from evidence that collectors read off the
routers, and the run is stored as a directory of hashed artifacts that later
stages (datasets, training, evaluation) only read through an index. This
directory holds specifications of that system, the TLC configurations that check
them and TLAPS proofs about them. Paths below are relative to
`src/verifiednet/` unless they begin with `docs/`.

## 1. The system

| part | state it keeps | operations | talks to |
|---|---|---|---|
| composition root (`orchestrator/live_run.py`, `families.py`) | locals of one run; which `finally` is pending | `run_accepted_incident`, `run_precondition_rejected_incident` | everything below, by calls |
| lab backend (`labs/frr/`) | containers, one compose project per lab | `start`, `stop`, convergence wait, evidence sampling | docker through the process runner |
| fault scenarios (`faults/*.py`) | the fault and restoration already made | `validate_preconditions`, `inject`, `verify_onset`, `restore`, `verify_recovery` | ledger, mutation executor, evidence, polling |
| ledger (`faults/ledger.py`) | the phases recorded, in memory and optionally in a file | `append`, `read`, `current` | read by the composition root and stored with the run |
| mutation executor (`runtime/mutation.py`, `policy.py`, `process.py`) | the transcript | policy check, write-ahead entry, run, completed entry | process runner |
| verifiers (`verifiers/`) | none | `poll_until`, `ClaimVerifier.verify` | evidence bundles |
| network (external) | configuration, BGP sessions, routes | converges, flaps, executes commands | commands and collectors |
| run store (`artifacts/`, `orchestrator/assembly.py`) | run directories and `index.json` under one root | `write_run_artifacts`, `verify_run_dir`, `add_run_to_index`, `verify_run_index`, `load_verified_run_from_index` | the file system |
| datasets (`datasets/`) | exported datasets and prepared corpora on disk | discovery, projection, splitting, leakage and separation audits, export | the run index |
| training (`training/`) | corpora, plans, authorizations, executions, checkpoints, each a content-addressed directory | selection, planning, preflight, execution and its retry chain, stores | datasets, backends |
| evaluation (`evaluation/`) | evaluation corpora, evaluations, comparisons, benchmarks | prediction, scoring, pairing, stores | datasets, checkpoints, inference |
| experiments (`experiment/`) | experiment directories; a campaign's plan and records | preregistration, finalization; planning and judging an expansion | all of the above |

A tool is one process and one thread. What makes it hard is around it:

- *The network moves between any two calls*, also between the two routers' halves
  of one sample; it converges late, flaps, and a command whose docker client
  timed out may still be executed (`runtime/process.py` kills only the client).
- *Every call may raise*, and two nested `finally` blocks must leave the network
  restored, the ledger legal and the lab torn down from wherever that happens.
- *The process may die between any two file operations*, and nothing cleans up
  after it: what a reader of the store may then still rely on is the store's
  whole purpose.
- *What was verified is used later*: a machine, a model directory, an index or a
  dataset is checked by one call and relied on by another, after it may have
  changed, grown or been damaged.
- *Rows travel through many files*: a group of near-identical runs must stay on one
  side of the line between training and evaluation through every export, and
  whatever was published in between.
- *Polls end by a deadline or by consecutive successes*, and a result is used
  after the poll that produced it has ended.

What makes each part correct, in a sentence: a run that is accepted was
faulted, seen faulty, and put back for good, in that order, with a transcript
that says so; a run that is not accepted still puts back what it injected and
says that it failed; a run that returns left no lab behind; a run directory that
looks complete is complete; a run that was returned stays published; a ledger that was written
can be read; a group keeps its split; a chain of resumed executions trains what
was selected, once; a checkpoint rests on what was authorized; the outcome of an
experiment follows from what the named models answered.

## 2. The modules

| module | what it is |
|---|---|
| `Lifecycle` | phases and legal transitions of `faults/ledger.py`, pure |
| `FaultLifecycle` | one incident run: composition root, scenarios, lab, polling, mutation executor, and the network around them |
| `IncidentContract` | abstract: what the caller of one run is promised |
| `FaultLifecycleInvariants` | the inductive invariants of `FaultLifecycle` |
| `FaultLifecycleProofs` | TLAPS: types, the safety properties, the transcript, the ledger's history, the steps of the contract |
| `MCFaultLifecycle` | the sets of families the configurations choose |
| `RunStore` | run directories and the index, one file operation per step, writers, readers, cut-offs |
| `RunRegistry` | abstract: a registry of published runs |
| `RunStoreProofs` | TLAPS: the safety and action properties of the store, and its refinement of the registry |
| `LedgerFile` | the file behind a `Ledger`: torn, unsynced and failed writes, and reading back |
| `LedgerFileProofs` | TLAPS: what a reader of the file can rely on |
| `TrainingProgress` | the counts of a plan and the event log that an execution's header determines, pure |
| `TrainingEngine` | `execute` and `resume` over every plan, policy and script: chains of executions |
| `TrainingEngineProofs` | TLAPS: what holds of every selection and every chain |
| `CorpusSelection` | the two selections of training sources and the corpus they give, pure |
| `SelectedTraining` | the composition: select a corpus, plan it, execute and resume the plan |
| `MCTrainingEngine` | `SelectedTraining` for TLC: sources, selection policies, plans |
| `TrainingStore` | the executions of one plan on disk: workers, the writer file by file, cut-offs, and the checkpoint producer |
| `TrainingStoreProofs` | TLAPS: its properties, for workers that do not write one id at the same time |
| `MCTrainingStore` | `TrainingStore` for TLC |
| `ArtifactDirectory` | the directory protocol that all later stores share, pure: marker, files, manifest, verification |
| `DatasetExamples` | projection of runs, groups, splits, leakage audits, separation, pure |
| `DatasetPipeline` | from the run index to training and evaluation corpora: exports file by file, a campaign, an expansion |
| `DatasetPipelineProofs` | TLAPS: its properties, for every library and campaign |
| `MCDatasetPipeline` | `DatasetPipeline` for TLC |
| `TrainingPreflight` | plans of real backends, the gates of the preflight, revalidation, the bounded slice, the loop's steps, pure |
| `RealTraining` | authorization, admission, training, publication and record of real executions |
| `RealTrainingProofs` | TLAPS: what checkpoints and records say of each other |
| `MCRealTraining` | `RealTraining` for TLC |
| `Evaluation` | predictors, scoring, metrics, pairing, ranking, the outcome rule, pure |
| `ControlledExperiment` | one experiment from preregistration to finalization, and the operator's attempts |
| `ControlledExperimentProofs` | TLAPS: its properties, for every corpus and every model |
| `MCControlledExperiment` | `ControlledExperiment` for TLC |

Definitions whose comment begins with *Mutant:* are not part of a specification.
Each is a plausible bug of the definition below it, and shows that some property
fails when the code is written that way.

### FaultLifecycle

`pc` is the next call of the run; one action is one call, or the part of a call up
to or from the process runner, since only there the network can change what the
call did. Scenario calls that poll take one action per half sample
(`ObserveTarget`, then the caller's own action, which reads the peer half). A command
may exit with an error, time out and land late, or its runner may raise between the
pending and the completed entry of the transcript (`RunnerRaises`). The
four families differ in the checks of `Checks` and in `ForcedReset`; the actions
are the same code with different constants.

| variable | code |
|---|---|
| `ledger` | `Ledger._records`, by phase |
| `transcript` | `InMemoryTranscript`, mutation entries only |
| `raised` | an exception is propagating |
| `streak`, `polls` | the locals of `poll_until` and `wait_for_bgp_established` |
| `view` | the target half of the sample being collected |
| `onsetOK`, `recoveryOK` | whether all verdicts of the phase are committable |
| `onsetBundle` | `onset_bundle` of the composition root |
| `record` | the payload built before the teardown |
| `lab` | containers: none, someone else's, some left, running |
| `cfg`, `sess`, `route` | the parameter the fault changes, and per router the session and the route to the other's loopback |
| `late` | commands whose client timed out and that may still be executed |

`Raise` is the control flow of every exception: to `restore` when the ledger
shows an injected phase, else to `stop`. The model never tests
`LEGAL_TRANSITIONS` before it appends; that no call can violate them is the
property `LedgerIsLegal`.

Abstracted: what a check says (its verdict is a predicate of the sample; a
deadline, a parse error and an inconclusive verdict all end in not-satisfied or
an exception), the several commands that collect one node's half of a sample
(`scenario_evidence.py:155`; no property tells two facts of one node apart), link and reachability checks (the lab's link does not fail by
itself), the comparison of the peer's configuration (nothing changes it), the
record's content, sequence numbers and times.

### RunStore

A run directory is the set of names in it, and one action is one file operation:
`mkdir`, the marker, each temporary file, each `os.replace`, the unlink. `sound[r]`
says whether the content that this producer writes passes `verify_run_dir`;
everything else `verify_run_dir` asks (files listed and present, nothing unlisted,
no marker) is computed from the names. `Abort` stands for a kill and for an
exception at any point: both leave the disk as it is, since `write_run_artifacts`
cleans nothing up. A reader's verification of the index, its second reading of
it and its load are three steps.

Abstracted: bytes and digests, `index.json.tmp` (overwritten by the next writer; its
name is fixed, so overlapping producers could also tear each other's temporary file,
which the model does not show), the order in which directory entries reach the disk in a power loss, and one
verification of a directory or of the root, which is one step.

### LedgerFile

A line has a phase, may be malformed and may lack its newline. `WriteFails` and
`Crash` choose among everything a cut-off `write`, `flush`, `fsync` leaves.

### TrainingProgress, TrainingEngine and TrainingStore

A plan is its four counts, an execution is the four fields of its header that are
not fixed by plan and policy (`retry`, `offset`, `final`, `completed`): the validator
replays the event log from the header, so the log is an operator, `Log`, and not
state. `Cursor` is `_progress_frames`' two loops, one optimizer step per turn.
`Valid` is `TrainingExecution._valid` and the validator of its events, `Runs` and
`Resumptions` are the engine; they are written from different code, and
`EngineOutputsAreValid` says that they fit.

`TrainingEngine`'s state is `chain`, the executions a caller made by resuming the last
one again and again. In `TrainingStore` a worker has one execution in hand (`held`),
makes, resumes or loads it, and writes it: the marker, `events.jsonl`,
`manifest.json`, the verification and the removal of the marker are one step each.
With plan, capability and policy fixed, an execution's id is its retry number, so
`dir` is indexed by it. A file is identified with the execution it was written
from, as hashes and digests bind it. `CutOff` is a kill or an exception of a file
operation.

Abstracted: the temporary file of an atomic installation (the marker stands beside
it in any case, so a directory that has one is refused either way), `detail`
texts, hashes, the files that one load reads and verifies (`Load` is one step: with one
writer per id nothing replaces them meanwhile). Not modelled: `resume` with another plan (refused, `engine.py:100`),
executions of other plans in the same root (other ids, hence other directories),
and two processes that write one id at the same time.

### CorpusSelection and SelectedTraining

A prepared corpus is a sequence of rows in the order of their ids, and a source is
a position in it. `SelectedSources` follows `selection.py` (a family's quota filled
with a prefix, or from its groups in turn), `EvidenceCorpus` is
`evidence_corpus.py`, which sorts what was selected by id again. `SelectedTraining`
puts the two before the engine: `SelectedInit` chooses a corpus, a selection policy
and a batch size that `CanBuildCorpus` accepts and a plan over the corpus's length;
its steps are the engine's.

### ArtifactDirectory

Every store after the run index writes a directory in the same way: refuse one that
is not empty, make the subdirectories, put the marker, install the files, verify,
remove the marker. `WriteOrder` is that list for a layout, `Install` is one entry of
it, `FilesVerify` compares what is there with the manifest, `Unmarked` is the
reader's first test. A file is its content; the manifest holds the contents it was
written for, as it holds hashes in the code, so a damaged file is seen.
`DatasetPipeline` and `RealTraining` take one step per entry, so a writer can be
killed between any two; `ControlledExperiment` installs its content in the same way.

### DatasetExamples and DatasetPipeline

`DatasetExamples` has the pure part: how a verified run projects to an example, the
group of an example (its stable identity), the bucket and split of a group, the
leakage audits and the separation into features, labels and metadata.
`DatasetPipeline`'s state:

| variable | code |
|---|---|
| `index` | the runs in the shared run index, which producers extend at any time |
| `tool` | the command that is running, and what it has in memory |
| `store` | directories of exported datasets (two versions), prepared corpora, and the expanded corpus |
| `campaign` | an expansion: plan, run records, the campaign's own index, approval |
| `trained`, `registered` | training corpora, and registered evaluation corpora with their bindings |
| `faults` | cut-offs and damaged files so far |

Discovery verifies the index and reads it in a second step (`VerifyIndex`,
`LoadIndex`), as `discovery.py` does. The loop that runs a campaign is not in
`src/`, only what it is given and what it must produce: `Attempt` is external (it takes
only accepted faults, as the operational test that drives a campaign does), the plan,
the records' validators, the append-only diff, the firewall and the approval are the
code's. Corpora are built and registered from any prepared corpus that can be read,
approved or not. The frozen groups that the diff compares with are an argument of its
caller, so `Approve` takes any set of groups. Of the readiness report, `leakage_clean`,
`v2_derivation_ok` and the counts, which the caller states as well, are taken as good:
the model approves more than the code does. Abstracted: what a feature or a label says beyond what the audits
compare; digests; training and evaluation corpora appear in one step (their writer
is the same protocol).

### TrainingPreflight and RealTraining

`TrainingPreflight` has the gates of `run_preflight`, one operator per gate in the
code's order, each giving the set of its error codes; the plan of a real backend;
the bounded slice; `Revalidates`; and `OptimizerSteps`, the step count that the
engine's nested loops reach. `RealTraining`'s `world` is the machine and the model
directory, which `ChangeWorld` replaces between any two steps. `job` is the
executor: `Admit` is `execute` up to the engine (revalidation included),
`EngineCompletes` and `EngineFails` are the engine, `WriteCheckpointEntry` and
`PublishCheckpoint` the checkpoint store, `WriteExecutionEntry` and
`RecordExecution` the execution store. An execution id is the record of its
bindings, so two attempts with the same bindings have the same id. The engine is the
one of `HFTrainingEngine`, the only one that trains; `StubTrainingEngine` is not
modelled. Every record, a failed one too, has to pass its validator (`BindingsHold`), and
an attempt whose record it refuses ends without one. `WithinBounds` has all limits of
a plan, for the model policy and for the authorization, and revalidation asks for the
backend besides. Losses differ
between two attempts, as nothing makes a training run reproduce itself.

Abstracted: tensors, losses and tokens (external; a loss is a value that may differ),
the content of authorizations beyond what revalidation compares, one executor at
a time.

### Evaluation and ControlledExperiment

`Evaluation` has the pure part: parsing and schema of an answer, the predictors,
scoring, metrics, audits, parser statistics, pairing, fairness, ranking, the
interpretation of a comparison and the outcome rule of `analysis.py`.
`ControlledExperiment` is one operator's process: `Begin` and `PersistSpec` are
`preregister_experiment` (a kill between them loses the id), `Bundle` verifies the
base model, `EvaluateBase` and `EvaluateTrained` predict every example, with the
examples in `failing` answered by a backend failure, `Benchmark` pairs and ranks,
`WriteContent` and `FinishExperiment` are `write_experiment_result` file by file.
`ReplaceBaseModel` may put other content into the base model's directory at any time.
What a model answers is chosen once per content (`Learn`), since decoding is
deterministic. The comparison pairs the stored evaluations; the benchmark evaluates all
predictors once more (`Again`), where the backend may fail on other examples. The
reliability that the finalization records is its caller's argument: the operational
tests compute it from the stored runs, the benchmark's report from the benchmark's own
ones. `Benchmark` takes either, and `CrossChecks` refuses the second when it counts other
invalid answers than the stored evaluations. `comparison_unconfounded` is an argument
as well, and every caller in the repository gives the fairness result, which the model
does.

Abstracted: a partition without examples has zero counts where the code leaves it out,
which no test of the outcome tells apart. Re-verification of a model and its load are one
step; a failing load is a failure of all examples, and is not tried again for each; the
test that torch is installed (`hfinference.py:89`) comes before the re-verification in
the code and is one of its failures here. An attempt chooses its own directories for
evaluations, benchmarks and comparisons, as these roots are arguments, so that the
refusals of what is already there (`evaluation/store.py:253`, `benchmark.py:407`,
`comparison.py:786`) never stop a second attempt: the model has more behaviours than a
caller with fixed roots.

## 3. The runs

| run | bounds | what it shows |
|---|---|---|
| `fault_lifecycle` | all four families and the rejected run; 2 successes in a row, 3 samples per poll, 1 flap; about 94 000 states | one incident run is safe, ends, and implements `IncidentContract` |
| `recovery_routes` | remote-AS only | counterexample, see section 5 |
| `run_store` | 2 run ids, 2 producers, 1 reader, 2 artifacts, 2 cut-offs; about 19 000 states | the store of runs, with producers that come one at a time (`serial`) or overlap |
| `ledger_file` | 9 records, 2 failed writes, callers that stop after one or go on (`reuse`); about 10 000 states | when a ledger file can be read, and what it says |
| `training_engine` | 8 prepared corpora, 14 selection policies; batches of 1 or 2, accumulation up to 3, at most 6 steps; three policies, up to 3 retries; about 69 000 states | what is selected is trained, whatever was stopped and resumed |
| `training_store` | a plan of 3 steps, 1 retry, 1 worker, 1 producer, 2 cut-offs; about 42 000 states | one outcome per identity |
| `resume_binding` | the same without cut-offs | counterexample, see section 5 |
| `dataset_pipeline` | 3 groups (train, test, train), 4 runs of the library, 3 of a campaign, one of them rejected, 2 dataset versions, 1 expansion, 1 cut-off or damage; about 335 000 states | no group on both sides, through every export |
| `real_training` | 2 machines, 2 model contents, 1 plan of 4 steps, 2 model policies, limits for 2 backends, 2 runs, 1 fault or change; about 164 000 states | what a checkpoint and a record say is true |
| `checkpoint_publication` | the same | counterexample, see section 5 |
| `controlled_experiment` | 2 test examples and 1 abstention, 2 answers to each, 2 specifications, 2 attempts, 1 fault; about 450 000 states | the finalized outcome follows from the evidence |
| `infrastructure_failure` | the same | counterexample, see section 5 |

Why the bounds are enough. `poll_until` is called with `consecutive=2` everywhere,
so two is the code's own number; three samples are the least that lets a streak
be reset and still succeed. Every command occurs at most once in a run, so every
set of late commands is reached. One flap hits any point of a run. In the run store,
two cut-offs are two orphans, or an orphan and a later cut-off, and with two
producers every order of their index updates occurs. A ledger path has at most nine
records since the phases form a chain of seven appends, and a second lifecycle must
be able to begin. The plans have accumulation windows that divide an epoch, that do
not, and that are longer than one, a short last batch, and step budgets that end
inside an epoch and on its end; six steps allow three resumptions with a stop at,
before and after an epoch's end. The sources have groups of one to three rows, of
which some run out before the quota is filled. In the training store, three steps with
two stops give two different outcomes to the same id, one retry gives a chain, and two
cut-offs hit both of its directories. The datasets have an accepted and a rejected run
of one group (no split holds both), a held-out group, a group that is known from an
abstention only, and a campaign run for each candidate of the training split, with a
rejected run besides that the campaign must not take. One
cut-off or one change of the world hits every step of a training run, and the second
run meets what the first left. Two test examples with two answers each give every sign
of wins, losses and invalid answers, and a specification with a minimum of 3 is
underpowered.

`CHECK_DEADLOCK FALSE` stands where a behaviour may really stop: when all run ids are
used or the root is blocked by an orphan, when the chain of phases has ended, when all
datasets are exported or the index cannot be exported any more, when all admitted
runs or attempts are over. A run of `FaultLifecycle`, a chain of executions and the
training store go on or stutter explicitly, so there deadlock is checked.

Properties of `FaultLifecycle`:

- `LedgerIsLegal`: no combination of failures makes a call ask for an illegal
  transition (an exception from a `finally` would hide the first one).
- `FaultIsLogged`: the network is never faulty, and no inject is under way,
  without the write-ahead entry and `INJECTING`.
- `InjectedIsReverted`: a run comes to its teardown only after it issued a revert
  for what it injected. It does not say that the revert succeeded; a run whose
  revert fails raises.
- `AcceptedIsRestored`: from the moment an accepted record exists until the lab is
  gone the configuration is restored, and no timed-out command that could change it
  again is still under way.
- `AcceptedTranscript`: the accepted record's transcript pairs every command, in
  order, and both configuration changes succeeded.
- `OnsetEvidenceShowsFault`: the onset bundle is collected *after* the onset poll
  and still shows the fault and its symptom.
- `ReturnedMeansTornDown`: `cleanup_status="clean"`, written before the teardown,
  is true of every run that returns.
- `Terminates`, and `KeepsContract`: the refinement of `IncidentContract`.

Properties of `RunStore` and `LedgerFile`:

- `MarkerIsHonest`: no marker and a hash index means complete and sound.
- `ReturnedStaysIndexed` and `LostEntryIsDetected`: with one producer at a time a
  returned run stays in the index and readers are served from it; when producers
  overlap an entry can be lost (the first property does not speak of that), but never
  silently, the root then fails verification.
- `StoreOnlyGrows` (an attempt to produce a run id again, also that of a run whose
  assembly failed after it was published, replaces nothing), `ImplementsRegistry` (the
  refinement of `RunRegistry`, which does not ask that a published run is also
  acknowledged), and
  `SoundRunIsReturned`: an undisturbed producer gets its sound run back.
- `OrphanBlocksRoot` states a weakness exactly: a directory that was left between
  `hashes.json` and `index.json` is never completed, removed or indexed, and from then
  on no assembly returns and no reader is served.
- `CrashKeepsLedgerReadable` and `ReadIsLegal`: a ledger file to which nothing is
  appended after a cut-off write can be read, and what is read is a legal path. They say
  nothing of a file that is written on.
  `AcknowledgedIsReadable` holds for callers that go on as well (`reuse`): what can be
  read has every acknowledged record in order, but for at most the last one, which may
  share a line with the cut-off write.

Properties of the training modules:

- `EngineOutputsAreValid`: the engine never builds what its validator would refuse,
  however long the chain.
- `LogsAreContinuous`: each event starts in the state in which the one before it
  ended. The code checks each transition alone.
- `ChainIsUninterrupted`: the progress of all executions of a chain, one after the
  other, is that of a run never stopped: no overlap and no gap. The tests resume
  once; here every sequence of stops is tried.
- `CompletedChainTrainsTheSelection`: a completed chain trained the corpus in order
  and, under an epoch budget, each family exactly as often as the selection policy
  says, in every epoch; although selection order and corpus order differ.
- `GroupsAreSpread`: a group of a family is ahead of another by two rows only if the
  other has no more to give.
- `UnverifiedIsNotReadable`, `WrittenOutcomeStands` (one outcome per identity, ADR-0024),
  `CandidatesAreCompleted` (a checkpoint candidate comes from a completed execution
  although it is loaded twice).
- `CheckpointsWereAuthorized`: whatever changed between preflight and publication, a
  readable checkpoint rests on a granted authorization and on the model content it
  was granted for.
- `CompletedHasItsCheckpoint`, `StepsAgree` (the engine's loops, the preflight's and
  the plan's formulas give one count), `OutcomesStand` (nothing published or recorded
  is replaced by a later attempt with the same id).

Properties of the datasets:

- `SplitsAreStable`: no two readable artifacts, of whatever version, have a group in
  different splits while the library grows.
- `EvaluationIsHeldOut`: no group with a held-out row in a registered evaluation
  corpus has a row in a training corpus, whichever exports the two came from.
- `GroupsStayTogether`: no readable dataset and no registered corpus has a group in
  two partitions, abstentions included. It is not said of an expanded corpus, since
  there it fails: see section 5.
- `ReadersGetWholeExports`: after cut-offs and damages a reader gets everything that
  the manifest's pin stands for, each row as its run projects, or nothing.
- `ExpansionIsFresh`: an approved expansion keeps its parent and adds training rows of
  groups that no accepted row of the parent belongs to.

Properties of the experiments: `PredictionsAreOfTheNamedModel` (although the base
model's directory may be replaced after it was verified), `OutcomeFollowsEvidence`
(the outcome agrees with the preregistered criteria and does not contradict the
comparison, which is computed apart), `FinalizedStands`.

Fairness. `FaultLifecycle` assumes weak fairness of the run's own steps and none
of the network: every command and every poll has a timeout, so the process always
gets to its next call, while BGP owes it nothing. `RunStore`'s `FairSpec` assumes that
a writer that can do its next file operation does it; a reader owes nothing. The
other modules state no liveness: an operator may stop at any point.

## 4. The proofs

Each proof module EXTENDS the module it is about and proves its properties for every
value of the constants that satisfies the named assumptions. TLC evaluates the
assumptions in every run, and checked every inductive invariant below on the instance
of the run it belongs to before it was proved.

**One incident run** (`FaultLifecycleProofs`), for every set of families, every
`Consecutive`, `MaxPolls` and `MaxFlaps`. None of the run's invariants is inductive. The
argument goes in layers, each of which is preserved by a step when the ones before it
hold:

1. `TypeOK`.
2. `ControlInv`: which phases the ledger may show at each call, and that an
   exception only passes through the calls of the two `finally` blocks. With the
   lemma `AppendsAreLegal` this gives `LedgerIsLegal`.
3. `VerdictInv`: a record exists only at the end of a run, and a run that raised
   nothing leaves the teardown without a lab.
4. `IssueInv`: the transcript says inject was issued exactly when the ledger has
   left `PRECHECKED`, and revert exactly from `RESTORING` on. At the teardown the
   ledger is in none of the injected phases (`ControlInv`), hence
   `InjectedIsReverted`.
5. `NetworkInv`: as long as nothing was raised, nothing but a `clear` is under way,
   and before `RESTORING` nothing at all. A timed-out command raises, and a run
   that raised is never accepted: this is why a late command cannot spoil an
   accepted record.
6. `OnsetInv`: during the onset calls the fault is in the configuration and nothing
   is under way, so the protocol cannot bring back what the fault suppresses.
7. `TranscriptInv`: at each call of a run that raised nothing the transcript is exactly
   the entries of the commands before that call. It gives `AcceptedTranscript`.
8. `HistoryInv`: what the last phase of the ledger says of the earlier ones. The
   contract counts faults and restorations over the whole run while the run looks at its
   last phase; this layer is what connects the two.

`RunKeepsContract` then proves the safety part of the refinement `KeepsContract`: a run
begins as `IncidentContract` does and each of its steps is one of the contract or a
stutter. The contract's fairness, and `Terminates`, are checked by TLC.

**The run store** (`RunStoreProofs`), for any runs, producers, readers and artifacts.
`StoreInv` says what a writer's directory holds at each of its steps (`DirectoriesInv`),
that two writers never have one run (`WritersApart`), that whatever the index, a writer
that has read it, or a result names is complete (`NamedAreComplete`), and for serial
producers that what a writer has read is still what the index says (`SerialInv`). That
conjunct is what fails when producers overlap, and why `ReturnedStaysIndexed` is said of
serial ones only. `OrphanBlocksRoot` follows since an orphan makes every verification of
the root fail and only its own writer could mend it. `StoreImplementsRegistry` proves the
refinement of `RunRegistry` whole, since that abstract specification states no fairness.

**The ledger file** (`LedgerFileProofs`), for any number of records and failures.
`AcknowledgedInv` says that *some* set of lines of the file holds the acknowledged records
in order: which lines these are is not a function of the state, since a cut-off write may
have left a whole line, a part of one, or nothing. Its step is the lemma that a line added
after these extends the set by one.

**The execution store** (`TrainingStoreProofs`), for any plan, policy and workers, under
`WritersExclusive`: no two workers write one id at the same time. The theorems have the
form `Spec /\ []WritersExclusive => []P`. The condition is not met by all instances of the
module: the vacancy test and the first file are two steps, so two processes can both find
a directory vacant. The code has no lock and the repository runs one executor;
`OneWorkerIsExclusive` proves that one worker satisfies the condition, so that what the
run checks follows without it.

**The datasets** (`DatasetPipelineProofs`), for any library, policy, campaign and number
of faults. The argument is about manifests: once a directory has one, it never changes,
whatever happens to the files beside it, and it says what the writer computed from a
library that verified (`StoreInv`, with one clause for each kind of directory). What a
reader accepts agrees with its manifest (`FilesVerify`), so a reader sees rows of verified
runs, each in the split that its group determines (`RowFollowsGroup`), whatever version
or pin it was exported with. `SplitsAreStable` and `EvaluationIsHeldOut` are consequences.
`ToolInv` carries this through the steps of an export, `CampaignInv` through those of a
campaign. Proving it showed that `Attempt` took rejected runs which the operational test
refuses (`tests/integration/test_gate20b_operational.py:233`); the action has the
condition now, and the run a rejected attempt that meets it.

**Experiments** (`ControlledExperimentProofs`), for any finite corpus, any models, answers
and specifications. `ExperimentInv` says that the stored evaluations pass their audit,
that predictions are faithful to the named model (inductive as it stands, given that a
content never answers differently), that a directory which the operator's process writes
has its marker, and that every manifest, written or about to be, is that of a
finalization of two stored evaluations. `OutcomeFollowsEvidence` is then a fact about
counting: the test examples are accepted ones, so that each run's accuracy counts the
same records as the pairing does; their difference is the wins less the losses; a win is
a difference of the predictions, so that the comparison over all held-out examples has
seen it. The assumptions are the code's: an example is an accepted fault just when it is
in a split (`datasets/features.py:200`), a failing backend says why with one of its own
codes (`evaluation/basemodel.py:455`), and a specification's minimum is a count.

**The training engine** (`TrainingEngineProofs`), for every set of plans that `TrainingPlan`
accepts (`PlansAssumption`) and every set of policies that `ExecutionPolicy` accepts:
`EngineTypeCorrect`, `OutputsAreValid`, `LogsArePaths`, `ChainsAreUninterrupted`,
`CompletedChainsTrainInOrder` and `ChainIsBounded`; `SelectedRunsTheEngine` carries them to
the specification of the run.
The inductive invariant, `ChainInv`, adds to "every header is valid" that every execution
got past its resume offset and that each begins where the one before it stopped. Validity
alone is not inductive: a header that failed at step 0 is valid to the validator
(`execution.py:377`), but no resumption of it would be. It is the engine's strict bound on
stops (`engine.py:51`) that makes it so. The rest is about the replay, for plans of any
length:

1. `CursorSplits`: after *e* whole epochs and *r* windows the loops stand at epoch *e*,
   batch *r* times the accumulation count; every step is reached by exactly one such pair.
   A plan whose epochs and steps agree therefore never runs out of epochs (`Unexhausted`).
2. `StepIsPath`: the frames of one step lead from the step before it to it.
3. `TakenIsPath` and `TakenJoins`, by induction over the steps: the frames between two
   steps are a path, and those from *a* to *c* are those from *a* to *b* and from *b* to *c*.
4. `LogIsPath` joins opening, progress and closing; `ChainsJoin`, by induction over the
   executions, joins the progress of a chain.
5. `StepsTrain`, by induction over the steps: the batch frames of the first *n* steps number
   the batches through the epochs without a gap, as far as the cursor stands, and those of
   one step are next to each other (`InOrder`); the epoch frames are as many as the
   cursor's epoch. With `ChainsJoin` this is what a completed chain has trained.

The library's induction theorem takes an operator and cannot be used. `Induction` states
the principle for a set of numbers instead, and follows from the well-foundedness of strict
inclusion between finite sets. `FlattenSeqRecursive` is what the proofs use of
`FlattenSeq`, whose recursive function is chosen by its equation.

**Selection** (in the same module), for every prepared corpus, policy and batch size:
`SelectionSpreadsGroups` and `SelectionIsTrained`. `SelectionInv` says what no step changes:
the selection is the one its policy makes of the prepared corpus, each quota is no larger
than its family, and the plan counts the corpus in batches. What the theorems rest on:

1. `SortedProperties`: `sorted()` has each element once, in the order of the keys. The model
   sorts by ranks, since `SortSeq` has no definition that the provers expand; `RanksAreTaken`
   is a pigeonhole argument, that an injection between sets of one size misses nothing.
2. `PickedProperties`: of a family as many are picked as the quota says, and none before
   which one is left out; `SelectedOfFamily`: the interleave of the families adds and loses
   nothing.
3. `TurnsSpread`: the first run of a group that is left out has as many runs of its group
   before it as were taken; no run of another group with a later turn can have been
   picked, and a group has one run for each turn.
4. `EpochTrains`: a position of the corpus lies in exactly one of the batches that the plan
   counts, and an epoch trains each of these once. So the pairs of a trained batch and an
   example in it are, for each family and epoch, as many as the quota (`QuotaIsTrained`).

The assumptions are what the schemas say: a group's place and an example's id are numbers in
their order, quotas are counts (`SourcesAssumption`, `SelectionPoliciesAssumption`), and a
batch has at least one example (`BatchesAssumption`).

**Real training** (`RealTrainingProofs`), for every set of plans, machines, models, policies
and limits and every bound: `CheckpointsAreAuthorized`, `CompletedHaveCheckpoints`,
`OutcomesAreFinal` and `LoopsAndPlansAgree`. Their inductive invariant, `TInv`, has five parts: a granted
authorization was granted on a machine that passes (`GrantsAreSound`); the job in hand is
bound to such a grant, with the plan and the model content it was granted for
(`JobIsGrounded`); a directory that the job writes was vacant when it began and has its
marker since (`JobWritesItsOwn`); every checkpoint directory, readable or not, names an
execution bound to a grant (`CheckpointsAreGrounded`); a record with a manifest, and the
one the job is about to write, name a published checkpoint of their own
(`RecordsAreHonest`). The properties speak of what readers accept at the end; the second
and third part are what a step needs, since the machine and the model may have changed
since the grant and nothing else keeps an attempt from writing into what an earlier one,
with the same id, has published. `LoopsAndPlansAgree` adds arithmetic: counting the
multiples of the batch size (`MultiplesBelow`) and the closed windows (`WindowsClosed`)
with a bijection gives the rounded-up quotients of the plan. It assumes what the schemas
ask: batch size, window and slice are at least 1 (`PlansAssumption`, `LimitsAssumption`).

Only model-checked:

- Liveness, which is out of the prover's reach: `Terminates`, `SoundRunIsReturned`, and
  the fairness of `IncidentContract` in `KeepsContract`.
- The counterexamples of section 5.

## 5. Where code and documents differ

- *Recovery without routes* (`recovery_routes`). ADR-0009 says recovery requires the
  session and the routes in both directions. `verify_recovery` polls the session and
  the configuration only, evaluates the routes once on the last sample, and appends
  `RECOVERY_VERIFIED` whatever they say. The composition root rejects the run
  afterwards because a verdict is not committable, so no false record results, but
  a run that would have recovered a moment later is lost.
- *Resume binding* (`resume_binding`). `training/engine.py` says that the binding of a
  resumed execution to the one it resumes is validated at parse time. The validator
  sees one execution: it checks that the two fields are there together and that the
  offset lies inside the plan. Since an id does not depend on the outcome, two runs of
  the same plan and retry number have one id; if one completed and was stored, and
  the other failed and was resumed, the stored resumption names a stored execution
  that completed. No caller in the repository does so today.

- *Publication before completion* (`checkpoint_publication`). ADR-0027 says that a
  checkpoint is published only with a verified completed execution. `execute()` writes
  the checkpoint first (`hfexecutor.py:393`) and assembles and records the execution
  after it (406-416). A process that dies between them, a record that its validator
  refuses, or a first attempt recorded as failed under the same id leaves a checkpoint
  that readers accept without such an execution. What does hold is
  `CheckpointsWereAuthorized` and, in the other direction, `CompletedHasItsCheckpoint`.
- *Infrastructure failures count as answers* (`infrastructure_failure`). The
  preregistered criteria say that a failure of the infrastructure makes an experiment
  fail and is never the model's quality. Both model predictors turn it into an invalid
  prediction, which is scored as incorrect and counted against the model; one timeout
  makes an experiment `regressed`.

Met on the way, without a document that says otherwise: a crash between the marker and
the specification loses an experiment id (`experiment/store.py:445`); an expanded corpus
can hold a group both as training rows and as an abstention, since only accepted rows
freeze a group (`experiment/remoteas_expansion.py`) and `build_prepared` compares ids,
not groups; one accepted and one rejected run of the same identity stop every further
export of the library (`datasets/splitting.py:113`); a selection policy with a quota of
0 is valid and can never select (`training/selection.py:60`); a ledger file that is
appended to after a torn line becomes unreadable with the line after it
(`faults/ledger.py:108`).

## 6. Plan

Done: the incident run and its contract, the run store, the ledger file, training
executions and their store, datasets up to corpora, selection, real training, evaluation
and the controlled experiment; proofs of all the safety and action properties that passing
runs check. Next, in this order:

1. `MutationExecutor`: policy denials and a `FileTranscript` that can fail.
2. Two processes on one root for the stores after the run index.

## 7. Not modelled

- `evaluation/identitycoverage.py`, `evaluation/corpusexpansion.py`: reports computed
  once from a static catalog and written out; nothing reads them again.
- `orchestrator/catalog.py`, `expansion.py`: static tables and their validation.
- Collectors, rendering, templates: text in, facts out; no state.
- Model inference, tensor arithmetic, tokenization: external; a model's answer and a loss
  are values that the environment chooses.
- `training/checkpointstore.py` and `evaluation/store.py` file by file: they repeat the
  protocol of `ArtifactDirectory`.
- Power loss (the order in which directory entries reach the disk), two processes that
  write into one directory after both found it vacant, a model directory that is replaced
  between the hash and the load inside one call (`hfexecutor.py:297`, `hfinference.py:98`).
- Logging, clocks, sequence numbers, and the schemas' field-level validation.
