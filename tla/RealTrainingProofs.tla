--------------------------- MODULE RealTrainingProofs ---------------------------
(***************************************************************************)
(* What a readable checkpoint and a readable execution say is true, and    *)
(* stays, for every plan, machine, model directory, policy and number of   *)
(* attempts.                                                               *)
(***************************************************************************)
EXTENDS RealTraining, FiniteSetTheorems, SequenceTheorems, TLAPS

(***************************************************************************)
(* The inductive invariant                                                 *)
(***************************************************************************)
\* What CheckpointsWereAuthorized asks of the execution a checkpoint names.
Grounded(run) ==
  /\ run.authorization.authorized
  /\ run.authorization.plan = run.plan
  /\ run.authorization.model = run.model
  /\ Available(run.authorization.snapshot)

\* What CompletedHasItsCheckpoint asks of the facts of an execution.
Honest(published, facts, id) ==
  facts.final = "completed" =>
    /\ facts.checkpoint \in published
    /\ facts.checkpoint.execution = id
    /\ facts.steps = id.plan.epochs * StepsPerEpoch(Len(id.slice.ids), id.plan.spec)

\* A directory that a run writes was vacant when the run came to it, and has had
\* its marker since the first write.
InProgress(d, pos) == IF pos = 1 THEN Vacant(d) ELSE Marker \in Entries(d)

GrantsAreSound == \A a \in authorizations : a.authorized => Available(a.snapshot)

JobIsGrounded ==
  /\ "step" \in DOMAIN job
  /\ job.step \in {"idle", "admitted", "publish", "record"}
  /\ job.step # "idle" => "id" \in DOMAIN job /\ Grounded(job.id)
  /\ job.step \in {"admitted", "publish"} =>
       /\ "expected" \in DOMAIN job
       /\ job.expected = job.id.plan.epochs
                           * StepsPerEpoch(Len(job.id.slice.ids), job.id.plan.spec)
  /\ job.step = "publish" => "lineage" \in DOMAIN job /\ job.lineage.execution = job.id

JobWritesItsOwn ==
  /\ job.step \in {"publish", "record"} => "pos" \in DOMAIN job /\ job.pos \in Nat \ {0}
  /\ job.step = "publish" => InProgress(At(checkpoints, job.lineage), job.pos)
  /\ job.step = "record" => InProgress(At(executions, job.id), job.pos)

CheckpointsAreGrounded == \A id \in DOMAIN checkpoints : Grounded(id.execution)

RecordsAreHonest ==
  /\ \A id \in DOMAIN executions :
       Manifest \in Entries(executions[id]) => Honest(Published, Recorded(id), id)
  /\ job.step = "record" =>
       /\ "artifact" \in DOMAIN job /\ Manifest \in DOMAIN job.artifact
       /\ Honest(Published, job.artifact[Manifest].facts, job.id)

TInv ==
  /\ GrantsAreSound /\ JobIsGrounded /\ JobWritesItsOwn
  /\ CheckpointsAreGrounded /\ RecordsAreHonest

(***************************************************************************)
(* Lemmas                                                                  *)
(***************************************************************************)
\* An authorization that is granted was granted on a machine whose packages were
\* all compatible (preflight.py).
LEMMA GrantedOnAvailable ==
  ASSUME NEW plan, NEW corpus, NEW machine, NEW model, NEW tokenizer, NEW allowed,
         Preflight(plan, corpus, machine, model, tokenizer, allowed).authorized
  PROVE  Available(Preflight(plan, corpus, machine, model, tokenizer, allowed).snapshot)
  BY DEF Preflight, PackageErrors

\* The two layouts start with the marker, and have files after it.
LEMMA MarkerComesFirst ==
  /\ WriteOrder(CheckpointLayout)[1] = Marker /\ Len(WriteOrder(CheckpointLayout)) = 6
  /\ WriteOrder(ExecutionLayout)[1] = Marker /\ Len(WriteOrder(ExecutionLayout)) = 5
  BY DEF WriteOrder, CheckpointLayout, ExecutionLayout, Marker, Manifest

\* The directory under an id after a store has changed it, and the others.
LEMMA SetAtProperties ==
  ASSUME NEW dirs, NEW id, NEW d
  PROVE  /\ DOMAIN SetAt(dirs, id, d) = DOMAIN dirs \cup {id}
         /\ SetAt(dirs, id, d)[id] = d
         /\ At(SetAt(dirs, id, d), id) = d
         /\ \A i \in DOMAIN dirs \ {id} : SetAt(dirs, id, d)[i] = dirs[i]
  BY DEF SetAt, At

\* One write keeps what the job says of its directory.
LEMMA InstallKeepsInProgress ==
  ASSUME NEW d, NEW pos \in Nat \ {0}, NEW name, NEW artifact,
         InProgress(d, pos), pos = 1 => name = Marker
  PROVE  InProgress(Install(d, name, artifact), pos + 1)
  BY DEF InProgress, Install, Put, Entries

\* A directory that is being written is not read.
LEMMA InProgressIsUnreadable ==
  ASSUME NEW d, NEW pos, InProgress(d, pos)
  PROVE  ~(Unmarked(d) /\ Manifest \in Entries(d))
  BY DEF InProgress, Unmarked, Vacant

\* Removing the marker leaves the files, and what was verified of them.
LEMMA DropKeepsFiles ==
  ASSUME NEW d, NEW layout, FilesVerify(d, layout), Marker \notin Files(layout)
  PROVE  /\ Unmarked(Drop(d, Marker)) /\ Manifest \in Entries(Drop(d, Marker))
         /\ FilesVerify(Drop(d, Marker), layout)
         /\ Drop(d, Marker)[Manifest] = d[Manifest]
  <1>1. Manifest # Marker
    BY DEF Manifest, Marker
  <1>2. DOMAIN Drop(d, Marker) = DOMAIN d \ {Marker}
    BY DEF Drop, Entries
  <1>3. \A n \in DOMAIN d \ {Marker} : Drop(d, Marker)[n] = d[n]
    BY DEF Drop, Entries
  <1>4. Manifest \in DOMAIN d
    BY DEF FilesVerify, Entries
  <1>5. Files(layout) \subseteq DOMAIN d
    BY DEF FilesVerify, Entries
  <1> QED BY <1>1, <1>2, <1>3, <1>4, <1>5 DEF FilesVerify, Entries, Unmarked

\* The invariant holds of empty stores.
LEMMA TInvHoldsFirst == TInit => TInv
  BY DEF TInit, TInv, NoJob, GrantsAreSound, JobIsGrounded, JobWritesItsOwn,
         CheckpointsAreGrounded, RecordsAreHonest

\* A step changes no directory that can be read (realckptstore.py, realexecstore.py).
LEMMA ReadableStands ==
  ASSUME TInv, [TNext]_tvars
  PROVE  /\ \A id \in Published : id \in DOMAIN checkpoints' /\ checkpoints'[id] = checkpoints[id]
         /\ \A id \in Records : id \in DOMAIN executions' /\ executions'[id] = executions[id]
  <1>1. ASSUME NEW id \in Published
        PROVE  /\ id \in DOMAIN checkpoints /\ At(checkpoints, id) = checkpoints[id]
               /\ Unmarked(At(checkpoints, id)) /\ Manifest \in Entries(At(checkpoints, id))
    BY DEF Published, CheckpointReadable, At
  <1>2. ASSUME NEW id \in Records
        PROVE  /\ id \in DOMAIN executions /\ At(executions, id) = executions[id]
               /\ Unmarked(At(executions, id)) /\ Manifest \in Entries(At(executions, id))
    BY DEF Records, ExecutionReadable, At
  <1>3. CASE job.step = "publish" /\ (WriteCheckpointEntry \/ PublishCheckpoint)
    <2>1. job.lineage \notin Published
      BY <1>3, <1>1, InProgressIsUnreadable DEF TInv, JobWritesItsOwn
    <2>2. PICK d : checkpoints' = SetAt(checkpoints, job.lineage, d)
      BY <1>3 DEF WriteCheckpointEntry, PublishCheckpoint
    <2>3. executions' = executions
      BY <1>3 DEF WriteCheckpointEntry, PublishCheckpoint
    <2>4. ASSUME NEW id \in Published
          PROVE  id \in DOMAIN checkpoints' /\ checkpoints'[id] = checkpoints[id]
      <3>1. id \in DOMAIN checkpoints \ {job.lineage}
        BY <1>1, <2>1
      <3> QED BY <3>1, <2>2 DEF SetAt
    <2> QED BY <1>2, <2>3, <2>4
  <1>4. CASE job.step = "record" /\ (WriteExecutionEntry \/ RecordExecution)
    <2>1. job.id \notin Records
      BY <1>4, <1>2, InProgressIsUnreadable DEF TInv, JobWritesItsOwn
    <2>2. PICK d : executions' = SetAt(executions, job.id, d)
      BY <1>4 DEF WriteExecutionEntry, RecordExecution
    <2>3. checkpoints' = checkpoints
      BY <1>4 DEF WriteExecutionEntry, RecordExecution
    <2>4. ASSUME NEW id \in Records
          PROVE  id \in DOMAIN executions' /\ executions'[id] = executions[id]
      <3>1. id \in DOMAIN executions \ {job.id}
        BY <1>2, <2>1
      <3> QED BY <3>1, <2>2 DEF SetAt
    <2> QED BY <1>1, <2>3, <2>4
  <1>5. CASE checkpoints' = checkpoints /\ executions' = executions
    BY <1>1, <1>2, <1>5
  <1>6. \/ job.step = "publish" /\ (WriteCheckpointEntry \/ PublishCheckpoint)
        \/ job.step = "record" /\ (WriteExecutionEntry \/ RecordExecution)
        \/ checkpoints' = checkpoints /\ executions' = executions
    <2>1. ASSUME NEW p, NEW c, RunPreflight(p, c)
          PROVE  checkpoints' = checkpoints /\ executions' = executions
      BY <2>1 DEF RunPreflight, stores
    <2>2. ASSUME NEW p, NEW c, NEW a, NEW l, NEW m, NEW b, Admit(p, c, a, l, m, b)
          PROVE  checkpoints' = checkpoints /\ executions' = executions
      BY <2>2 DEF Admit, stores
    <2>3. ASSUME NEW l, EngineCompletes(l)
          PROVE  checkpoints' = checkpoints /\ executions' = executions
      BY <2>3 DEF EngineCompletes, stores
    <2>4. ASSUME NEW k, NEW how, EngineFails(k, how)
          PROVE  checkpoints' = checkpoints /\ executions' = executions
      BY <2>4 DEF EngineFails, stores
    <2>5. CASE \/ WriteCheckpointEntry \/ PublishCheckpoint
               \/ WriteExecutionEntry \/ RecordExecution
      BY <2>5 DEF WriteCheckpointEntry, PublishCheckpoint, WriteExecutionEntry, RecordExecution
    <2>6. CASE CutOffTraining
      BY <2>6 DEF CutOffTraining, stores
    <2>7. ASSUME NEW s, NEW m, ChangeWorld(s, m)
          PROVE  checkpoints' = checkpoints /\ executions' = executions
      BY <2>7 DEF ChangeWorld, stores
    <2>8. CASE UNCHANGED tvars
      BY <2>8 DEF tvars
    <2> QED BY <2>1, <2>2, <2>3, <2>4, <2>5, <2>6, <2>7, <2>8 DEF TNext
  <1> QED BY <1>3, <1>4, <1>5, <1>6

\* What can be read stays readable.
LEMMA PublishedGrows ==
  ASSUME TInv, [TNext]_tvars
  PROVE  Published \subseteq Published'
  BY ReadableStands DEF Published, CheckpointReadable, At

\* Honest facts stay honest.
LEMMA HonestStays ==
  ASSUME TInv, [TNext]_tvars, NEW facts, NEW id, Honest(Published, facts, id)
  PROVE  Honest(Published', facts, id)
  BY PublishedGrows DEF Honest

\* A publication makes its checkpoint readable.
LEMMA PublicationIsReadable ==
  ASSUME TInv, PublishCheckpoint
  PROVE  job.lineage \in Published'
  <1> DEFINE d == checkpoints[job.lineage]
  <1>1. /\ FilesVerify(d, CheckpointLayout) /\ d[Manifest].facts.lineage = job.lineage
        /\ job.lineage.steps >= 1
    BY DEF PublishCheckpoint, CheckpointVerifies
  <1>2. Marker \notin Files(CheckpointLayout)
    BY DEF Marker, Manifest, Files, CheckpointLayout
  <1>3. At(checkpoints', job.lineage) = Drop(d, Marker) /\ job.lineage \in DOMAIN checkpoints'
    BY DEF PublishCheckpoint, SetAt, At
  <1> HIDE DEF d
  <1>4. /\ Unmarked(Drop(d, Marker)) /\ Manifest \in Entries(Drop(d, Marker))
        /\ CheckpointVerifies(Drop(d, Marker), job.lineage)
    BY <1>1, <1>2, DropKeepsFiles DEF CheckpointVerifies
  <1> QED BY <1>3, <1>4 DEF Published, CheckpointReadable

(***************************************************************************)
(* The steps                                                               *)
(***************************************************************************)
\* What is recorded stays honest when no execution is written ...
LEMMA RecordedIsKept ==
  ASSUME TInv, [TNext]_tvars, executions' = executions,
         NEW id \in DOMAIN executions', Manifest \in Entries(executions'[id])
  PROVE  Honest(Published', Recorded(id)', id)
  <1>1. Honest(Published, Recorded(id), id)
    BY DEF TInv, RecordsAreHonest
  <1>2. Recorded(id)' = Recorded(id)
    BY DEF Recorded
  <1> QED BY <1>1, <1>2, HonestStays

\* ... and all records are when none is begun either.
LEMMA RecordsAreKept ==
  ASSUME TInv, [TNext]_tvars, executions' = executions, job'.step # "record"
  PROVE  RecordsAreHonest'
  BY RecordedIsKept DEF RecordsAreHonest

LEMMA PreflightKeepsTInv ==
  ASSUME TInv, TNext, NEW plan, NEW corpus, RunPreflight(plan, corpus)
  PROVE  TInv'
  <1>1. /\ job.step = "idle" /\ job' = job
        /\ checkpoints' = checkpoints /\ executions' = executions
    BY DEF RunPreflight, stores
  <1>2. GrantsAreSound'
    BY GrantedOnAvailable DEF RunPreflight, TInv, GrantsAreSound
  <1>3. RecordsAreHonest'
    BY <1>1, RecordsAreKept
  <1> QED BY <1>1, <1>2, <1>3
          DEF TInv, JobIsGrounded, JobWritesItsOwn, CheckpointsAreGrounded

LEMMA AdmitKeepsTInv ==
  ASSUME TInv, TNext, NEW plan, NEW corpus, NEW a \in authorizations, NEW limits,
         NEW modelPolicy, NEW bound, Admit(plan, corpus, a, limits, modelPolicy, bound)
  PROVE  TInv'
  <1> DEFINE artifact == Resolve(plan, ModelDir)
             slice == SelectSlice(corpus, limits.slice)
             policy == [authorization |-> a, limits |-> limits,
                        determinism |-> Allowed, modelPolicy |-> bound.name]
             expected == plan.epochs * StepsPerEpoch(Len(slice.ids), plan.spec)
  <1>1. /\ Revalidates(a, plan, artifact, Resolve(plan, Tokenizer), modelPolicy, policy)
        /\ job' = [step |-> "admitted", expected |-> expected,
                   id |-> ExecutionId(plan, a, artifact, slice, modelPolicy.name, policy)]
        /\ authorizations' = authorizations
        /\ checkpoints' = checkpoints /\ executions' = executions
    BY DEF Admit, world_, stores
  <1> HIDE DEF artifact, slice, policy
  <1>2. a.authorized /\ a.plan = plan /\ a.model = artifact
    BY <1>1 DEF Revalidates
  <1>3. Available(a.snapshot)
    BY <1>2 DEF TInv, GrantsAreSound
  <1>4. JobIsGrounded'
    BY <1>1, <1>2, <1>3 DEF JobIsGrounded, Grounded, ExecutionId
  <1>5. RecordsAreHonest'
    BY <1>1, RecordsAreKept
  <1> QED BY <1>1, <1>4, <1>5
          DEF TInv, GrantsAreSound, JobWritesItsOwn, CheckpointsAreGrounded

LEMMA EngineKeepsTInv ==
  ASSUME TInv, TNext, NEW losses, EngineCompletes(losses)
  PROVE  TInv'
  <1> DEFINE steps == OptimizerSteps(Len(job.id.slice.ids), job.id.plan.spec)
             lineage == Candidate(job.id, steps, losses)
             artifact == Payload(lineage, ModelDir)
  <1>1. /\ job.step = "admitted"
        /\ \/ /\ Vacant(At(checkpoints, lineage))
              /\ job' = [step |-> "publish", id |-> job.id, expected |-> job.expected,
                         pos |-> 1, lineage |-> lineage, artifact |-> artifact]
           \/ job' = NoJob
        /\ authorizations' = authorizations
        /\ checkpoints' = checkpoints /\ executions' = executions
    BY DEF EngineCompletes, Startable, world_, stores
  <1>2. lineage.execution = job.id
    BY DEF Candidate
  <1> HIDE DEF lineage, artifact
  <1>3. JobIsGrounded'
    BY <1>1, <1>2 DEF TInv, JobIsGrounded, NoJob
  <1>4. JobWritesItsOwn'
    BY <1>1 DEF JobWritesItsOwn, InProgress, NoJob
  <1>5. RecordsAreHonest'
    BY <1>1, RecordsAreKept DEF NoJob
  <1> QED BY <1>1, <1>3, <1>4, <1>5 DEF TInv, GrantsAreSound, CheckpointsAreGrounded

\* A failed execution says that it failed.
LEMMA FailureKeepsTInv ==
  ASSUME TInv, TNext, NEW steps, NEW how, EngineFails(steps, how)
  PROVE  TInv'
  <1>1. /\ job.step = "admitted"
        /\ \/ Vacant(At(executions, job.id)) /\ job' = Failed(job.id, steps)
           \/ job' = NoJob
        /\ authorizations' = authorizations
        /\ checkpoints' = checkpoints /\ executions' = executions
    BY DEF EngineFails, Startable, world_, stores
  <1>2. CASE job' = NoJob
    <2>1. RecordsAreHonest'
      BY <1>1, <1>2, RecordsAreKept DEF NoJob
    <2> QED BY <1>1, <1>2, <2>1 DEF TInv, NoJob, GrantsAreSound, JobIsGrounded,
                                    JobWritesItsOwn, CheckpointsAreGrounded
  <1>3. CASE Vacant(At(executions, job.id)) /\ job' = Failed(job.id, steps)
    <2>1. /\ DOMAIN job' = {"step", "artifact", "id", "pos"}
          /\ job'.step = "record" /\ job'.id = job.id /\ job'.pos = 1
          /\ Manifest \in DOMAIN job'.artifact
          /\ job'.artifact[Manifest].facts.final = "failed"
      BY <1>3 DEF Failed, WithManifest, Put, Entries
    <2>2. JobIsGrounded' /\ JobWritesItsOwn'
      BY <1>1, <1>3, <2>1 DEF TInv, JobIsGrounded, JobWritesItsOwn, InProgress
    <2>3. \A id \in DOMAIN executions' :
            Manifest \in Entries(executions'[id]) => Honest(Published', Recorded(id)', id)
      BY <1>1, RecordedIsKept
    <2>4. Honest(Published', job'.artifact[Manifest].facts, job'.id)
      BY <2>1 DEF Honest
    <2>5. RecordsAreHonest'
      BY <2>1, <2>3, <2>4 DEF RecordsAreHonest
    <2> QED BY <1>1, <2>2, <2>5 DEF TInv, GrantsAreSound, CheckpointsAreGrounded
  <1> QED BY <1>1, <1>2, <1>3

LEMMA WriteCheckpointKeepsTInv ==
  ASSUME TInv, TNext, WriteCheckpointEntry
  PROVE  TInv'
  <1> DEFINE name == WriteOrder(CheckpointLayout)[job.pos]
             d == Install(At(checkpoints, job.lineage), name, job.artifact)
  <1>1. /\ job.step = "publish" /\ job' = [job EXCEPT !.pos = @ + 1]
        /\ checkpoints' = SetAt(checkpoints, job.lineage, d)
        /\ authorizations' = authorizations /\ executions' = executions
    BY DEF WriteCheckpointEntry, world_
  <1>2. /\ {"step", "id", "expected", "pos", "lineage"} \subseteq DOMAIN job
        /\ job.pos \in Nat \ {0} /\ InProgress(At(checkpoints, job.lineage), job.pos)
        /\ Grounded(job.id) /\ job.lineage.execution = job.id
    BY <1>1 DEF TInv, JobIsGrounded, JobWritesItsOwn
  <1>3. InProgress(d, job.pos + 1)
    BY <1>2, MarkerComesFirst, InstallKeepsInProgress
  <1> HIDE DEF d
  <1>4. At(checkpoints', job.lineage) = d /\ DOMAIN checkpoints' = DOMAIN checkpoints \cup {job.lineage}
    BY <1>1 DEF SetAt, At
  <1>5. /\ job'.step = "publish" /\ job'.id = job.id /\ job'.expected = job.expected
        /\ job'.lineage = job.lineage /\ job'.pos = job.pos + 1
        /\ DOMAIN job' = DOMAIN job
    BY <1>1, <1>2
  <1>6. JobIsGrounded' /\ JobWritesItsOwn'
    <2>1. JobIsGrounded'
      BY <1>1, <1>2, <1>5 DEF TInv, JobIsGrounded
    <2>2. At(checkpoints', job'.lineage) = d
      BY <1>4, <1>5
    <2>3. JobWritesItsOwn'
      BY <1>2, <1>3, <1>5, <2>2 DEF JobWritesItsOwn
    <2> QED BY <2>1, <2>3
  <1>7. CheckpointsAreGrounded'
    BY <1>2, <1>4 DEF TInv, CheckpointsAreGrounded
  <1>8. RecordsAreHonest'
    BY <1>1, <1>5, RecordsAreKept
  <1> QED BY <1>1, <1>6, <1>7, <1>8 DEF TInv, GrantsAreSound

\* The run of a readable checkpoint took the steps that were expected of it: it is
\* recorded as completed only if the validator agrees (realexec.py).
LEMMA PublishKeepsTInv ==
  ASSUME TInv, TNext, PublishCheckpoint
  PROVE  TInv'
  <1>1. /\ job.step = "publish"
        /\ checkpoints' = SetAt(checkpoints, job.lineage, Drop(checkpoints[job.lineage], Marker))
        /\ \/ /\ Assembles(job.id, job.lineage.steps, job.expected)
              /\ Vacant(At(executions, job.id))
              /\ job' = Completed(job.id, job.lineage)
           \/ job' = NoJob
        /\ authorizations' = authorizations /\ executions' = executions
    BY DEF PublishCheckpoint, Startable, world_
  <1>2. /\ Grounded(job.id) /\ job.lineage.execution = job.id
        /\ job.expected = job.id.plan.epochs
                            * StepsPerEpoch(Len(job.id.slice.ids), job.id.plan.spec)
    BY <1>1 DEF TInv, JobIsGrounded
  <1>3. CheckpointsAreGrounded'
    BY <1>1, <1>2 DEF SetAt, TInv, CheckpointsAreGrounded
  <1>4. job.lineage \in Published'
    BY PublicationIsReadable
  <1>5. CASE job' = NoJob
    <2>1. RecordsAreHonest'
      BY <1>1, <1>5, RecordsAreKept DEF NoJob
    <2> QED BY <1>1, <1>3, <1>5, <2>1
            DEF TInv, NoJob, GrantsAreSound, JobIsGrounded, JobWritesItsOwn
  <1>6. CASE /\ Assembles(job.id, job.lineage.steps, job.expected)
             /\ Vacant(At(executions, job.id))
             /\ job' = Completed(job.id, job.lineage)
    <2>1. /\ DOMAIN job' = {"step", "artifact", "id", "pos"}
          /\ job'.step = "record" /\ job'.id = job.id /\ job'.pos = 1
          /\ Manifest \in DOMAIN job'.artifact
          /\ job'.artifact[Manifest].facts =
               [id |-> job.id, final |-> "completed", checkpoint |-> job.lineage,
                steps |-> job.lineage.steps]
      BY <1>6 DEF Completed, WithManifest, Put, Entries
    <2>2. JobIsGrounded'
      BY <1>2, <2>1 DEF JobIsGrounded
    <2>3. JobWritesItsOwn'
      BY <1>1, <1>6, <2>1 DEF JobWritesItsOwn, InProgress
    <2>4. job.lineage.steps = job.expected
      BY <1>6 DEF Assembles
    <2>5. Honest(Published', job'.artifact[Manifest].facts, job'.id)
      BY <1>2, <1>4, <2>1, <2>4 DEF Honest
    <2>6. RecordsAreHonest'
      BY <1>1, <2>1, <2>5, HonestStays DEF TInv, RecordsAreHonest, Recorded
    <2> QED BY <1>1, <1>3, <2>2, <2>3, <2>6 DEF TInv, GrantsAreSound
  <1> QED BY <1>1, <1>5, <1>6

LEMMA WriteExecutionKeepsTInv ==
  ASSUME TInv, TNext, WriteExecutionEntry
  PROVE  TInv'
  <1> DEFINE name == WriteOrder(ExecutionLayout)[job.pos]
             d == Install(At(executions, job.id), name, job.artifact)
  <1>1. /\ job.step = "record" /\ job' = [job EXCEPT !.pos = @ + 1]
        /\ executions' = SetAt(executions, job.id, d)
        /\ authorizations' = authorizations /\ checkpoints' = checkpoints
    BY DEF WriteExecutionEntry, world_
  <1>2. /\ {"step", "id", "pos", "artifact"} \subseteq DOMAIN job
        /\ job.pos \in Nat \ {0} /\ InProgress(At(executions, job.id), job.pos)
        /\ Grounded(job.id) /\ Manifest \in DOMAIN job.artifact
        /\ Honest(Published, job.artifact[Manifest].facts, job.id)
    BY <1>1 DEF TInv, JobIsGrounded, JobWritesItsOwn, RecordsAreHonest
  <1>3. InProgress(d, job.pos + 1)
    BY <1>2, MarkerComesFirst, InstallKeepsInProgress
  <1>4. Manifest \in Entries(d) =>
          \/ d[Manifest] = job.artifact[Manifest]
          \/ Manifest \in Entries(At(executions, job.id))
             /\ d[Manifest] = At(executions, job.id)[Manifest]
    BY <1>2 DEF Install, Put, Entries
  <1> HIDE DEF d
  <1>5. /\ DOMAIN executions' = DOMAIN executions \cup {job.id} /\ executions'[job.id] = d
        /\ At(executions', job.id) = d
        /\ \A id \in DOMAIN executions \ {job.id} : executions'[id] = executions[id]
    BY <1>1 DEF SetAt, At
  <1>6. /\ job'.step = "record" /\ job'.id = job.id /\ job'.artifact = job.artifact
        /\ job'.pos = job.pos + 1 /\ DOMAIN job' = DOMAIN job
    BY <1>1, <1>2
  <1>7. JobIsGrounded'
    BY <1>1, <1>2, <1>6 DEF TInv, JobIsGrounded
  <1>8. At(executions', job'.id) = d
    BY <1>5, <1>6
  <1>9. JobWritesItsOwn'
    BY <1>2, <1>3, <1>6, <1>8 DEF JobWritesItsOwn
  <1>10. Honest(Published', job.artifact[Manifest].facts, job.id)
    BY <1>2, <1>6, HonestStays
  <1>11. ASSUME NEW id \in DOMAIN executions', Manifest \in Entries(executions'[id])
         PROVE  Honest(Published', executions'[id][Manifest].facts, id)
    <2>1. CASE id # job.id
      <3>1. /\ id \in DOMAIN executions /\ executions'[id] = executions[id]
        BY <1>5, <1>11, <2>1
      <3>2. Honest(Published, executions[id][Manifest].facts, id)
        BY <1>11, <3>1 DEF TInv, RecordsAreHonest, Recorded
      <3> QED BY <3>1, <3>2, HonestStays
    <2>2. CASE id = job.id /\ d[Manifest] = job.artifact[Manifest]
      <3>1. executions'[id][Manifest] = job.artifact[Manifest]
        BY <1>5, <2>2
      <3>2. Honest(Published, job.artifact[Manifest].facts, id)
        BY <1>2, <2>2
      <3> QED BY <3>1, <3>2, HonestStays
    <2>3. CASE /\ id = job.id /\ Manifest \in Entries(At(executions, job.id))
               /\ d[Manifest] = At(executions, job.id)[Manifest]
      <3>1. job.id \in DOMAIN executions /\ At(executions, job.id) = executions[job.id]
        BY <2>3 DEF At, NoDirectory, Entries
      <3>2. Honest(Published, executions[id][Manifest].facts, id)
        BY <2>3, <3>1 DEF TInv, RecordsAreHonest, Recorded
      <3>3. executions'[id][Manifest] = executions[id][Manifest]
        BY <1>5, <2>3, <3>1
      <3> QED BY <3>2, <3>3, HonestStays
    <2> QED BY <1>4, <1>5, <1>11, <2>1, <2>2, <2>3
  <1>12. RecordsAreHonest'
    BY <1>2, <1>6, <1>10, <1>11 DEF RecordsAreHonest, Recorded
  <1>13. GrantsAreSound' /\ CheckpointsAreGrounded'
    BY <1>1 DEF TInv, GrantsAreSound, CheckpointsAreGrounded
  <1> QED BY <1>7, <1>9, <1>12, <1>13 DEF TInv

LEMMA RecordKeepsTInv ==
  ASSUME TInv, TNext, RecordExecution
  PROVE  TInv'
  <1> DEFINE d == executions[job.id]
  <1>1. /\ job.step = "record" /\ job' = NoJob
        /\ executions' = SetAt(executions, job.id, Drop(d, Marker))
        /\ authorizations' = authorizations /\ checkpoints' = checkpoints
        /\ FilesVerify(d, ExecutionLayout)
    BY DEF RecordExecution, ExecutionVerifies, world_
  <1>2. Marker \notin Files(ExecutionLayout)
    BY DEF Marker, Manifest, Files, ExecutionLayout
  <1>3. Drop(d, Marker)[Manifest] = d[Manifest] /\ Manifest \in Entries(d)
    BY <1>1, <1>2, DropKeepsFiles DEF FilesVerify
  <1>4. job.id \in DOMAIN executions
    <2>1. job.pos \in Nat \ {0} /\ job.pos > 5 /\ InProgress(At(executions, job.id), job.pos)
      BY <1>1, MarkerComesFirst DEF RecordExecution, TInv, JobWritesItsOwn
    <2>2. Marker \in DOMAIN At(executions, job.id)
      BY <2>1 DEF InProgress, Entries
    <2> QED BY <2>2 DEF At, NoDirectory
  <1>5. Honest(Published', d[Manifest].facts, job.id)
    <2>1. Honest(Published, d[Manifest].facts, job.id)
      BY <1>3, <1>4 DEF TInv, RecordsAreHonest, Recorded
    <2> QED BY <2>1, HonestStays
  <1> HIDE DEF d
  <1>6. /\ DOMAIN executions' = DOMAIN executions \cup {job.id}
        /\ executions'[job.id] = Drop(d, Marker)
        /\ \A id \in DOMAIN executions \ {job.id} : executions'[id] = executions[id]
    BY <1>1 DEF SetAt
  <1>7. ASSUME NEW id \in DOMAIN executions', Manifest \in Entries(executions'[id])
        PROVE  Honest(Published', executions'[id][Manifest].facts, id)
    <2>1. CASE id = job.id
      BY <1>3, <1>5, <1>6, <2>1
    <2>2. CASE id # job.id
      <3>1. id \in DOMAIN executions /\ executions'[id] = executions[id]
        BY <1>6, <1>7, <2>2
      <3>2. Honest(Published, executions[id][Manifest].facts, id)
        BY <1>7, <3>1 DEF TInv, RecordsAreHonest, Recorded
      <3> QED BY <3>1, <3>2, HonestStays
    <2> QED BY <2>1, <2>2
  <1>8. RecordsAreHonest'
    BY <1>1, <1>7 DEF RecordsAreHonest, Recorded, NoJob
  <1> QED BY <1>1, <1>8 DEF TInv, NoJob, GrantsAreSound, JobIsGrounded, JobWritesItsOwn,
                            CheckpointsAreGrounded

\* A cut-off leaves the stores as they are, marker and all.
LEMMA CutOffKeepsTInv ==
  ASSUME TInv, TNext, CutOffTraining
  PROVE  TInv'
  <1>1. /\ job' = NoJob /\ authorizations' = authorizations
        /\ checkpoints' = checkpoints /\ executions' = executions
    BY DEF CutOffTraining, world_, stores
  <1>2. RecordsAreHonest'
    BY <1>1, RecordsAreKept DEF NoJob
  <1> QED BY <1>1, <1>2 DEF TInv, NoJob, GrantsAreSound, JobIsGrounded, JobWritesItsOwn,
                            CheckpointsAreGrounded

LEMMA ChangeKeepsTInv ==
  ASSUME TInv, TNext, NEW machine, NEW model, ChangeWorld(machine, model)
  PROVE  TInv'
  <1>1. /\ job' = job /\ job.step \in {"idle", "admitted"} /\ authorizations' = authorizations
        /\ checkpoints' = checkpoints /\ executions' = executions
    BY DEF ChangeWorld, stores
  <1>2. RecordsAreHonest'
    BY <1>1, RecordsAreKept
  <1> QED BY <1>1, <1>2 DEF TInv, GrantsAreSound, JobIsGrounded, JobWritesItsOwn,
                            CheckpointsAreGrounded

LEMMA StutterKeepsTInv == TInv /\ UNCHANGED tvars => TInv'
  BY DEF TInv, tvars, GrantsAreSound, JobIsGrounded, JobWritesItsOwn,
         CheckpointsAreGrounded, RecordsAreHonest, Recorded, Published,
         CheckpointReadable

LEMMA TInvIsKept == TInv /\ [TNext]_tvars => TInv'
  <1> SUFFICES ASSUME TInv, TNext PROVE TInv'
    BY StutterKeepsTInv
  <1> QED BY PreflightKeepsTInv, AdmitKeepsTInv, EngineKeepsTInv, FailureKeepsTInv,
             WriteCheckpointKeepsTInv, PublishKeepsTInv, WriteExecutionKeepsTInv,
             RecordKeepsTInv, CutOffKeepsTInv, ChangeKeepsTInv
          DEF TNext

(***************************************************************************)
(* The steps of a run                                                      *)
(***************************************************************************)
\* Division with a remainder.
LEMMA Division ==
  ASSUME NEW a \in Nat, NEW b \in Nat \ {0}
  PROVE  /\ a \div b \in Nat /\ a % b \in 0 .. (b - 1)
         /\ a = (a \div b) * b + (a % b)
  OBVIOUS

\* CeilDiv rounds up.
LEMMA Ceiling ==
  ASSUME NEW a \in Nat, NEW b \in Nat \ {0}
  PROVE  /\ CeilDiv(a, b) \in Nat
         /\ a <= CeilDiv(a, b) * b /\ CeilDiv(a, b) * b <= a + b - 1
  <1>1. PICK n \in Nat : n = a + b - 1
    OBVIOUS
  <1>2. n \div b \in Nat /\ n % b \in 0 .. (b - 1) /\ n = (n \div b) * b + (n % b)
    BY Division
  <1> QED BY <1>1, <1>2 DEF CeilDiv

\* Multiples of b are ordered as their factors are.
LEMMA Multiples ==
  ASSUME NEW x \in Nat, NEW y \in Nat, NEW b \in Nat \ {0}
  PROVE  /\ x * b \in Nat /\ (x * b) % b = 0
         /\ x < y <=> x * b < y * b
         /\ x < y => x * b + b <= y * b
         /\ x * b = y * b => x = y
  OBVIOUS

\* A batch begins at every multiple of the batch size: there are as many as
\* compute_batches_per_epoch says (trainer.py:250).
LEMMA MultiplesBelow ==
  ASSUME NEW n \in Nat, NEW b \in Nat \ {0}
  PROVE  Cardinality({ s \in 0 .. (n - 1) : s % b = 0 }) = CeilDiv(n, b)
  <1>1. PICK q \in Nat : q = CeilDiv(n, b) /\ n <= q * b /\ q * b <= n + b - 1
    BY Ceiling
  <1>2. PICK S : S = { s \in 0 .. (n - 1) : s % b = 0 }
    OBVIOUS
  <1>3. PICK f : f = [k \in 1 .. q |-> (k - 1) * b]
    OBVIOUS
  <1>4. \A k \in 1 .. q : f[k] \in S
    <2> TAKE k \in 1 .. q
    <2>1. PICK j \in Nat : j = k - 1 /\ j < q
      OBVIOUS
    <2>2. j * b \in Nat /\ (j * b) % b = 0 /\ j * b + b <= q * b
      BY <2>1, Multiples
    <2>3. q * b \in Nat
      OBVIOUS
    <2>4. PICK x, y : x = j * b /\ y = q * b
      OBVIOUS
    <2>5. x \in 0 .. (n - 1) /\ x % b = 0
      BY <1>1, <2>2, <2>3, <2>4
    <2> QED BY <1>2, <1>3, <2>1, <2>4, <2>5
  <1>5. \A j, k \in 1 .. q : f[j] = f[k] => j = k
    <2> TAKE j, k \in 1 .. q
    <2>1. PICK x \in Nat, y \in Nat : x = j - 1 /\ y = k - 1
      OBVIOUS
    <2>2. x * b = y * b => x = y
      BY Multiples
    <2> QED BY <1>3, <2>1, <2>2
  <1>6. \A s \in S : \E k \in 1 .. q : f[k] = s
    <2> TAKE s \in S
    <2>1. s \in Nat /\ s < n /\ s % b = 0
      BY <1>2
    <2>2. PICK j : j = s \div b
      OBVIOUS
    <2>3. j \in Nat /\ s = j * b
      BY <2>1, <2>2, Division
    <2>4. j < q
      BY <1>1, <2>1, <2>3, Multiples
    <2>5. j + 1 \in 1 .. q /\ f[j + 1] = s
      BY <1>3, <2>3, <2>4
    <2> QED BY <2>5
  <1>7. f \in Bijection(1 .. q, S)
    BY <1>3, <1>4, <1>5, <1>6 DEF Bijection, Injection, Surjection, IsInjective
  <1>8. Cardinality(S) = q
    BY <1>7, FS_CountingElements DEF ExistsBijection
  <1> QED BY <1>1, <1>2, <1>8

\* A window of a batches is closed when it is full or with the last batch: as often
\* as compute_optimizer_steps_per_epoch says (trainer.py:254).
LEMMA WindowsClosed ==
  ASSUME NEW m \in Nat, NEW a \in Nat \ {0}
  PROVE  Cardinality({ k \in 1 .. m : k % a = 0 \/ k = m }) = CeilDiv(m, a)
  <1>1. PICK q \in Nat : q = CeilDiv(m, a) /\ m <= q * a /\ q * a <= m + a - 1
    BY Ceiling
  <1>2. PICK S : S = { k \in 1 .. m : k % a = 0 \/ k = m }
    OBVIOUS
  <1>3. PICK f : f = [j \in 1 .. q |-> IF j = q THEN m ELSE j * a]
    OBVIOUS
  <1>4. \A j \in 1 .. q : j < q => j * a \in 1 .. (m - 1) /\ (j * a) % a = 0
    <2> TAKE j \in 1 .. q
    <2> HAVE j < q
    <2>1. PICK x \in Nat, y \in Nat : x = j * a /\ y = q * a
      OBVIOUS
    <2>2. x + a <= y /\ x % a = 0 /\ 0 * a < x
      BY <2>1, Multiples
    <2>3. y <= m + a - 1 /\ 0 * a = 0
      BY <1>1, <2>1
    <2> QED BY <2>1, <2>2, <2>3
  <1>5. q >= 1 => m \in Nat \ {0}
    <2> SUFFICES ASSUME q >= 1, m = 0 PROVE FALSE
      OBVIOUS
    <2>1. q * a = 0 * a + q * a /\ a <= q * a
      BY Multiples
    <2> QED BY <1>1, <2>1
  <1>6. \A j \in 1 .. q : f[j] \in S
    BY <1>2, <1>3, <1>4, <1>5
  <1>7. \A j, k \in 1 .. q : f[j] = f[k] => j = k
    <2> TAKE j, k \in 1 .. q
    <2>1. j * a = k * a => j = k
      BY Multiples
    <2> QED BY <1>3, <1>4, <2>1
  <1>8. \A k \in S : \E j \in 1 .. q : f[j] = k
    <2> TAKE k \in S
    <2>1. k \in 1 .. m /\ (k % a = 0 \/ k = m)
      BY <1>2
    <2>2. q >= 1
      BY <1>1, <2>1
    <2>3. CASE k = m
      BY <1>3, <2>2, <2>3
    <2>4. CASE k # m /\ k % a = 0
      <3>1. PICK j : j = k \div a
        OBVIOUS
      <3>2. k \in Nat /\ k % a = 0
        BY <2>1, <2>4
      <3>3. j \in Nat /\ k = j * a
        BY <3>1, <3>2, Division
      <3>4. j < q /\ 0 < j
        BY <1>1, <2>1, <2>4, <3>3, Multiples
      <3>5. j \in 1 .. q /\ f[j] = k
        BY <1>3, <3>3, <3>4
      <3> QED BY <3>5
    <2> QED BY <2>1, <2>3, <2>4
  <1>9. f \in Bijection(1 .. q, S)
    BY <1>3, <1>6, <1>7, <1>8 DEF Bijection, Injection, Surjection, IsInjective
  <1>10. Cardinality(S) = q
    BY <1>9, FS_CountingElements DEF ExistsBijection
  <1> QED BY <1>1, <1>2, <1>10

\* The engine's loops take the steps of the plan's arithmetic.
LEMMA LoopsAgree ==
  ASSUME NEW n \in Nat, NEW spec, spec.batch \in Nat \ {0}, spec.accum \in Nat \ {0}
  PROVE  OptimizerSteps(n, spec) = spec.epochs * StepsPerEpoch(n, spec)
  <1>1. PICK batches : batches = CeilDiv(n, spec.batch)
    OBVIOUS
  <1>2. batches \in Nat
    BY <1>1, Ceiling
  <1>3. Cardinality({ s \in 0 .. (n - 1) : s % spec.batch = 0 }) = batches
    BY <1>1, MultiplesBelow
  <1>4. Cardinality({ k \in 1 .. batches : k % spec.accum = 0 \/ k = batches })
          = CeilDiv(batches, spec.accum)
    BY <1>2, WindowsClosed
  <1> QED BY <1>1, <1>3, <1>4 DEF OptimizerSteps, StepsPerEpoch

\* A slice of a corpus has a length.
LEMMA SlicesHaveLengths ==
  ASSUME NEW corpus \in DOMAIN Corpora, NEW limits \in Limits
  PROVE  Len(SelectSlice(corpus, limits.slice).ids) \in Nat
  <1>1. PICK examples, max : /\ examples = Corpora[corpus] /\ max = limits.slice
                              /\ max \in Nat \ {0}
    BY LimitsAssumption
  <1>2. PICK S : examples \in Seq(S)
    BY <1>1, CorporaAssumption
  <1>3. /\ Len(examples) \in Nat
        /\ \A k \in 1 .. Len(examples) : examples[k] \in S
    BY <1>2, ElementOfSeq, LenProperties
  <1>4. PICK last : last = IF max < Len(examples) THEN max ELSE Len(examples)
    OBVIOUS
  <1>5. last \in Nat /\ last <= Len(examples)
    BY <1>1, <1>3, <1>4
  <1>6. SubSeq(examples, 1, last) \in Seq(S)
    BY <1>3, <1>5, SubSeqProperties
  <1> QED BY <1>1, <1>4, <1>6, LenProperties DEF SelectSlice

\* The run that is admitted has a plan from the store and a slice with a length, and
\* the run that is published agrees with what was expected of it.
StepsInv ==
  /\ job.step = "admitted" => job.id.plan \in Plans /\ Len(job.id.slice.ids) \in Nat
  /\ StepsAgree

LEMMA StepsInvIsKept == TInv /\ StepsInv /\ [TNext]_tvars => StepsInv'
  <1> SUFFICES ASSUME TInv, StepsInv, [TNext]_tvars PROVE StepsInv'
    OBVIOUS
  <1>1. ASSUME NEW p \in Plans, NEW c \in DOMAIN Corpora, NEW a \in authorizations,
               NEW l \in Limits, NEW m \in ModelPolicies, NEW b \in ModelPolicies,
               Admit(p, c, a, l, m, b)
        PROVE  StepsInv'
    <2>1. PICK slice : slice = SelectSlice(c, l.slice)
      OBVIOUS
    <2>2. \E artifact, policy, expected :
            job' = [step |-> "admitted", expected |-> expected,
                    id |-> ExecutionId(p, a, artifact, slice, m.name, policy)]
      BY <1>1, <2>1 DEF Admit
    <2>3. job'.step = "admitted" /\ job'.id.plan = p /\ job'.id.slice = slice
      BY <2>2 DEF ExecutionId
    <2> QED BY <2>1, <2>3, SlicesHaveLengths DEF StepsInv, StepsAgree
  <1>2. ASSUME NEW losses, EngineCompletes(losses)
        PROVE  StepsInv'
    <2>1. PICK plan, n :
            /\ plan = job.id.plan /\ n = Len(job.id.slice.ids)
            /\ plan \in Plans /\ n \in Nat
            /\ job.expected = plan.epochs * StepsPerEpoch(n, plan.spec)
      BY <1>2 DEF EngineCompletes, TInv, JobIsGrounded, StepsInv
    <2>2. plan.epochs = plan.spec.epochs
      BY <2>1, PlansAssumption DEF PlanFor
    <2>3. OptimizerSteps(n, plan.spec) = plan.spec.epochs * StepsPerEpoch(n, plan.spec)
      BY <2>1, PlansAssumption, LoopsAgree
    <2>4. \/ job' = NoJob
          \/ /\ job'.step = "publish" /\ job'.expected = job.expected
             /\ job'.lineage.steps = OptimizerSteps(n, plan.spec)
      BY <1>2, <2>1 DEF EngineCompletes, Candidate
    <2> QED BY <2>1, <2>2, <2>3, <2>4 DEF StepsInv, StepsAgree, NoJob
  <1>3. CASE WriteCheckpointEntry
    <2>1. /\ job.step = "publish" /\ job' = [job EXCEPT !.pos = @ + 1]
          /\ {"step", "expected", "lineage", "pos"} \subseteq DOMAIN job
      BY <1>3 DEF WriteCheckpointEntry, TInv, JobIsGrounded, JobWritesItsOwn
    <2> QED BY <2>1 DEF StepsInv, StepsAgree
  <1>4. CASE WriteExecutionEntry
    <2>1. /\ job.step = "record" /\ job' = [job EXCEPT !.pos = @ + 1] /\ "step" \in DOMAIN job
      BY <1>4 DEF WriteExecutionEntry, TInv, JobIsGrounded
    <2> QED BY <2>1 DEF StepsInv, StepsAgree
  <1>5. ASSUME job'.step \in {"idle", "record"} \/ UNCHANGED job
        PROVE  StepsInv'
    BY <1>5 DEF StepsInv, StepsAgree
  <1>6. ASSUME NEW k, NEW how, EngineFails(k, how)
        PROVE  job'.step \in {"idle", "record"}
    BY <1>6 DEF EngineFails, Failed, NoJob
  <1>7. PublishCheckpoint => job'.step \in {"idle", "record"}
    BY DEF PublishCheckpoint, Completed, NoJob
  <1>8. RecordExecution \/ CutOffTraining => job'.step \in {"idle", "record"}
    BY DEF RecordExecution, CutOffTraining, NoJob
  <1>9. ASSUME NEW p, NEW c, RunPreflight(p, c)
        PROVE  UNCHANGED job
    BY <1>9 DEF RunPreflight
  <1>10. ASSUME NEW s, NEW m, ChangeWorld(s, m)
         PROVE  UNCHANGED job
    BY <1>10 DEF ChangeWorld
  <1>11. UNCHANGED tvars => UNCHANGED job
    BY DEF tvars
  <1> QED BY <1>1, <1>2, <1>3, <1>4, <1>5, <1>6, <1>7, <1>8, <1>9, <1>10, <1>11 DEF TNext

(***************************************************************************)
(* Theorems                                                                *)
(***************************************************************************)
\* Every checkpoint that can be read names an execution whose authorization was
\* granted for its plan, on a machine that passed, and for the very content of the
\* model directory that the run was admitted with (realexec.py:349), whatever the
\* machine and the directory became, and wherever a run was cut off.
THEOREM CheckpointsAreAuthorized == TSpec => []CheckpointsWereAuthorized
  <1>1. TInv => CheckpointsWereAuthorized
    BY DEF TInv, CheckpointsAreGrounded, Grounded, CheckpointsWereAuthorized, Published
  <1> QED BY <1>1, TInvHoldsFirst, TInvIsKept, PTL DEF TSpec

\* An execution that can be read as completed has its own checkpoint, readable, and
\* the steps of its slice (hfexecutor.py:393).
THEOREM CompletedHaveCheckpoints == TSpec => []CompletedHasItsCheckpoint
  <1>1. TInv => CompletedHasItsCheckpoint
    BY DEF TInv, RecordsAreHonest, Honest, CompletedHasItsCheckpoint, Records,
           ExecutionReadable, At
  <1> QED BY <1>1, TInvHoldsFirst, TInvIsKept, PTL DEF TSpec

\* No step changes a checkpoint or an execution that can be read, a later attempt
\* under the same id included (realckptstore.py, realexecstore.py).
THEOREM OutcomesAreFinal == TSpec => OutcomesStand
  <1>1. TInv /\ [TNext]_tvars =>
          /\ \A id \in Published : checkpoints'[id] = checkpoints[id]
          /\ \A id \in Records : executions'[id] = executions[id]
    BY ReadableStands
  <1>2. TInv /\ [TNext]_tvars =>
          [/\ \A id \in Published : checkpoints'[id] = checkpoints[id]
           /\ \A id \in Records : executions'[id] = executions[id]]_tvars
    BY <1>1
  <1> QED BY <1>2, TInvHoldsFirst, TInvIsKept, PTL DEF TSpec, OutcomesStand

\* A run whose checkpoint is being published took as many steps as its plan expects:
\* no checkpoint is published for a run whose record the validator refuses on that
\* account, whatever the slice, the batch size and the window (realexec.py:311).
THEOREM LoopsAndPlansAgree == TSpec => []StepsAgree
  <1>1. TInit => StepsInv
    BY DEF TInit, NoJob, StepsInv, StepsAgree
  <1>2. StepsInv => StepsAgree
    BY DEF StepsInv
  <1> QED BY <1>1, <1>2, TInvHoldsFirst, TInvIsKept, StepsInvIsKept, PTL DEF TSpec
================================================================================
