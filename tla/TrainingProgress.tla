-------------------------- MODULE TrainingProgress --------------------------
(***************************************************************************)
(* The arithmetic of a simulated training execution: what a plan counts    *)
(* (training/trainer.py) and the event log that an execution's header      *)
(* determines (training/execution.py: _progress_frames,                    *)
(* expected_event_frames, epochs_completed_at).                            *)
(*                                                                         *)
(* A plan is [batches, accum, epochs, steps]: batches per epoch, gradient  *)
(* accumulation steps, epochs (Absent under a step budget) and optimizer   *)
(* steps.  A header is [retry, offset, final, completed].                  *)
(***************************************************************************)
EXTENDS Integers, FiniteSets, Sequences, SequencesExt

Absent == -1     \* a field that is None

FinalStates == {"completed", "failed", "cancelled"}

\* LEGAL_TRANSITIONS.
LegalTransitions ==
  [planned   |-> {"validated"},
   validated |-> {"starting"},
   starting  |-> {"running"},
   running   |-> {"running", "completed", "failed", "cancelled"},
   failed    |-> {"resumed"},
   resumed   |-> {"running"},
   completed |-> {},
   cancelled |-> {}]

\* EVENT_TRANSITIONS: a final state names the event that reaches it.
EventTransitions ==
  [validated |-> {<<"planned", "validated">>},
   starting  |-> {<<"validated", "starting">>},
   started   |-> {<<"starting", "running">>, <<"resumed", "running">>},
   batch     |-> {<<"running", "running">>},
   step      |-> {<<"running", "running">>},
   epoch     |-> {<<"running", "running">>},
   completed |-> {<<"running", "completed">>},
   failed    |-> {<<"running", "failed">>},
   cancelled |-> {<<"running", "cancelled">>},
   resumed   |-> {<<"failed", "resumed">>}]

\* ExecutionEvent's validator, hashes apart.
ValidEvent(f) ==
  /\ f.after \in LegalTransitions[f.before]
  /\ <<f.before, f.after>> \in EventTransitions[f.type]

-----------------------------------------------------------------------------
(* The counts of a plan                                                    *)

CeilDiv(a, b) == (a + b - 1) \div b

\* compute_plan_counts, for an epoch budget and for a step budget.
EpochPlan(examples, batchSize, accum, epochs) ==
  LET batches == CeilDiv(examples, batchSize)
  IN [batches |-> batches, accum |-> accum, epochs |-> epochs,
      steps |-> epochs * CeilDiv(batches, accum)]

StepPlan(examples, batchSize, accum, steps) ==
  [batches |-> CeilDiv(examples, batchSize), accum |-> accum,
   epochs |-> Absent, steps |-> steps]

-----------------------------------------------------------------------------
(* The loops of _progress_frames.  Each turn of the inner loop is one      *)
(* optimizer step; a cursor is where the loops stand between two turns.    *)

\* Mutant: every window has the full accumulation count.
FullWindow(p, batch) == p.accum

\* The batches that the step starting at this batch accumulates.
Window(p, batch) ==
  IF p.accum < p.batches - batch THEN p.accum ELSE p.batches - batch

\* cursor[s]: the epoch and batch at which step s + 1 starts.
Cursor(p) ==
  LET cursor[s \in 0..p.steps] ==
        IF s = 0 THEN [epoch |-> 0, batch |-> 0]
        ELSE LET last == cursor[s - 1]
                 next == last.batch + Window(p, last.batch)
             IN IF next >= p.batches
                  THEN [epoch |-> last.epoch + 1, batch |-> 0]
                  ELSE [epoch |-> last.epoch, batch |-> next]
  IN cursor

\* The loops raise: the epochs of the plan end before its steps do.
Exhausts(p) ==
  /\ p.epochs # Absent
  /\ \E s \in 0..(p.steps - 1) : Cursor(p)[s].epoch >= p.epochs

Frame(type, before, after, epoch, batch, step, done) ==
  [type |-> type, before |-> before, after |-> after,
   epoch |-> epoch, batch |-> batch, step |-> step, done |-> done]

Progressing(type, epoch, batch, step, done) ==
  Frame(type, "running", "running", epoch, batch, step, done)

Owned(frame, step) == [frame |-> frame, owner |-> step]

\* The frames that one turn appends, each tagged with its owning step: the end
\* of an epoch belongs to the last step of that epoch.
StepFrames(p, s) ==
  LET c == Cursor(p)[s - 1]
      w == Window(p, c.batch)
  IN [i \in 1..w |->
        Owned(Progressing("batch", c.epoch, c.batch + i - 1, Absent, s - 1), s)]
     \o <<Owned(Progressing("step", c.epoch, Absent, s, s), s)>>
     \o (IF c.batch + w >= p.batches
           THEN <<Owned(Progressing("epoch", c.epoch, Absent, Absent, s), s)>>
           ELSE <<>>)

\* _progress_frames.
ProgressFrames(p) == FlattenSeq([s \in 1..p.steps |-> StepFrames(p, s)])

FramesOf(owned) == [i \in DOMAIN owned |-> owned[i].frame]

\* The frames whose owner is in (offset, completed]: a comprehension, which keeps
\* their order.  (SelectSeq says the same, but has no definition that proofs can use.)
Between(owned, offset, completed) ==
  FlattenSeq([i \in DOMAIN owned |->
                IF offset < owned[i].owner /\ owned[i].owner <= completed
                  THEN <<owned[i]>> ELSE <<>>])

\* Mutant: a resumed execution repeats the step it was stopped after.
ProgressFrom(p, offset, completed) ==
  FramesOf(Between(ProgressFrames(p), offset - 1, completed))

\* The progress of an execution from its resume offset to where it stopped.
Progress(p, offset, completed) ==
  FramesOf(Between(ProgressFrames(p), offset, completed))

\* epochs_completed_at.
EpochsCompletedAt(p, step) ==
  LET owned == ProgressFrames(p)
  IN Cardinality({ i \in DOMAIN owned : owned[i].frame.type = "epoch"
                                        /\ owned[i].owner <= step })

-----------------------------------------------------------------------------
(* The log of an execution                                                 *)

Turn(type, before, after, done) ==
  Frame(type, before, after, Absent, Absent, Absent, done)

OpeningThrough(e, resumed) ==
  IF e.retry > 0
    THEN <<Turn("resumed", "failed", "resumed", e.offset),
           Turn("started", resumed, "running", e.offset)>>
    ELSE <<Turn("validated", "planned", "validated", 0),
           Turn("starting", "validated", "starting", 0),
           Turn("started", "starting", "running", 0)>>

\* Mutant: a resumed execution is started as a fresh one is.
RestartedOpening(e) == OpeningThrough(e, "starting")

\* The lifecycle events before the first progress.
Opening(e) == OpeningThrough(e, "resumed")

\* expected_event_frames, where it does not raise.
Log(p, e) ==
  Opening(e) \o Progress(p, e.offset, e.completed)
             \o <<Turn(e.final, "running", e.final, e.completed)>>

\* The headers that expected_event_frames accepts.
Replays(p, e) ==
  /\ e.final \in FinalStates
  /\ IF e.final = "completed" THEN e.completed = p.steps
       ELSE e.offset <= e.completed /\ e.completed < p.steps
  /\ IF e.retry > 0 THEN 0 < e.offset /\ e.offset < p.steps
       ELSE e.offset = 0
=============================================================================
