--------------------------- MODULE TrainingEngine ---------------------------
(***************************************************************************)
(* The engine of simulated executions (training/engine.py) and the         *)
(* validator of what it builds (TrainingExecution in                       *)
(* training/execution.py).                                                 *)
(*                                                                         *)
(* The engine keeps nothing: it executes a plan under a policy, or resumes *)
(* an execution that failed as a new one.  The state is the chain of       *)
(* executions that a caller has made, each resuming the one before it.     *)
(***************************************************************************)
EXTENDS TrainingProgress

CONSTANTS
  Plans,      \* the plans considered
  Policies    \* the retry policies considered

\* TrainingPlan's fields and validator.
ASSUME PlansAssumption ==
  \A p \in Plans :
    /\ p.batches \in Nat \ {0} /\ p.accum \in Nat \ {0} /\ p.steps \in Nat \ {0}
    /\ p.epochs # Absent =>
         p.epochs \in Nat \ {0} /\ p.steps = p.epochs * CeilDiv(p.batches, p.accum)
ASSUME PoliciesAssumption ==
  \A q \in Policies :
    /\ q.maxRetries \in Nat /\ q.allowResume \in BOOLEAN
    /\ q.maxRetries > 0 => q.allowResume

VARIABLES plan, policy,  \* fixed at the start
          chain          \* the executions made, the resumed ones first

engineVars == <<plan, policy, chain>>

-----------------------------------------------------------------------------
(* Executions                                                              *)

\* The headers of executions of plan p under policy q.
Executions(p, q) ==
  [retry : 0..q.maxRetries, offset : 0..p.steps, final : FinalStates,
   completed : 0..p.steps]

\* Mutant: a stop may be scripted at the resume offset itself.
StopsFrom(p, offset) == {s \in 0..p.steps : offset <= s /\ s < p.steps}

\* The steps at which a script may stop an execution.
Stops(p, offset) == {s \in 0..p.steps : offset < s /\ s < p.steps}

\* _final_from_script, over every script it accepts.
Outcomes(p, offset) ==
  {[final |-> "completed", completed |-> p.steps]}
  \cup {[final |-> f, completed |-> s] :
          f \in {"failed", "cancelled"}, s \in Stops(p, offset)}

\* _run, over every script: the executions it may build.
Runs(p, retry, offset) ==
  {[retry |-> retry, offset |-> offset,
    final |-> o.final, completed |-> o.completed] : o \in Outcomes(p, offset)}

\* resume() refuses every other execution.
Resumable(q, e) ==
  /\ e.final = "failed"
  /\ q.allowResume
  /\ e.retry + 1 <= q.maxRetries

\* resume().
Resumptions(p, q, e) ==
  {r \in Runs(p, e.retry + 1, e.completed) : Resumable(q, e)}

\* TrainingExecution's validator on the header, ids apart ...
ValidHeader(p, q, e) ==
  /\ e.retry <= q.maxRetries
  /\ (e.retry > 0) <=> (e.offset > 0)
  /\ e.retry > 0 => q.allowResume
  /\ Replays(p, e)

\* ... and on the events that the replay of the header expects.
Valid(p, q, e) ==
  /\ ValidHeader(p, q, e)
  /\ ~Exhausts(p)
  /\ \A f \in Range(Log(p, e)) : ValidEvent(f)

-----------------------------------------------------------------------------
(* The engine's calls                                                      *)

Latest == chain[Len(chain)]

EngineInit ==
  /\ plan \in Plans
  /\ policy \in Policies
  /\ chain = <<>>

Execute ==
  /\ chain' \in {<<e>> : e \in Runs(plan, 0, 0)}
  /\ UNCHANGED <<plan, policy>>

Resume ==
  /\ chain # <<>>
  /\ chain' \in {Append(chain, e) : e \in Resumptions(plan, policy, Latest)}
  /\ UNCHANGED <<plan, policy>>

EngineNext == Execute \/ Resume

EngineSpec == EngineInit /\ [][EngineNext]_engineVars

-----------------------------------------------------------------------------
(* Properties                                                              *)

\* Every variable has its type, and the retry numbers of a chain count up.
EngineTypeOK ==
  /\ plan \in Plans /\ policy \in Policies
  /\ chain \in Seq(Executions(plan, policy))
  /\ \A i \in DOMAIN chain : chain[i].retry = i - 1

\* Whatever scripts and resumptions led to it, an execution that the engine
\* builds satisfies its own validator: the engine's guards on scripts and
\* resumptions (engine.py:51, engine.py:89) leave nothing for the validator
\* (execution.py:497) and the replay (execution.py:370) to refuse.
EngineOutputsAreValid ==
  \A i \in DOMAIN chain : Valid(plan, policy, chain[i])

\* A log is one path through the state machine: each event starts in the state
\* the one before it ended in, from "planned" or "failed" to the final state,
\* while the completed steps grow from the resume offset one at a time.  The
\* validator checks the transitions one by one and never joins them.
LogsAreContinuous ==
  chain # <<>> =>
    LET log == Log(plan, Latest)
    IN /\ log[1].before = (IF Latest.retry = 0 THEN "planned" ELSE "failed")
       /\ log[1].done = Latest.offset
       /\ \A i \in 2..Len(log) :
            /\ log[i].before = log[i - 1].after
            /\ log[i].done - log[i - 1].done \in {0, 1}
       /\ log[Len(log)].after = Latest.final
       /\ log[Len(log)].done = Latest.completed

ChainProgress ==
  FlattenSeq([i \in DOMAIN chain |->
                Progress(plan, chain[i].offset, chain[i].completed)])

\* The progress of the executions of a chain, one after the other, is that of
\* a run that was never stopped: in order, no overlap, no gap
\* (training-execution.md:111), over several resumptions and wherever they stop.
ChainIsUninterrupted ==
  chain # <<>> => ChainProgress = Progress(plan, 0, Latest.completed)

\* The batches that the chain trained, in order.
Trained ==
  LET log == ChainProgress
  IN FlattenSeq([i \in DOMAIN log |-> IF log[i].type = "batch" THEN <<log[i]>> ELSE <<>>])

\* A chain that ends with a completed execution goes through the corpus batch by
\* batch and epoch by epoch, every epoch of an epoch budget to its end, no step
\* accumulates more batches than planned, and the completed epochs are those
\* whose batches were all trained: partial windows and a step budget that ends
\* inside an epoch (execution.py:323-348) included.
CompletedChainTrainsInOrder ==
  chain # <<>> /\ Latest.final = "completed" =>
    LET trained == Trained
    IN /\ \A i \in DOMAIN trained :
            trained[i].epoch * plan.batches + trained[i].batch = i - 1
       /\ plan.epochs # Absent => Len(trained) = plan.epochs * plan.batches
       /\ \A s \in 1..plan.steps :
            Cardinality({i \in DOMAIN trained : trained[i].done = s - 1})
              \in 1..plan.accum
       /\ EpochsCompletedAt(plan, plan.steps) = Len(trained) \div plan.batches
=============================================================================
