--------------------------- MODULE TrainingStore ---------------------------
(***************************************************************************)
(* The executions of one plan under one policy, on disk: a worker makes    *)
(* executions with the engine, keeps them in the store                     *)
(* (training/execstore.py: one directory per execution) and loads them     *)
(* back to resume them; a producer (training/producer.py) turns a stored   *)
(* execution into a checkpoint candidate.                                  *)
(*                                                                         *)
(* An execution's id is a hash of plan, capability, policy and retry       *)
(* number: here, the retry number.  A file is identified with the          *)
(* execution it was written from; hashes and digests bind it to that one.  *)
(***************************************************************************)
EXTENDS Integers, Sequences

CONSTANTS
  Plan, Policy,
  Workers,    \* callers of the engine and of the store's writer
  Producers,  \* callers of the checkpoint producer
  MaxCuts     \* bound on the workers' crashes and errors

VARIABLES
  held,       \* held[w]: the execution that w has in hand, or None
  wpc,        \* a worker's next file operation
  dir,        \* dir[r]: the directory of the execution with retry number r
  written,    \* executions whose write has returned to its caller
  ppc, target,\* a producer's next read, and the execution it is about
  candidates, \* the executions that checkpoint candidates were built from
  cuts

worker == <<held, wpc>>
producer == <<ppc, target, candidates>>
vars == <<worker, dir, written, producer, cuts>>

-----------------------------------------------------------------------------
(* Vocabulary                                                              *)

\* The engine's operators; its calls and its state are not used.
Engine == INSTANCE TrainingEngine WITH
  Plans <- {Plan}, Policies <- {Policy},
  plan <- Plan, policy <- Policy, chain <- <<>>

Retries == 0..Policy.maxRetries
Executions == Engine!Executions(Plan, Policy)

ASSUME StoreAssumption == /\ Plan.steps \in Nat \ {0}
                          /\ Policy.maxRetries \in Nat
                          /\ MaxCuts \in Nat

None == [retry |-> -1]
NoDir == [marker |-> FALSE, events |-> None, manifest |-> None]

\* verify_training_execution: the content files are there and belong together,
\* and the execution that they record replays.
Verifies(r, allowMarker) ==
  /\ ~dir[r].marker \/ allowMarker
  /\ dir[r].manifest # None
  /\ dir[r].events = dir[r].manifest
  /\ Engine!Valid(Plan, Policy, dir[r].manifest)

Readable(r) == Verifies(r, FALSE)

Init ==
  /\ held = [w \in Workers |-> None]
  /\ wpc = [w \in Workers |-> "idle"]
  /\ dir = [r \in Retries |-> NoDir]
  /\ written = {}
  /\ ppc = [p \in Producers |-> "idle"]
  /\ target = [p \in Producers |-> -1]
  /\ candidates = {}
  /\ cuts = 0

-----------------------------------------------------------------------------
(* A worker: what it has in hand                                           *)

Idle(w) == wpc[w] = "idle"
Goto(w, l) == wpc' = [wpc EXCEPT ![w] = l]

Hold(w, e) ==
  /\ Idle(w)
  /\ held' = [held EXCEPT ![w] = e]
  /\ UNCHANGED <<wpc, dir, written, producer, cuts>>

Execute(w) == \E e \in Engine!Runs(Plan, 0, 0) : Hold(w, e)

Resume(w) ==
  /\ held[w] # None
  /\ \E e \in Engine!Resumptions(Plan, Policy, held[w]) : Hold(w, e)

\* read_training_execution.
Load(w) == \E r \in Retries : Readable(r) /\ Hold(w, dir[r].manifest)

-----------------------------------------------------------------------------
(* A worker: write_training_execution                                      *)

\* The directory of the execution in hand.
Id(w) == held[w].retry
Put(w, contents) == dir' = [dir EXCEPT ![Id(w)] = contents]

\* Mutant: a directory that is there is written again.
AnyDir(r) == r \in Retries

\* A directory with anything in it is refused.
Vacant(r) == dir[r] = NoDir

StartWrite(w) ==
  /\ Idle(w)
  /\ held[w] # None
  /\ Vacant(Id(w))
  /\ Goto(w, "mark")
  /\ UNCHANGED <<held, dir, written, producer, cuts>>

\* Mutant: no marker is written.
WriteNoMarker(w) ==
  /\ wpc[w] = "mark"
  /\ Goto(w, "events")
  /\ UNCHANGED <<held, dir, written, producer, cuts>>

WriteMarker(w) ==
  /\ wpc[w] = "mark"
  /\ Put(w, [dir[Id(w)] EXCEPT !.marker = TRUE])
  /\ Goto(w, "events")
  /\ UNCHANGED <<held, written, producer, cuts>>

WriteEvents(w) ==
  /\ wpc[w] = "events"
  /\ Put(w, [dir[Id(w)] EXCEPT !.events = held[w]])
  /\ Goto(w, "manifest")
  /\ UNCHANGED <<held, written, producer, cuts>>

WriteManifest(w) ==
  /\ wpc[w] = "manifest"
  /\ Put(w, [dir[Id(w)] EXCEPT !.manifest = held[w]])
  /\ Goto(w, "verify")
  /\ UNCHANGED <<held, written, producer, cuts>>

VerifyWritten(w) ==
  /\ wpc[w] = "verify"
  /\ Goto(w, IF Verifies(Id(w), TRUE) THEN "unmark" ELSE "idle")
  /\ UNCHANGED <<held, dir, written, producer, cuts>>

RemoveMarker(w) ==
  /\ wpc[w] = "unmark"
  /\ Put(w, [dir[Id(w)] EXCEPT !.marker = FALSE])
  /\ Goto(w, "return")
  /\ UNCHANGED <<held, written, producer, cuts>>

ReturnWritten(w) ==
  /\ wpc[w] = "return"
  /\ written' = written \cup {held[w]}
  /\ Goto(w, "idle")
  /\ UNCHANGED <<held, dir, producer, cuts>>

Write(w) ==
  \/ StartWrite(w) \/ WriteMarker(w) \/ WriteEvents(w) \/ WriteManifest(w)
  \/ VerifyWritten(w) \/ RemoveMarker(w) \/ ReturnWritten(w)

\* The worker is killed, or a file operation raises.
CutOff(w) ==
  /\ cuts < MaxCuts
  /\ ~Idle(w)
  /\ cuts' = cuts + 1
  /\ Goto(w, "idle")
  /\ held' = [held EXCEPT ![w] = None]
  /\ UNCHANGED <<dir, written, producer>>

-----------------------------------------------------------------------------
(* A producer: assess_checkpoint_eligibility verifies and loads, then      *)
(* produce verifies and loads again, and builds the candidate from the     *)
(* second load.                                                            *)

GotoP(p, l) == ppc' = [ppc EXCEPT ![p] = l]

Assess(p) ==
  /\ ppc[p] = "idle"
  /\ \E r \in Retries : Readable(r) /\ target' = [target EXCEPT ![p] = r]
  /\ GotoP(p, "assess")
  /\ UNCHANGED <<worker, dir, written, candidates, cuts>>

\* Mutant: an execution that stopped early is eligible.
Finished(e) == e.final # "failed"

\* execution_completed and execution_counts_match_plan.
Eligible(e) == e.final = "completed" /\ e.completed = Plan.steps

AssessLoaded(p) ==
  /\ ppc[p] = "assess"
  /\ GotoP(p, IF Eligible(dir[target[p]].manifest) THEN "verify" ELSE "idle")
  /\ UNCHANGED <<worker, dir, written, target, candidates, cuts>>

VerifyAgain(p) ==
  /\ ppc[p] = "verify"
  /\ GotoP(p, IF Readable(target[p]) THEN "build" ELSE "idle")
  /\ UNCHANGED <<worker, dir, written, target, candidates, cuts>>

Build(p) ==
  /\ ppc[p] = "build"
  /\ candidates' = candidates \cup {dir[target[p]].manifest}
  /\ GotoP(p, "idle")
  /\ UNCHANGED <<worker, dir, written, target, cuts>>

Produce(p) == Assess(p) \/ AssessLoaded(p) \/ VerifyAgain(p) \/ Build(p)

Next ==
  \/ \E w \in Workers :
       Execute(w) \/ Resume(w) \/ Load(w) \/ Write(w) \/ CutOff(w)
  \/ \E p \in Producers : Produce(p)

Spec == Init /\ [][Next]_vars

-----------------------------------------------------------------------------
(* Properties                                                              *)

\* No directory reads as an execution while its writer is still before the end
\* of its verification (execstore.py:217-229).
UnverifiedIsNotReadable ==
  \A w \in Workers : wpc[w] \in {"events", "manifest", "verify", "unmark"} =>
    ~Readable(Id(w))

\* An execution whose write returned stays readable as it was written: the
\* outcome of a retry number is decided once, also if another execution with
\* the same id ends differently (execstore.py:213).
WrittenOutcomeStands ==
  \A e \in written : Readable(e.retry) /\ dir[e.retry].manifest = e

\* A candidate is built from a completed execution of the whole plan that the
\* store still holds, although the producer loads it a second time after having
\* assessed it (producer.py:247-256) while workers write.
CandidatesAreCompleted ==
  \A c \in candidates :
    /\ c.final = "completed" /\ c.completed = Plan.steps
    /\ Readable(c.retry) /\ dir[c.retry].manifest = c

\* The resume binding of a stored execution is what the stored execution it
\* names says: that one failed, after as many steps (engine.py:15).
ResumeBindingHolds ==
  \A r \in Retries \ {0} : Readable(r) /\ Readable(r - 1) =>
    /\ dir[r - 1].manifest.final = "failed"
    /\ dir[r - 1].manifest.completed = dir[r].manifest.offset
=============================================================================
