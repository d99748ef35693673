-------------------------- MODULE TrainingStoreProofs --------------------------
(***************************************************************************)
(* What the store of executions keeps for every plan, policy, number of    *)
(* workers, producers and crashes, as long as no two workers write the     *)
(* directory of one execution at the same time: the code leaves that to    *)
(* its callers (execstore.py:213).                                         *)
(***************************************************************************)
EXTENDS TrainingStore, TLAPS

\* No two workers are between the start and the end of a write of one execution.
WritersExclusive ==
  \A v, w \in Workers : ~Idle(v) /\ ~Idle(w) /\ Id(v) = Id(w) => v = w

(***************************************************************************)
(* The inductive invariant                                                 *)
(***************************************************************************)
WriteSteps == {"idle", "mark", "events", "manifest", "verify", "unmark", "return"}

TypeInv ==
  /\ held \in [Workers -> Executions \cup {None}]
  /\ wpc \in [Workers -> WriteSteps]
  /\ dir \in [Retries -> [marker : BOOLEAN, events : Executions \cup {None},
                          manifest : Executions \cup {None}]]
  /\ written \in SUBSET Executions
  /\ ppc \in [Producers -> {"idle", "assess", "verify", "build"}]
  /\ target \in [Producers -> Retries \cup {-1}]
  /\ candidates \in SUBSET Executions
  /\ cuts \in Nat

\* What the directory of a worker holds at each step of its write.
WrittenSoFar(w) ==
  LET d == dir[Id(w)]
      h == held[w]
  IN /\ h # None
     /\ wpc[w] = "mark" => d = NoDir
     /\ wpc[w] = "events" => d = [marker |-> TRUE, events |-> None, manifest |-> None]
     /\ wpc[w] = "manifest" => d = [marker |-> TRUE, events |-> h, manifest |-> None]
     /\ wpc[w] \in {"verify", "unmark"} => d = [marker |-> TRUE, events |-> h, manifest |-> h]
     /\ wpc[w] = "return" => d = [marker |-> FALSE, events |-> h, manifest |-> h]
     /\ wpc[w] \in {"unmark", "return"} => Engine!Valid(Plan, Policy, h)

WritesInv == \A w \in Workers : ~Idle(w) => WrittenSoFar(w)

\* A directory holds an execution of its own retry number.
OwnExecution == \A r \in Retries : dir[r].manifest # None => dir[r].manifest.retry = r

\* A producer at work has found its target readable, and eligible from its second
\* verification on.
ProducersInv ==
  \A p \in Producers : ppc[p] # "idle" =>
    /\ target[p] \in Retries /\ Readable(target[p])
    /\ ppc[p] \in {"verify", "build"} => Eligible(dir[target[p]].manifest)

TrainingStoreInv ==
  /\ TypeInv /\ WritesInv /\ OwnExecution /\ ProducersInv
  /\ WrittenOutcomeStands /\ CandidatesAreCompleted

LEMMA TrainingStoreInvHoldsFirst == Init => TrainingStoreInv
  BY StoreAssumption
  DEF Init, TrainingStoreInv, TypeInv, WriteSteps, WritesInv, OwnExecution, ProducersInv,
      WrittenOutcomeStands, CandidatesAreCompleted, NoDir, Idle

(***************************************************************************)
(* Executions                                                              *)
(***************************************************************************)
LEMMA NoneIsNoExecution == None \notin Executions
  BY DEF None, Executions, Engine!Executions

LEMMA ExecutionHasItsDirectory == \A e \in Executions : e.retry \in Retries
  BY DEF Executions, Engine!Executions, Retries

\* What the engine runs from an offset within the plan.
LEMMA RunIsExecution ==
  ASSUME NEW retry \in Retries, NEW offset \in 0..Plan.steps,
         NEW e \in Engine!Runs(Plan, retry, offset)
  PROVE  e \in Executions
  <1>1. PICK o \in Engine!Outcomes(Plan, offset) :
          e = [retry |-> retry, offset |-> offset, final |-> o.final, completed |-> o.completed]
    BY DEF Engine!Runs
  <1>2. o.final \in Engine!FinalStates /\ o.completed \in 0..Plan.steps
    BY <1>1, StoreAssumption DEF Engine!Outcomes, Engine!Stops, Engine!FinalStates
  <1> QED BY <1>1, <1>2 DEF Executions, Engine!Executions, Retries

LEMMA ResumptionIsExecution ==
  ASSUME NEW e \in Executions, NEW f \in Engine!Resumptions(Plan, Policy, e)
  PROVE  f \in Executions
  <1>1. /\ e.retry + 1 <= Policy.maxRetries
        /\ f \in Engine!Runs(Plan, e.retry + 1, e.completed)
    BY DEF Engine!Resumptions, Engine!Resumable
  <1>2. e.retry \in 0..Policy.maxRetries /\ e.completed \in 0..Plan.steps
    BY DEF Executions, Engine!Executions
  <1>3. e.retry + 1 \in Retries
    BY <1>1, <1>2, StoreAssumption DEF Retries
  <1> QED BY <1>1, <1>2, <1>3, RunIsExecution

(***************************************************************************)
(* A worker's step                                                         *)
(***************************************************************************)
WorkerAct(w) == Execute(w) \/ Resume(w) \/ Load(w) \/ Write(w) \/ CutOff(w)

\* What a worker that is not writing takes in hand is an execution.
LEMMA HoldsExecution ==
  ASSUME TypeInv, NEW w \in Workers, Execute(w) \/ Resume(w) \/ Load(w)
  PROVE  \E e \in Executions : Hold(w, e)
  <1>1. CASE Execute(w)
    <2>1. 0 \in Retries /\ 0 \in 0..Plan.steps
      BY StoreAssumption DEF Retries
    <2> QED BY <1>1, <2>1, RunIsExecution DEF Execute
  <1>2. CASE Resume(w)
    <2>1. held[w] \in Executions
      BY <1>2 DEF Resume, TypeInv
    <2> QED BY <1>2, <2>1, ResumptionIsExecution DEF Resume
  <1>3. CASE Load(w)
    BY <1>3 DEF Load, TypeInv, Readable, Verifies
  <1> QED BY <1>1, <1>2, <1>3

\* A step of a worker changes what it holds while it is not writing, or goes on
\* with its write, in the directory of what it holds.
LEMMA WorkerShape ==
  ASSUME TypeInv, NEW w \in Workers, WorkerAct(w)
  PROVE  /\ UNCHANGED <<ppc, target, candidates>>
         /\ \A v \in Workers \ {w} : wpc'[v] = wpc[v] /\ held'[v] = held[v]
         /\ \/ /\ Idle(w) /\ UNCHANGED <<wpc, dir, written, cuts>>
               /\ \E e \in Executions : held' = [held EXCEPT ![w] = e]
            \/ /\ Idle(w) /\ UNCHANGED <<held, dir, written, cuts>>
               /\ held[w] # None /\ Vacant(Id(w))
               /\ wpc' = [wpc EXCEPT ![w] = "mark"]
            \/ ~Idle(w) /\ Write(w) /\ UNCHANGED <<held, cuts>>
            \/ ~Idle(w) /\ CutOff(w) /\ UNCHANGED <<dir, written>>
  <1>1. CASE Execute(w) \/ Resume(w) \/ Load(w)
    BY <1>1, HoldsExecution DEF Hold, TypeInv, producer
  <1>2. CASE StartWrite(w)
    BY <1>2 DEF StartWrite, Goto, TypeInv, producer
  <1>3. CASE Write(w) /\ ~StartWrite(w)
    BY <1>3 DEF Write, WriteMarker, WriteEvents, WriteManifest, VerifyWritten, RemoveMarker,
                ReturnWritten, Idle, Goto, TypeInv, producer
  <1>4. CASE CutOff(w)
    BY <1>4 DEF CutOff, Goto, TypeInv, producer
  <1> QED BY <1>1, <1>2, <1>3, <1>4 DEF WorkerAct, Write

LEMMA HeldHasItsDirectory ==
  ASSUME TypeInv, WritesInv, NEW w \in Workers, ~Idle(w)
  PROVE  /\ held[w] \in Executions /\ Id(w) \in Retries /\ held[w] # None
         /\ WrittenSoFar(w)
  BY ExecutionHasItsDirectory DEF TypeInv, WritesInv, WrittenSoFar, Id

\* One file of a directory is written, or its marker set or removed.
LEMMA DirectoryUpdates ==
  ASSUME NEW m, NEW e, NEW f, NEW x,
         NEW d, d = [marker |-> m, events |-> e, manifest |-> f]
  PROVE  /\ [d EXCEPT !.marker = x] = [marker |-> x, events |-> e, manifest |-> f]
         /\ [d EXCEPT !.events = x] = [marker |-> m, events |-> x, manifest |-> f]
         /\ [d EXCEPT !.manifest = x] = [marker |-> m, events |-> e, manifest |-> x]
  OBVIOUS

LEMMA WorkerKeepsTypes ==
  ASSUME TypeInv, WritesInv, NEW w \in Workers, WorkerAct(w)
  PROVE  TypeInv'
  <1> USE DEF TypeInv, WriteSteps
  <1>1. CASE Idle(w)
    BY <1>1, WorkerShape
  <1>2. CASE ~Idle(w) /\ CutOff(w)
    BY <1>2, StoreAssumption DEF CutOff, Goto, producer
  <1>3. CASE ~Idle(w) /\ Write(w)
    <2>1. /\ held[w] \in Executions /\ Id(w) \in Retries
          /\ dir[Id(w)] \in [marker : BOOLEAN, events : Executions \cup {None},
                             manifest : Executions \cup {None}]
      BY <1>3, HeldHasItsDirectory
    <2>2. UNCHANGED <<ppc, target, candidates, held, cuts>>
      BY <1>3 DEF Write, StartWrite, WriteMarker, WriteEvents, WriteManifest, VerifyWritten,
                  RemoveMarker, ReturnWritten, producer
    <2> DEFINE d == dir[Id(w)]
    <2>3. ASSUME NEW m \in BOOLEAN, NEW e \in Executions \cup {None},
                 NEW f \in Executions \cup {None},
                 dir' = [dir EXCEPT ![Id(w)] = [marker |-> m, events |-> e, manifest |-> f]]
          PROVE  dir' \in [Retries -> [marker : BOOLEAN, events : Executions \cup {None},
                                       manifest : Executions \cup {None}]]
      BY <2>1, <2>3
    <2>4. PICK m \in BOOLEAN, e \in Executions \cup {None}, f \in Executions \cup {None} :
            d = [marker |-> m, events |-> e, manifest |-> f]
      BY <2>1
    <2>5. CASE WriteMarker(w)
      <3>1. dir' = [dir EXCEPT ![Id(w)] = [d EXCEPT !.marker = TRUE]]
        BY <2>5 DEF WriteMarker, Put
      <3> QED BY <2>2, <2>3, <2>4, <2>5, <3>1, DirectoryUpdates DEF WriteMarker, Goto
    <2>6. CASE WriteEvents(w)
      <3>1. dir' = [dir EXCEPT ![Id(w)] = [d EXCEPT !.events = held[w]]]
        BY <2>6 DEF WriteEvents, Put
      <3> QED BY <2>1, <2>2, <2>3, <2>4, <2>6, <3>1, DirectoryUpdates DEF WriteEvents, Goto
    <2>7. CASE WriteManifest(w)
      <3>1. dir' = [dir EXCEPT ![Id(w)] = [d EXCEPT !.manifest = held[w]]]
        BY <2>7 DEF WriteManifest, Put
      <3> QED BY <2>1, <2>2, <2>3, <2>4, <2>7, <3>1, DirectoryUpdates DEF WriteManifest, Goto
    <2>8. CASE RemoveMarker(w)
      <3>1. dir' = [dir EXCEPT ![Id(w)] = [d EXCEPT !.marker = FALSE]]
        BY <2>8 DEF RemoveMarker, Put
      <3> QED BY <2>2, <2>3, <2>4, <2>8, <3>1, DirectoryUpdates DEF RemoveMarker, Goto
    <2>9. CASE VerifyWritten(w)
      BY <2>1, <2>2, <2>9 DEF VerifyWritten, Goto
    <2>10. CASE ReturnWritten(w)
      BY <2>1, <2>2, <2>10 DEF ReturnWritten, Goto
    <2> QED BY <1>3, <2>5, <2>6, <2>7, <2>8, <2>9, <2>10 DEF Write, StartWrite
  <1> QED BY <1>1, <1>2, <1>3, WorkerShape

\* The step of a write, and what it leaves in the directory.
LEMMA WriteGoesOn ==
  ASSUME TypeInv, WritesInv, NEW w \in Workers, ~Idle(w), Write(w)
  PROVE  /\ held' = held /\ DOMAIN dir' = DOMAIN dir
         /\ \A r \in Retries \ {Id(w)} : dir'[r] = dir[r]
         /\ wpc[w] \in {"mark", "events", "manifest", "verify", "unmark", "return"}
         /\ wpc[w] \in {"verify", "return"} => dir' = dir
         /\ wpc[w] = "mark" => Vacant(Id(w))
         /\ wpc[w] \in {"events", "manifest", "unmark"} => dir[Id(w)].marker
         /\ written' = IF wpc[w] = "return" THEN written \cup {held[w]} ELSE written
         /\ ~Idle(w)' => WrittenSoFar(w)'
  <1> DEFINE h == held[w]
  <1>0. /\ h \in Executions /\ Id(w) \in Retries /\ h # None /\ WrittenSoFar(w)
        /\ Id(w) = h.retry
    BY HeldHasItsDirectory DEF Id
  <1> USE DEF TypeInv, WriteSteps, WrittenSoFar, Goto, Put, NoDir, Vacant, Idle
  <1>1. CASE WriteMarker(w)
    <2>1. dir'[Id(w)] = [marker |-> TRUE, events |-> None, manifest |-> None]
      <3> DEFINE d == dir[Id(w)]
      <3>1. d = [marker |-> FALSE, events |-> None, manifest |-> None]
        BY <1>0, <1>1 DEF WriteMarker
      <3>2. dir'[Id(w)] = [d EXCEPT !.marker = TRUE]
        BY <1>0, <1>1 DEF WriteMarker
      <3> HIDE DEF TypeInv, WriteSteps, WrittenSoFar, h, d
      <3> QED BY <3>1, <3>2, DirectoryUpdates
    <2>2. wpc[w] = "mark" /\ wpc'[w] = "events" /\ held' = held /\ Id(w)' = Id(w)
      BY <1>1 DEF WriteMarker, Id
    <2> QED BY <1>0, <1>1, <2>1, <2>2 DEF WriteMarker
  <1>2. CASE WriteEvents(w)
    <2>1. dir'[Id(w)] = [marker |-> TRUE, events |-> h, manifest |-> None]
      <3> DEFINE d == dir[Id(w)]
      <3>1. d = [marker |-> TRUE, events |-> None, manifest |-> None]
        BY <1>0, <1>2 DEF WriteEvents
      <3>2. dir'[Id(w)] = [d EXCEPT !.events = h]
        BY <1>0, <1>2 DEF WriteEvents
      <3> HIDE DEF TypeInv, WriteSteps, WrittenSoFar, h, d
      <3> QED BY <3>1, <3>2, DirectoryUpdates
    <2>2. wpc[w] = "events" /\ wpc'[w] = "manifest" /\ held' = held /\ Id(w)' = Id(w)
      BY <1>2 DEF WriteEvents, Id
    <2> QED BY <1>0, <1>2, <2>1, <2>2 DEF WriteEvents
  <1>3. CASE WriteManifest(w)
    <2>1. dir'[Id(w)] = [marker |-> TRUE, events |-> h, manifest |-> h]
      <3> DEFINE d == dir[Id(w)]
      <3>1. d = [marker |-> TRUE, events |-> h, manifest |-> None]
        BY <1>0, <1>3 DEF WriteManifest
      <3>2. dir'[Id(w)] = [d EXCEPT !.manifest = h]
        BY <1>0, <1>3 DEF WriteManifest
      <3> HIDE DEF TypeInv, WriteSteps, WrittenSoFar, h, d
      <3> QED BY <3>1, <3>2, DirectoryUpdates
    <2>2. wpc[w] = "manifest" /\ wpc'[w] = "verify" /\ held' = held /\ Id(w)' = Id(w)
      BY <1>3 DEF WriteManifest, Id
    <2> QED BY <1>0, <1>3, <2>1, <2>2 DEF WriteManifest
  <1>4. CASE VerifyWritten(w)
    <2>1. wpc[w] = "verify" /\ UNCHANGED <<held, dir, written>> /\ Id(w)' = Id(w)
      BY <1>4 DEF VerifyWritten, Id
    <2>2. wpc'[w] = "idle" \/ (wpc'[w] = "unmark" /\ Verifies(Id(w), TRUE))
      BY <1>4 DEF VerifyWritten
    <2>3. wpc'[w] = "unmark" => Engine!Valid(Plan, Policy, h)
      BY <1>0, <2>1, <2>2 DEF Verifies
    <2> QED BY <1>0, <2>1, <2>2, <2>3
  <1>5. CASE RemoveMarker(w)
    <2>1. dir'[Id(w)] = [marker |-> FALSE, events |-> h, manifest |-> h]
      <3> DEFINE d == dir[Id(w)]
      <3>1. d = [marker |-> TRUE, events |-> h, manifest |-> h]
        BY <1>0, <1>5 DEF RemoveMarker
      <3>2. dir'[Id(w)] = [d EXCEPT !.marker = FALSE]
        BY <1>0, <1>5 DEF RemoveMarker
      <3> HIDE DEF TypeInv, WriteSteps, WrittenSoFar, h, d
      <3> QED BY <3>1, <3>2, DirectoryUpdates
    <2>2. wpc[w] = "unmark" /\ wpc'[w] = "return" /\ held' = held /\ Id(w)' = Id(w)
      BY <1>5 DEF RemoveMarker, Id
    <2> QED BY <1>0, <1>5, <2>1, <2>2 DEF RemoveMarker
  <1>6. CASE ReturnWritten(w)
    BY <1>0, <1>6 DEF ReturnWritten
  <1> QED BY <1>1, <1>2, <1>3, <1>4, <1>5, <1>6 DEF Write, StartWrite

\* No step changes a directory that can be read.
LEMMA ReadableStands ==
  ASSUME TypeInv, WritesInv, NEW w \in Workers, WorkerAct(w),
         NEW r \in Retries, Readable(r)
  PROVE  dir'[r] = dir[r] /\ Readable(r)'
  <1>1. dir'[r] = dir[r]
    <2>1. CASE Idle(w) \/ CutOff(w)
      BY <2>1, WorkerShape DEF CutOff
    <2>2. CASE ~Idle(w) /\ Write(w) /\ r = Id(w)
      BY <2>2, WriteGoesOn DEF Readable, Verifies, Vacant, NoDir, TypeInv, WriteSteps
    <2>3. CASE ~Idle(w) /\ Write(w) /\ r # Id(w)
      BY <2>3, WriteGoesOn
    <2> QED BY <2>1, <2>2, <2>3, WorkerShape
  <1> QED BY <1>1 DEF Readable, Verifies

LEMMA WorkerKeepsWrites ==
  ASSUME TypeInv, WritesInv, WritersExclusive, NEW w \in Workers, WorkerAct(w)
  PROVE  WritesInv'
  <1> SUFFICES ASSUME NEW v \in Workers, ~Idle(v)'
               PROVE  WrittenSoFar(v)'
    BY DEF WritesInv
  <1>1. CASE v # w
    <2>1. wpc'[v] = wpc[v] /\ held'[v] = held[v] /\ Id(v)' = Id(v)
      BY <1>1, WorkerShape DEF Id
    <2>2. ~Idle(v) /\ Id(v) \in Retries /\ WrittenSoFar(v)
      BY <2>1, HeldHasItsDirectory DEF Idle
    <2>3. dir'[Id(v)] = dir[Id(v)]
      <3>1. CASE Idle(w) \/ CutOff(w)
        BY <3>1, WorkerShape DEF CutOff
      <3>2. CASE ~Idle(w) /\ Write(w)
        <4>1. Id(v) # Id(w)
          BY <1>1, <2>2, <3>2 DEF WritersExclusive
        <4> QED BY <2>2, <3>2, <4>1, WriteGoesOn
      <3> QED BY <3>1, <3>2, WorkerShape
    <2> QED BY <2>1, <2>2, <2>3 DEF WrittenSoFar
  <1>2. CASE v = w /\ Idle(w)
    <2>1. /\ held[w] # None /\ Vacant(Id(w)) /\ wpc' = [wpc EXCEPT ![w] = "mark"]
          /\ UNCHANGED <<held, dir>>
      BY <1>2, WorkerShape DEF Idle
    <2> QED BY <1>2, <2>1 DEF WrittenSoFar, Vacant, Id, TypeInv
  <1>3. CASE v = w /\ ~Idle(w)
    <2>1. Write(w)
      BY <1>3, WorkerShape DEF CutOff, Goto, Idle, TypeInv
    <2> QED BY <1>3, <2>1, WriteGoesOn
  <1> QED BY <1>1, <1>2, <1>3

LEMMA WorkerKeepsOwnExecution ==
  ASSUME TypeInv, WritesInv, OwnExecution, NEW w \in Workers, WorkerAct(w)
  PROVE  OwnExecution'
  <1> SUFFICES ASSUME NEW r \in Retries, dir'[r].manifest # None
               PROVE  dir'[r].manifest.retry = r
    BY DEF OwnExecution
  <1>1. CASE dir'[r] = dir[r]
    BY <1>1 DEF OwnExecution
  <1>2. CASE dir'[r] # dir[r]
    <2>1. ~Idle(w) /\ Write(w) /\ r = Id(w)
      BY <1>2, WorkerShape, WriteGoesOn
    <2>2. /\ wpc'[w] \in {"events", "manifest", "verify", "return"} /\ ~Idle(w)'
          /\ held' = held
      BY <1>2, <2>1, WriteGoesOn
         DEF Write, StartWrite, WriteMarker, WriteEvents, WriteManifest, VerifyWritten,
             RemoveMarker, ReturnWritten, Goto, Idle, TypeInv
    <2>3. WrittenSoFar(w)' /\ Id(w)' = r
      BY <2>1, <2>2, WriteGoesOn DEF Id
    <2>4. dir'[r].manifest \in {None, held'[w]}
      BY <2>2, <2>3 DEF WrittenSoFar
    <2> QED BY <1>2, <2>3, <2>4 DEF Id
  <1> QED BY <1>1, <1>2

LEMMA WorkerKeepsOutcomes ==
  ASSUME TypeInv, WritesInv, WrittenOutcomeStands, NEW w \in Workers, WorkerAct(w)
  PROVE  WrittenOutcomeStands'
  <1>1. ASSUME NEW e \in Executions, Readable(e.retry), dir[e.retry].manifest = e
        PROVE  Readable(e.retry)' /\ dir'[e.retry].manifest = e
    BY <1>1, ReadableStands, ExecutionHasItsDirectory
  <1>2. CASE written' = written
    BY <1>1, <1>2 DEF WrittenOutcomeStands, TypeInv
  <1>3. CASE written' # written
    <2>1. /\ ~Idle(w) /\ Write(w) /\ wpc[w] = "return" /\ written' = written \cup {held[w]}
      BY <1>3, WorkerShape, WriteGoesOn
    <2>2. /\ held[w] \in Executions /\ held[w] # None
          /\ dir[held[w].retry] = [marker |-> FALSE, events |-> held[w], manifest |-> held[w]]
          /\ Engine!Valid(Plan, Policy, held[w])
      BY <2>1, HeldHasItsDirectory DEF WrittenSoFar, Id
    <2>3. Readable(held[w].retry) /\ dir[held[w].retry].manifest = held[w]
      BY <2>2 DEF Readable, Verifies
    <2> QED BY <1>1, <2>1, <2>2, <2>3 DEF WrittenOutcomeStands, TypeInv
  <1> QED BY <1>2, <1>3

\* A worker's step leaves a producer's target as the producer has found it, and the
\* executions of the candidates where they are.
LEMMA WorkerKeepsProducers ==
  ASSUME TypeInv, WritesInv, ProducersInv, CandidatesAreCompleted,
         NEW w \in Workers, WorkerAct(w)
  PROVE  ProducersInv' /\ CandidatesAreCompleted'
  <1>1. UNCHANGED <<ppc, target, candidates>>
    BY WorkerShape
  <1>2. \A r \in Retries : Readable(r) => dir'[r] = dir[r] /\ Readable(r)'
    BY ReadableStands
  <1>3. ProducersInv'
    BY <1>1, <1>2 DEF ProducersInv, Eligible
  <1>4. CandidatesAreCompleted'
    BY <1>1, <1>2, ExecutionHasItsDirectory DEF CandidatesAreCompleted, TypeInv
  <1> QED BY <1>3, <1>4

(***************************************************************************)
(* A producer's step                                                       *)
(***************************************************************************)
LEMMA ProducerKeepsInv ==
  ASSUME TrainingStoreInv, NEW p \in Producers, Produce(p)
  PROVE  TrainingStoreInv'
  <1> USE DEF TrainingStoreInv
  <1>1. UNCHANGED <<held, wpc, dir, written, cuts>>
    BY DEF Produce, Assess, AssessLoaded, VerifyAgain, Build, worker
  <1>2. WritesInv' /\ OwnExecution' /\ WrittenOutcomeStands'
    BY <1>1 DEF WritesInv, WrittenSoFar, OwnExecution, WrittenOutcomeStands, Readable, Verifies,
                Idle, Id
  <1>3. \A r : Readable(r)' <=> Readable(r)
    BY <1>1 DEF Readable, Verifies
  <1>4. CASE Assess(p)
    <2>1. PICK r \in Retries : Readable(r) /\ target' = [target EXCEPT ![p] = r]
      BY <1>4 DEF Assess
    <2> QED BY <1>1, <1>2, <1>3, <1>4, <2>1
            DEF Assess, GotoP, TypeInv, ProducersInv, CandidatesAreCompleted, Eligible
  <1>5. CASE AssessLoaded(p)
    BY <1>1, <1>2, <1>3, <1>5
       DEF AssessLoaded, GotoP, TypeInv, ProducersInv, CandidatesAreCompleted, Eligible
  <1>6. CASE VerifyAgain(p)
    BY <1>1, <1>2, <1>3, <1>6
       DEF VerifyAgain, GotoP, TypeInv, ProducersInv, CandidatesAreCompleted, Eligible
  <1>7. CASE Build(p)
    <2>1. /\ target[p] \in Retries /\ Readable(target[p])
          /\ Eligible(dir[target[p]].manifest)
      BY <1>7 DEF Build, ProducersInv
    <2> DEFINE c == dir[target[p]].manifest
    <2>2. c # None /\ c \in Executions /\ c.retry = target[p]
      BY <2>1 DEF Readable, Verifies, OwnExecution, TypeInv
    <2> QED BY <1>1, <1>2, <1>3, <1>7, <2>1, <2>2
            DEF Build, GotoP, TypeInv, ProducersInv, CandidatesAreCompleted, Eligible
  <1> QED BY <1>4, <1>5, <1>6, <1>7 DEF Produce

LEMMA TrainingStoreInvIsKept ==
  TrainingStoreInv /\ WritersExclusive /\ [Next]_vars => TrainingStoreInv'
  <1> SUFFICES ASSUME TrainingStoreInv, WritersExclusive, [Next]_vars
               PROVE  TrainingStoreInv'
    OBVIOUS
  <1>1. ASSUME NEW w \in Workers, WorkerAct(w)
        PROVE  TrainingStoreInv'
    BY <1>1, WorkerKeepsTypes, WorkerKeepsWrites, WorkerKeepsOwnExecution, WorkerKeepsOutcomes,
       WorkerKeepsProducers DEF TrainingStoreInv
  <1>2. CASE UNCHANGED vars
    BY <1>2 DEF vars, worker, producer, TrainingStoreInv, TypeInv, WritesInv, WrittenSoFar,
                OwnExecution, ProducersInv, WrittenOutcomeStands, CandidatesAreCompleted,
                Readable, Verifies, Eligible, Idle, Id
  <1> QED BY <1>1, <1>2, ProducerKeepsInv DEF Next, WorkerAct

\* The invariant, as long as the callers write each execution once at a time.
THEOREM ExclusiveWritersKeepTheStore ==
  Spec /\ []WritersExclusive => []TrainingStoreInv
  BY TrainingStoreInvHoldsFirst, TrainingStoreInvIsKept, PTL DEF Spec

\* One worker is exclusive, whatever it does.
THEOREM OneWorkerIsExclusive ==
  ASSUME \A v, w \in Workers : v = w
  PROVE  Spec => []WritersExclusive
  <1>1. WritersExclusive
    BY DEF WritersExclusive
  <1> QED BY <1>1, PTL

(***************************************************************************)
(* Theorems                                                                *)
(***************************************************************************)
\* No directory reads as an execution while its writer has not come to the end of
\* its verification (execstore.py:217-229).
THEOREM UnverifiedStaysUnreadable ==
  Spec /\ []WritersExclusive => []UnverifiedIsNotReadable
  <1>1. TrainingStoreInv => UnverifiedIsNotReadable
    <2> SUFFICES ASSUME TrainingStoreInv, NEW w \in Workers,
                        wpc[w] \in {"events", "manifest", "verify", "unmark"}
                 PROVE  ~Readable(Id(w))
      BY DEF UnverifiedIsNotReadable
    <2>1. WrittenSoFar(w)
      BY DEF TrainingStoreInv, WritesInv, Idle
    <2> QED BY <2>1 DEF WrittenSoFar, Readable, Verifies
  <1> QED BY <1>1, ExclusiveWritersKeepTheStore, PTL

\* An execution whose write returned stays readable as it was written, through
\* crashes, later writes and readers (execstore.py:213).
THEOREM WrittenOutcomesStand ==
  Spec /\ []WritersExclusive => []WrittenOutcomeStands
  <1>1. TrainingStoreInv => WrittenOutcomeStands
    BY DEF TrainingStoreInv
  <1> QED BY <1>1, ExclusiveWritersKeepTheStore, PTL

\* A candidate is built from a completed execution of the whole plan that the store
\* still holds, although the producer loads it twice (producer.py:247-256).
THEOREM CandidatesStayCompleted ==
  Spec /\ []WritersExclusive => []CandidatesAreCompleted
  <1>1. TrainingStoreInv => CandidatesAreCompleted
    BY DEF TrainingStoreInv
  <1> QED BY <1>1, ExclusiveWritersKeepTheStore, PTL
=============================================================================
