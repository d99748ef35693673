---------------------------- MODULE RunStoreProofs ----------------------------
(***************************************************************************)
(* What the run store keeps, for every set of runs, producers, readers and *)
(* artifacts, and every number of crashes: a directory that claims to be   *)
(* complete is, what was returned stays indexed when producers come one at *)
(* a time, and the store implements the registry that its callers see.     *)
(***************************************************************************)
EXTENDS RunStore, TLAPS

(***************************************************************************)
(* The inductive invariant                                                 *)
(***************************************************************************)
WriterSteps ==
  {"idle", "mark", "artifacts", "hashes", "check", "report", "unmark", "verify",
   "readIndex", "writeIndex", "verifyIndex", "load"}

TypeInv ==
  /\ serial \in BOOLEAN
  /\ DOMAIN dir = RunIds
  /\ sound \in [RunIds -> BOOLEAN]
  /\ index.exists \in BOOLEAN /\ index.entries \in SUBSET RunIds
  /\ wpc \in [Writers -> WriterSteps]
  /\ wrun \in [Writers -> RunIds \cup {None}]
  /\ wread \in [Writers -> SUBSET RunIds]
  /\ returned \in SUBSET RunIds
  /\ rpc \in [Readers -> {"idle", "resolve", "load"}]
  /\ rrun \in [Readers -> RunIds \cup {None}]
  /\ \A p \in Readers : rpc[p] # "idle" => rrun[p] \in RunIds
  /\ rdir \in [Readers -> SUBSET RunIds]
  /\ aborts \in Nat

\* A writer at work has a run, which no other writer has, and serial callers
\* have one writer at work.
WritersApart ==
  /\ \A w \in Writers : At(w, "idle") <=> wrun[w] = None
  /\ \A v, w \in Writers : wrun[v] = wrun[w] /\ wrun[v] # None => v = w
  /\ serial => \A v, w \in Writers : ~At(v, "idle") /\ ~At(w, "idle") => v = w

\* What a writer's directory holds at each of its steps: it has the marker from
\* its first file to the end of its verification, and is complete from then on.
DirectoryAt(w) ==
  LET d == dir[wrun[w]]
  IN /\ At(w, "mark") => d = {"evidence"}
     /\ wpc[w] \in {"artifacts", "hashes"} =>
          "marker" \in d /\ d \subseteq Artifacts \cup {"evidence", "marker", "tmp"}
     /\ wpc[w] \in {"hashes", "check", "report"} => Artifacts \subseteq d
     /\ wpc[w] \in {"check", "report"} =>
          {"marker", "hashes"} \subseteq d
            /\ d \subseteq Artifacts \cup {"evidence", "marker", "hashes", "tmp"}
     /\ At(w, "report") => sound[wrun[w]]
     /\ At(w, "unmark") => "marker" \in d /\ Verifies(wrun[w], TRUE)
     /\ wpc[w] \in {"verify", "readIndex", "writeIndex", "verifyIndex", "load"} =>
          Complete(wrun[w])

DirectoriesInv == \A w \in Writers : ~At(w, "idle") => DirectoryAt(w)

\* Everything that names a run names a complete one.
NamedAreComplete ==
  /\ \A r \in index.entries : Complete(r)
  /\ \A w \in Writers : \A r \in wread[w] : Complete(r)
  /\ \A r \in returned : Complete(r)

NoMarkerIsComplete ==
  \A r \in RunIds : "hashes" \in dir[r] /\ "marker" \notin dir[r] => Complete(r)

\* What serial callers add: the entries that a writer has read are still those of
\* the index, and its run is not among them.
SerialInv ==
  serial =>
    /\ \A w \in Writers : At(w, "writeIndex") =>
         wread[w] = index.entries /\ wrun[w] \notin index.entries
    /\ \A p \in Readers : rpc[p] = "load" => rrun[p] \in index.entries
    /\ \A p \in Readers : rdir[p] \subseteq index.entries
    /\ returned \subseteq index.entries

StoreInv ==
  /\ TypeInv /\ WritersApart /\ DirectoriesInv
  /\ NamedAreComplete /\ NoMarkerIsComplete /\ SerialInv

LEMMA StoreInvHoldsFirst == Init => StoreInv
  BY StoreAssumption
  DEF Init, StoreInv, TypeInv, WriterSteps, WritersApart, DirectoriesInv, NamedAreComplete,
      NoMarkerIsComplete, SerialInv, At, NoIndex

(***************************************************************************)
(* What a step of a writer leaves alone                                    *)
(***************************************************************************)
WriterAct(w) == WriterStep(w) \/ Abort(w)

\* The variables have their types after a step of a writer.
LEMMA WriterKeepsTypes ==
  ASSUME TypeInv, WritersApart, UNCHANGED serial, NEW w \in Writers, WriterAct(w)
  PROVE  TypeInv'
  <1> USE DEF TypeInv, WriterSteps, At, Goto, Put, Quit, reader, writer, IndexFile
  <1>1. ASSUME NEW r \in RunIds, StartRun(w, r)
        PROVE  TypeInv'
    BY <1>1 DEF StartRun
  <1>2. CASE WriteMarker(w)
    BY <1>2 DEF WriteMarker
  <1>3. CASE WriteTemp(w)
    BY <1>3 DEF WriteTemp
  <1>4. CASE InstallArtifact(w)
    BY <1>4 DEF InstallArtifact, Install
  <1>5. CASE InstallHashes(w)
    BY <1>5 DEF InstallHashes, Install
  <1>6. CASE CheckWritten(w)
    BY <1>6 DEF CheckWritten
  <1>7. CASE InstallReport(w)
    BY <1>7 DEF InstallReport, Install
  <1>8. CASE RemoveMarker(w)
    BY <1>8 DEF RemoveMarker
  <1>9. CASE VerifyRun(w)
    BY <1>9 DEF VerifyRun
  <1>10. CASE ReadIndex(w)
    BY <1>10 DEF ReadIndex
  <1>11. CASE WriteIndex(w)
    BY <1>11 DEF WriteIndex, WritersApart
  <1>12. CASE VerifyIndex(w)
    BY <1>12 DEF VerifyIndex
  <1>13. CASE ReturnRun(w)
    BY <1>13 DEF ReturnRun, WritersApart
  <1>14. CASE Abort(w)
    BY <1>14 DEF Abort
  <1> QED BY <1>1, <1>2, <1>3, <1>4, <1>5, <1>6, <1>7, <1>8, <1>9, <1>10, <1>11, <1>12,
             <1>13, <1>14 DEF WriterAct, WriterStep

\* A step of a writer changes its own place, keeps its run, takes a fresh one or
\* gives it up, and changes no directory but that of its run.
LEMMA WriterShape ==
  ASSUME TypeInv, NEW w \in Writers, WriterAct(w)
  PROVE  /\ \A v \in Writers \ {w} :
              wpc'[v] = wpc[v] /\ wrun'[v] = wrun[v] /\ wread'[v] = wread[v]
         /\ \/ /\ At(w, "idle") /\ wpc'[w] = "mark"
               /\ \E r \in RunIds : /\ MayProduce(r) /\ wrun'[w] = r /\ dir[r] = {}
                                    /\ dir' = [dir EXCEPT ![r] = {"evidence"}]
                                    /\ \A q \in RunIds \ {r} : sound'[q] = sound[q]
            \/ /\ ~At(w, "idle") /\ UNCHANGED sound
               /\ \/ wpc'[w] \in WriterSteps \ {"idle"} /\ wrun'[w] = wrun[w]
                  \/ wpc'[w] = "idle" /\ wrun'[w] = None /\ UNCHANGED dir
               /\ \A q \in RunIds \ {wrun[w]} : dir'[q] = dir[q]
         /\ UNCHANGED <<rpc, rrun, rdir>>
  <1> USE DEF TypeInv, WriterSteps, At, Goto, Put, Quit, reader, writer
  <1>1. ASSUME NEW r \in RunIds, StartRun(w, r)
        PROVE  /\ MayProduce(r) /\ dir[r] = {} /\ wrun'[w] = r /\ wpc'[w] = "mark"
               /\ dir' = [dir EXCEPT ![r] = {"evidence"}] /\ At(w, "idle")
               /\ \A q \in RunIds \ {r} : sound'[q] = sound[q]
               /\ \A v \in Writers \ {w} :
                    wpc'[v] = wpc[v] /\ wrun'[v] = wrun[v] /\ wread'[v] = wread[v]
               /\ UNCHANGED <<rpc, rrun, rdir>>
    BY <1>1 DEF StartRun
  <1>2. CASE WriteMarker(w)
    BY <1>2 DEF WriteMarker
  <1>3. CASE WriteTemp(w)
    BY <1>3 DEF WriteTemp
  <1>4. CASE InstallArtifact(w)
    BY <1>4 DEF InstallArtifact, Install
  <1>5. CASE InstallHashes(w)
    BY <1>5 DEF InstallHashes, Install
  <1>6. CASE CheckWritten(w)
    BY <1>6 DEF CheckWritten
  <1>7. CASE InstallReport(w)
    BY <1>7 DEF InstallReport, Install
  <1>8. CASE RemoveMarker(w)
    BY <1>8 DEF RemoveMarker
  <1>9. CASE VerifyRun(w)
    BY <1>9 DEF VerifyRun
  <1>10. CASE ReadIndex(w)
    BY <1>10 DEF ReadIndex
  <1>11. CASE WriteIndex(w)
    BY <1>11 DEF WriteIndex
  <1>12. CASE VerifyIndex(w)
    BY <1>12 DEF VerifyIndex
  <1>13. CASE ReturnRun(w)
    BY <1>13 DEF ReturnRun
  <1>14. CASE Abort(w)
    BY <1>14 DEF Abort
  <1> QED BY <1>1, <1>2, <1>3, <1>4, <1>5, <1>6, <1>7, <1>8, <1>9, <1>10, <1>11, <1>12,
             <1>13, <1>14 DEF WriterAct, WriterStep

\* No two writers share a run after a step of either.
LEMMA WriterKeepsApart ==
  ASSUME TypeInv, WritersApart, UNCHANGED serial, NEW w \in Writers, WriterAct(w)
  PROVE  WritersApart'
  <1> USE DEF TypeInv, WriterSteps, At
  <1>1. /\ \A v \in Writers \ {w} :
             wpc'[v] = wpc[v] /\ wrun'[v] = wrun[v] /\ wread'[v] = wread[v]
        /\ \/ /\ At(w, "idle") /\ wpc'[w] = "mark"
              /\ \E r \in RunIds : MayProduce(r) /\ wrun'[w] = r
           \/ /\ ~At(w, "idle")
              /\ \/ wpc'[w] # "idle" /\ wrun'[w] = wrun[w]
                 \/ wpc'[w] = "idle" /\ wrun'[w] = None
    BY WriterShape
  <1>2. ASSUME NEW v \in Writers
        PROVE  At(v, "idle")' <=> wrun'[v] = None
    BY <1>1, StoreAssumption DEF WritersApart
  <1>3. ASSUME NEW u \in Writers, NEW v \in Writers, wrun'[u] = wrun'[v], wrun'[u] # None
        PROVE  u = v
    BY <1>1, <1>3 DEF WritersApart, MayProduce
  <1>4. ASSUME serial, NEW u \in Writers, NEW v \in Writers, ~At(u, "idle")', ~At(v, "idle")'
        PROVE  u = v
    BY <1>1, <1>4 DEF WritersApart, MayProduce
  <1> QED BY <1>2, <1>3, <1>4 DEF WritersApart

\* A directory that is being written is not complete before it is verified.
LEMMA UnderWayIsIncomplete ==
  ASSUME TypeInv, WritersApart, DirectoriesInv, NEW w \in Writers,
         wpc[w] \in {"mark", "artifacts", "hashes", "check", "report", "unmark"}
  PROVE  ~Complete(wrun[w])
  <1>1. DirectoryAt(w)
    BY DEF DirectoriesInv, At
  <1>2. "hashes" \notin dir[wrun[w]] \/ "marker" \in dir[wrun[w]]
    BY <1>1 DEF DirectoryAt, At
  <1> QED BY <1>2, StoreAssumption DEF Complete, Verifies

\* Nothing writes into a complete directory.
LEMMA CompleteStands ==
  ASSUME TypeInv, WritersApart, DirectoriesInv, NEW w \in Writers, WriterAct(w),
         NEW r \in RunIds, Complete(r)
  PROVE  dir'[r] = dir[r] /\ sound'[r] = sound[r]
  <1>1. CASE At(w, "idle")
    <2>1. PICK q \in RunIds : /\ dir[q] = {} /\ dir' = [dir EXCEPT ![q] = {"evidence"}]
                              /\ \A p \in RunIds \ {q} : sound'[p] = sound[p]
      BY <1>1, WriterShape
    <2>2. r # q
      BY <2>1 DEF Complete, Verifies
    <2> QED BY <2>1, <2>2 DEF TypeInv
  <1>2. CASE ~At(w, "idle") /\ r # wrun[w]
    BY <1>2, WriterShape DEF TypeInv
  <1>3. CASE ~At(w, "idle") /\ r = wrun[w]
    <2>1. wpc[w] \in {"verify", "readIndex", "writeIndex", "verifyIndex", "load"}
      BY <1>3, UnderWayIsIncomplete DEF TypeInv, WriterSteps, At
    <2>2. UNCHANGED <<dir, sound>>
      BY <2>1 DEF WriterAct, WriterStep, StartRun, WriteMarker, WriteTemp, InstallArtifact,
                  InstallHashes, CheckWritten, InstallReport, RemoveMarker, VerifyRun, ReadIndex,
                  WriteIndex, VerifyIndex, ReturnRun, Abort, At
    <2> QED BY <2>2
  <1> QED BY <1>1, <1>2, <1>3

LEMMA CompleteStays ==
  ASSUME TypeInv, WritersApart, DirectoriesInv, NEW w \in Writers, WriterAct(w),
         NEW r \in RunIds, Complete(r)
  PROVE  Complete(r)'
  BY CompleteStands DEF Complete, Verifies

(***************************************************************************)
(* The parts of the invariant that a step of a writer may disturb          *)
(***************************************************************************)
\* What the writer that takes the step leaves in its directory.
LEMMA WriterKeepsItsDirectory ==
  ASSUME TypeInv, WritersApart, DirectoriesInv, NEW w \in Writers, WriterAct(w),
         ~At(w, "idle")'
  PROVE  DirectoryAt(w)'
  <1> USE StoreAssumption DEF TypeInv, WriterSteps, At, Goto, Put, DirectoryAt, DirectoriesInv
  <1>0. \A v \in Writers : wrun[v] \in RunIds \/ At(v, "idle")
    BY DEF WritersApart
  <1>1. ASSUME NEW r \in RunIds, StartRun(w, r)
        PROVE  DirectoryAt(w)'
    BY <1>1 DEF StartRun
  <1>2. CASE WriteMarker(w)
    <2>1. /\ wpc[w] = "mark" /\ wpc'[w] = "artifacts" /\ wrun'[w] = wrun[w]
          /\ dir'[wrun[w]] = {"evidence", "marker"}
      BY <1>0, <1>2 DEF WriteMarker
    <2> QED BY <2>1
  <1>3. CASE WriteTemp(w)
    <2>1. /\ wpc[w] \in {"artifacts", "hashes", "report"}
          /\ UNCHANGED <<wpc, wrun, sound>>
          /\ dir'[wrun[w]] = dir[wrun[w]] \cup {"tmp"}
      BY <1>0, <1>3 DEF WriteTemp, writer
    <2>2. DirectoryAt(w)
      BY <2>1
    <2> HIDE DEF TypeInv, DirectoriesInv
    <2> QED BY <2>1, <2>2
  <1>4. CASE InstallArtifact(w)
    <2>1. PICK a \in Artifacts \ dir[wrun[w]] :
            /\ dir' = [dir EXCEPT ![wrun[w]] = (@ \ {"tmp"}) \cup {a}]
            /\ \/ wpc' = [wpc EXCEPT ![w] = "hashes"] /\ Artifacts \subseteq dir[wrun[w]] \cup {a}
               \/ wpc' = wpc
      BY <1>4 DEF InstallArtifact, Install
    <2>2. wpc[w] = "artifacts" /\ wrun' = wrun /\ DirectoryAt(w)
      BY <1>4 DEF InstallArtifact
    <2>3. dir'[wrun[w]] = (dir[wrun[w]] \ {"tmp"}) \cup {a}
      BY <1>0, <2>1, <2>2
    <2>4. CASE wpc'[w] = "hashes" /\ Artifacts \subseteq dir[wrun[w]] \cup {a}
      BY <2>2, <2>3, <2>4
    <2>5. CASE wpc'[w] = "artifacts"
      BY <2>2, <2>3, <2>5
    <2> QED BY <2>1, <2>2, <2>4, <2>5
  <1>5. CASE InstallHashes(w)
    BY <1>0, <1>5 DEF InstallHashes, Install
  <1>6. CASE CheckWritten(w)
    <2>1. wpc[w] = "check" /\ UNCHANGED <<dir, sound>>
      BY <1>6 DEF CheckWritten
    <2>2. Verifies(wrun[w], TRUE)
      <3> SUFFICES ASSUME ~Verifies(wrun[w], TRUE)
                   PROVE  FALSE
        OBVIOUS
      <3>1. wpc' = [wpc EXCEPT ![w] = "idle"]
        BY <1>6, Zenon DEF CheckWritten, Quit
      <3> QED BY <3>1
    <2>3. wpc'[w] = "report" /\ wrun' = wrun
      BY <1>6, <2>2 DEF CheckWritten
    <2> QED BY <1>0, <2>1, <2>2, <2>3 DEF Verifies
  <1>7. CASE InstallReport(w)
    BY <1>0, <1>7 DEF InstallReport, Install, Verifies
  <1>8. CASE RemoveMarker(w)
    BY <1>0, <1>8 DEF RemoveMarker, Complete, Verifies
  <1>9. CASE VerifyRun(w)
    BY <1>0, <1>9 DEF VerifyRun, Quit, Complete, Verifies
  <1>10. CASE ReadIndex(w)
    BY <1>0, <1>10 DEF ReadIndex, Quit, Complete, Verifies
  <1>11. CASE WriteIndex(w)
    BY <1>0, <1>11 DEF WriteIndex, Complete, Verifies
  <1>12. CASE VerifyIndex(w)
    BY <1>0, <1>12 DEF VerifyIndex, Quit, Complete, Verifies
  <1>13. CASE ReturnRun(w)
    BY <1>13 DEF ReturnRun, Quit
  <1>14. CASE Abort(w)
    BY <1>14 DEF Abort, Quit
  <1> QED BY <1>1, <1>2, <1>3, <1>4, <1>5, <1>6, <1>7, <1>8, <1>9, <1>10, <1>11, <1>12,
             <1>13, <1>14 DEF WriterAct, WriterStep

LEMMA WriterKeepsDirectories ==
  ASSUME TypeInv, WritersApart, DirectoriesInv, NEW w \in Writers, WriterAct(w)
  PROVE  DirectoriesInv'
  <1> SUFFICES ASSUME NEW v \in Writers, ~At(v, "idle")'
               PROVE  DirectoryAt(v)'
    BY DEF DirectoriesInv
  <1>1. CASE v = w
    BY <1>1, WriterKeepsItsDirectory
  <1>2. CASE v # w
    <2>1. wpc'[v] = wpc[v] /\ wrun'[v] = wrun[v] /\ wpc[v] # "idle"
      BY <1>2, WriterShape DEF At
    <2>2. wrun[v] \in RunIds /\ DirectoryAt(v)
      BY <2>1 DEF TypeInv, WritersApart, DirectoriesInv, At
    <2>3. CASE At(w, "idle")
      <3>1. PICK q \in RunIds : /\ MayProduce(q) /\ dir' = [dir EXCEPT ![q] = {"evidence"}]
                                /\ \A p \in RunIds \ {q} : sound'[p] = sound[p]
        BY <2>3, WriterShape
      <3>2. wrun[v] # q
        BY <3>1 DEF MayProduce
      <3>3. dir'[wrun[v]] = dir[wrun[v]] /\ sound'[wrun[v]] = sound[wrun[v]]
        BY <2>2, <3>1, <3>2 DEF TypeInv
      <3> QED BY <2>1, <2>2, <3>3 DEF DirectoryAt, At, Complete, Verifies
    <2>4. CASE ~At(w, "idle")
      <3>1. wrun[v] # wrun[w]
        BY <1>2, <2>2, StoreAssumption DEF WritersApart
      <3>2. dir'[wrun[v]] = dir[wrun[v]] /\ sound'[wrun[v]] = sound[wrun[v]]
        BY <2>2, <2>4, <3>1, WriterShape
      <3> QED BY <2>1, <2>2, <3>2 DEF DirectoryAt, At, Complete, Verifies
    <2> QED BY <2>3, <2>4
  <1> QED BY <1>1, <1>2

LEMMA WriterKeepsMarkers ==
  ASSUME TypeInv, WritersApart, DirectoriesInv, NoMarkerIsComplete,
         NEW w \in Writers, WriterAct(w)
  PROVE  NoMarkerIsComplete'
  <1> SUFFICES ASSUME NEW r \in RunIds, "hashes" \in dir'[r], "marker" \notin dir'[r]
               PROVE  Complete(r)'
    BY DEF NoMarkerIsComplete
  <1>1. CASE dir'[r] = dir[r] /\ sound'[r] = sound[r]
    BY <1>1 DEF NoMarkerIsComplete, Complete, Verifies
  <1>2. CASE At(w, "idle") /\ ~(dir'[r] = dir[r] /\ sound'[r] = sound[r])
    BY <1>2, WriterShape DEF TypeInv
  <1>3. CASE ~At(w, "idle") /\ ~(dir'[r] = dir[r] /\ sound'[r] = sound[r])
    <2>1. r = wrun'[w] /\ wpc'[w] \in WriterSteps \ {"idle"}
      BY <1>3, WriterShape
    <2>2. DirectoryAt(w)'
      BY <2>1, WriterKeepsItsDirectory DEF At
    <2> QED BY <2>1, <2>2 DEF DirectoryAt, At, WriterSteps
  <1> QED BY <1>1, <1>2, <1>3

\* The index, what was read of it and what was returned, after a step of a writer.
LEMMA WriterNames ==
  ASSUME TypeInv, WritersApart, NEW w \in Writers, WriterAct(w)
  PROVE  /\ \/ index' = index
            \/ /\ At(w, "writeIndex") /\ wpc'[w] = "verifyIndex" /\ UNCHANGED returned
               /\ index'.entries = wread[w] \cup {wrun[w]}
         /\ \/ wread'[w] \in {wread[w], {}} /\ wpc'[w] # "writeIndex"
            \/ /\ At(w, "readIndex") /\ wpc'[w] = "writeIndex" /\ UNCHANGED index
               /\ wread'[w] = index.entries /\ wrun[w] \notin index.entries
               /\ wrun'[w] = wrun[w]
         /\ \/ returned' = returned
            \/ /\ At(w, "load") /\ IndexVerifies /\ wrun[w] \in index.entries
               /\ returned' = returned \cup {wrun[w]} /\ UNCHANGED index
  <1> USE DEF TypeInv, WriterSteps, At, Goto, Quit
  <1>1. ASSUME NEW r \in RunIds, StartRun(w, r)
        PROVE  UNCHANGED <<index, wread, returned>> /\ wpc'[w] = "mark"
    BY <1>1 DEF StartRun
  <1>2. CASE WriteMarker(w)
    BY <1>2 DEF WriteMarker
  <1>3. CASE WriteTemp(w)
    BY <1>3 DEF WriteTemp, writer
  <1>4. CASE InstallArtifact(w)
    BY <1>4 DEF InstallArtifact, Install
  <1>5. CASE InstallHashes(w)
    BY <1>5 DEF InstallHashes
  <1>6. CASE CheckWritten(w)
    BY <1>6 DEF CheckWritten
  <1>7. CASE InstallReport(w)
    BY <1>7 DEF InstallReport
  <1>8. CASE RemoveMarker(w)
    BY <1>8 DEF RemoveMarker
  <1>9. CASE VerifyRun(w)
    BY <1>9 DEF VerifyRun
  <1>10. CASE ReadIndex(w)
    BY <1>10 DEF ReadIndex
  <1>11. CASE WriteIndex(w)
    BY <1>11 DEF WriteIndex, IndexFile
  <1>12. CASE VerifyIndex(w)
    BY <1>12 DEF VerifyIndex
  <1>13. CASE ReturnRun(w)
    BY <1>13 DEF ReturnRun
  <1>14. CASE Abort(w)
    BY <1>14 DEF Abort
  <1> QED BY <1>1, <1>2, <1>3, <1>4, <1>5, <1>6, <1>7, <1>8, <1>9, <1>10, <1>11, <1>12,
             <1>13, <1>14 DEF WriterAct, WriterStep

LEMMA WriterKeepsNames ==
  ASSUME TypeInv, WritersApart, DirectoriesInv, NamedAreComplete,
         NEW w \in Writers, WriterAct(w)
  PROVE  NamedAreComplete'
  <1>1. \A r \in RunIds : Complete(r) => Complete(r)'
    BY CompleteStays
  <1>2. At(w, "writeIndex") \/ At(w, "load") => wrun[w] \in RunIds /\ Complete(wrun[w])
    BY DEF TypeInv, WritersApart, DirectoriesInv, DirectoryAt, At
  <1>3. \A r \in index'.entries : r \in RunIds /\ Complete(r)
    BY <1>2, WriterNames DEF TypeInv, NamedAreComplete
  <1>4. \A r \in returned' : r \in RunIds /\ Complete(r)
    BY <1>2, WriterNames DEF TypeInv, NamedAreComplete
  <1>5. ASSUME NEW v \in Writers, NEW r \in wread'[v]
        PROVE  r \in RunIds /\ Complete(r)
    <2>1. CASE v # w
      BY <1>5, <2>1, WriterShape DEF TypeInv, NamedAreComplete
    <2>2. CASE v = w
      BY <1>5, <2>2, WriterNames DEF TypeInv, NamedAreComplete
    <2> QED BY <2>1, <2>2
  <1> QED BY <1>1, <1>3, <1>4, <1>5 DEF NamedAreComplete

LEMMA WriterKeepsSerial ==
  ASSUME TypeInv, WritersApart, DirectoriesInv, SerialInv, UNCHANGED serial,
         NEW w \in Writers, WriterAct(w)
  PROVE  SerialInv'
  <1> SUFFICES ASSUME serial
               PROVE  SerialInv'
    BY DEF SerialInv
  <1> USE DEF SerialInv
  <1>1. \/ index' = index
        \/ /\ At(w, "writeIndex") /\ wpc'[w] = "verifyIndex" /\ UNCHANGED returned
           /\ index'.entries = index.entries \cup {wrun[w]}
    BY WriterNames
  <1>2. index.entries \subseteq index'.entries
    BY <1>1
  <1>3. returned' \subseteq index'.entries
    BY <1>1, <1>2, WriterNames
  <1>4. \A p \in Readers : /\ rpc'[p] = "load" => rrun'[p] \in index'.entries
                           /\ rdir'[p] \subseteq index'.entries
    BY <1>2, WriterShape
  <1>5. ASSUME NEW v \in Writers, wpc'[v] = "writeIndex"
        PROVE  wread'[v] = index'.entries /\ wrun'[v] \notin index'.entries
    <2>1. CASE v = w
      BY <1>5, <2>1, WriterNames
    <2>2. CASE v # w
      <3>1. wpc[v] = "writeIndex" /\ wread'[v] = wread[v] /\ wrun'[v] = wrun[v]
        BY <1>5, <2>2, WriterShape
      <3>2. ~At(w, "writeIndex")
        BY <2>2, <3>1 DEF WritersApart, At
      <3> QED BY <1>1, <3>1, <3>2 DEF At
    <2> QED BY <2>1, <2>2
  <1> QED BY <1>3, <1>4, <1>5 DEF At

LEMMA WriterKeepsStoreInv ==
  ASSUME StoreInv, UNCHANGED serial, NEW w \in Writers, WriterAct(w)
  PROVE  StoreInv'
  BY WriterKeepsTypes, WriterKeepsApart, WriterKeepsDirectories, WriterKeepsNames,
     WriterKeepsMarkers, WriterKeepsSerial DEF StoreInv

(***************************************************************************)
(* Readers                                                                 *)
(***************************************************************************)
\* A reader changes nothing but its own place and what it has loaded.
LEMMA ReaderShape ==
  ASSUME TypeInv, NEW p \in Readers, ReaderStep(p)
  PROVE  /\ UNCHANGED <<dir, sound, index, writer, returned, aborts>>
         /\ \A q \in Readers \ {p} : rpc'[q] = rpc[q] /\ rrun'[q] = rrun[q] /\ rdir'[q] = rdir[q]
         /\ rpc[p] = "idle" => IndexVerifies
         /\ rpc'[p] = "load" => rrun'[p] \in index.entries
         /\ \/ rdir' = rdir
            \/ /\ rpc[p] = "load" /\ Complete(rrun[p])
               /\ rdir' = [rdir EXCEPT ![p] = @ \cup {rrun[p]}]
         /\ rpc' \in [Readers -> {"idle", "resolve", "load"}]
         /\ rrun' \in [Readers -> RunIds \cup {None}]
         /\ \A q \in Readers : rpc'[q] # "idle" => rrun'[q] \in RunIds
  <1> USE DEF TypeInv, ReaderQuit
  <1>1. ASSUME NEW r \in RunIds, StartRead(p, r)
        PROVE  /\ UNCHANGED <<dir, sound, index, writer, returned, rdir, aborts>>
               /\ rpc' = [rpc EXCEPT ![p] = "resolve"] /\ rrun' = [rrun EXCEPT ![p] = r]
               /\ IndexVerifies
    BY <1>1 DEF StartRead
  <1>2. CASE Resolve(p)
    BY <1>2 DEF Resolve
  <1>3. CASE Load(p)
    BY <1>3 DEF Load
  <1> QED BY <1>1, <1>2, <1>3 DEF ReaderStep

LEMMA ReaderKeepsStoreInv ==
  ASSUME StoreInv, UNCHANGED serial, NEW p \in Readers, ReaderStep(p)
  PROVE  StoreInv'
  <1>1. UNCHANGED <<dir, sound, index, wpc, wrun, wread, returned, aborts>>
    BY ReaderShape DEF StoreInv, writer
  <1>2. TypeInv'
    BY <1>1, ReaderShape DEF StoreInv, TypeInv
  <1>3. SerialInv'
    BY <1>1, ReaderShape DEF StoreInv, TypeInv, SerialInv, At
  <1>4. WritersApart' /\ DirectoriesInv' /\ NamedAreComplete' /\ NoMarkerIsComplete'
    BY <1>1 DEF StoreInv, WritersApart, DirectoriesInv, DirectoryAt, NamedAreComplete,
                NoMarkerIsComplete, Complete, Verifies, At
  <1> QED BY <1>2, <1>3, <1>4 DEF StoreInv

LEMMA StoreInvIsKept == StoreInv /\ [Next]_vars => StoreInv'
  <1> SUFFICES ASSUME StoreInv, [Next]_vars
               PROVE  StoreInv'
    OBVIOUS
  <1>1. ASSUME NEW w \in Writers, WriterStep(w)
        PROVE  StoreInv'
    BY <1>1, WriterKeepsStoreInv DEF WriterAct, WriterStep
  <1>2. ASSUME UNCHANGED serial, NEW w \in Writers, Abort(w)
        PROVE  StoreInv'
    BY <1>2, WriterKeepsStoreInv DEF WriterAct
  <1>3. ASSUME UNCHANGED serial, NEW p \in Readers, ReaderStep(p)
        PROVE  StoreInv'
    BY <1>3, ReaderKeepsStoreInv
  <1>4. CASE UNCHANGED vars
    BY <1>4 DEF vars, writer, reader, StoreInv, TypeInv, WritersApart, DirectoriesInv, DirectoryAt,
                NamedAreComplete, NoMarkerIsComplete, SerialInv, Complete, Verifies, At
  <1> QED BY <1>1, <1>2, <1>3, <1>4 DEF Next

\* The store at every step of any writers, readers and crashes: what a directory under
\* work holds, and that whatever is named by the index, by a writer that has read it
\* or by a returned result is complete (artifacts/writer.py, index.py).
THEOREM StoreIsConsistent == Spec => []StoreInv
  BY StoreInvHoldsFirst, StoreInvIsKept, PTL DEF Spec

(***************************************************************************)
(* Theorems                                                                *)
(***************************************************************************)
\* A run directory with a hash index and no marker, and every directory that the
\* index names, is complete and sound, however many producers write and wherever
\* they are cut off (artifacts/writer.py, runtime/store.py).
THEOREM MarkersAreHonest == Spec => []MarkerIsHonest
  <1>1. StoreInv => MarkerIsHonest
    BY DEF StoreInv, TypeInv, NamedAreComplete, NoMarkerIsComplete, MarkerIsHonest
  <1> QED BY <1>1, StoreIsConsistent, PTL

\* An index entry that overlapping producers lost shows: the root does not verify.
THEOREM LostEntriesAreDetected == Spec => []LostEntryIsDetected
  <1>1. StoreInv => LostEntryIsDetected
    <2> SUFFICES ASSUME StoreInv, NEW r \in returned, r \notin index.entries
                 PROVE  ~IndexVerifies
      BY DEF LostEntryIsDetected
    <2>1. r \in RunIds /\ Complete(r)
      BY DEF StoreInv, TypeInv, NamedAreComplete
    <2>2. Hidden(r)
      BY <2>1 DEF Hidden, Complete, Verifies
    <2> QED BY <2>1, <2>2 DEF IndexVerifies
  <1> QED BY <1>1, StoreIsConsistent, PTL

\* With one producer at a time, what the store returned or gave to a reader is in
\* its index for good.
THEOREM ReturnedRunsStayIndexed == Spec => []ReturnedStaysIndexed
  <1>1. StoreInv => ReturnedStaysIndexed
    BY DEF StoreInv, SerialInv, ReturnedStaysIndexed
  <1> QED BY <1>1, StoreIsConsistent, PTL

\* No step changes a complete directory, or takes an entry out of the index of
\* serial producers.
THEOREM CompleteRunsAndEntriesStay == Spec => StoreOnlyGrows
  <1>1. ASSUME StoreInv, [Next]_vars
        PROVE  /\ \A r \in RunIds : Complete(r) => dir'[r] = dir[r] /\ sound'[r] = sound[r]
               /\ serial => index.entries \subseteq index'.entries
    <2>1. ASSUME NEW w \in Writers, WriterAct(w)
          PROVE  /\ \A r \in RunIds : Complete(r) => dir'[r] = dir[r] /\ sound'[r] = sound[r]
                 /\ serial => index.entries \subseteq index'.entries
      <3>1. \A r \in RunIds : Complete(r) => dir'[r] = dir[r] /\ sound'[r] = sound[r]
        BY <1>1, <2>1, CompleteStands DEF StoreInv
      <3>2. serial => index.entries \subseteq index'.entries
        BY <1>1, <2>1, WriterNames DEF StoreInv, SerialInv
      <3> QED BY <3>1, <3>2
    <2>2. ASSUME NEW p \in Readers, ReaderStep(p)
          PROVE  UNCHANGED <<dir, sound, index>>
      BY <1>1, <2>2, ReaderShape DEF StoreInv
    <2>3. CASE UNCHANGED vars
      BY <2>3 DEF vars
    <2> QED BY <1>1, <2>1, <2>2, <2>3 DEF Next, WriterAct
  <1> QED BY <1>1, StoreIsConsistent, PTL DEF Spec, StoreOnlyGrows

\* An orphan stays one, and the root returns nothing and admits no reader while it
\* is there (runtime/store.py).
THEOREM OrphansBlockTheRoot == Spec => OrphanBlocksRoot
  <1>1. ASSUME StoreInv, [Next]_vars, serial, NEW r \in RunIds, Orphan(r)
        PROVE  /\ Orphan(r)'
               /\ returned' = returned
               /\ \A p \in Readers : rpc[p] = "idle" => rpc'[p] = "idle"
    <2>1. "hashes" \in dir[r] /\ r \notin index.entries /\ \A w \in Writers : wrun[w] # r
      BY <1>1 DEF Orphan, Hidden
    <2>2. ~IndexVerifies
      BY <1>1 DEF Orphan, IndexVerifies
    <2>3. ASSUME NEW w \in Writers, WriterAct(w)
          PROVE  Orphan(r)' /\ UNCHANGED <<returned, rpc>>
      <3>1. r \notin index'.entries
        BY <1>1, <2>1, <2>3, WriterNames DEF StoreInv, SerialInv
      <3>2. UNCHANGED <<returned, rpc>>
        BY <1>1, <2>2, <2>3, WriterNames, WriterShape DEF StoreInv
      <3>3. dir'[r] = dir[r] /\ wrun'[w] # r
        <4>1. CASE At(w, "idle")
          <5>1. PICK q \in RunIds : /\ wrun'[w] = q /\ dir[q] = {}
                                    /\ dir' = [dir EXCEPT ![q] = {"evidence"}]
            BY <1>1, <2>3, <4>1, WriterShape DEF StoreInv
          <5>2. q # r
            BY <2>1, <5>1
          <5> QED BY <1>1, <5>1, <5>2 DEF StoreInv, TypeInv
        <4>2. CASE ~At(w, "idle")
          BY <1>1, <2>1, <2>3, <4>2, WriterShape, StoreAssumption DEF StoreInv
        <4> QED BY <4>1, <4>2
      <3>4. \A v \in Writers : wrun'[v] # r
        BY <1>1, <2>1, <2>3, <3>3, WriterShape DEF StoreInv
      <3> QED BY <2>1, <3>1, <3>2, <3>3, <3>4 DEF Orphan, Hidden
    <2>4. ASSUME NEW p \in Readers, ReaderStep(p)
          PROVE  /\ UNCHANGED <<dir, index, wrun, returned>>
                 /\ \A q \in Readers : rpc[q] = "idle" => rpc'[q] = "idle"
      <3>1. rpc[p] # "idle"
        BY <1>1, <2>2, <2>4, ReaderShape DEF StoreInv
      <3> QED BY <1>1, <2>4, <3>1, ReaderShape DEF StoreInv, writer
    <2>5. CASE UNCHANGED vars
      BY <2>1, <2>5 DEF vars, writer, reader, Orphan, Hidden
    <2>6. ASSUME UNCHANGED <<dir, index, wrun>>
          PROVE  Orphan(r)'
      BY <2>1, <2>6 DEF Orphan, Hidden
    <2> QED BY <1>1, <2>3, <2>4, <2>5, <2>6 DEF Next, WriterAct
  <1>2. StoreInv /\ [Next]_vars =>
          [serial => \A r \in RunIds : Orphan(r) =>
             /\ Orphan(r)'
             /\ returned' = returned
             /\ \A p \in Readers : rpc[p] = "idle" => rpc'[p] = "idle"]_vars
    BY <1>1
  <1> QED BY <1>2, StoreIsConsistent, PTL DEF Spec, OrphanBlocksRoot

(***************************************************************************)
(* The store implements the registry that its callers see                  *)
(***************************************************************************)
\* Every step of the store publishes, acknowledges or delivers one run, or changes
\* nothing that callers see.
LEMMA StepOfTheRegistry ==
  ASSUME StoreInv, [Next]_vars
  PROVE  [Registry!Next]_(Registry!vars)
  <1> USE DEF Registry!Next, Registry!vars, Registry!Publish, Registry!Acknowledge,
              Registry!Deliver, Seen
  <1>0. UNCHANGED serial
    BY DEF Next, vars, WriterStep
  <1>1. CASE ~serial
    BY <1>0, <1>1
  <1>2. ASSUME serial, NEW w \in Writers, WriterAct(w)
        PROVE  [Registry!Next]_(Registry!vars)
    <2>1. UNCHANGED rdir
      BY <1>2, WriterShape DEF StoreInv
    <2>2. CASE UNCHANGED <<index, returned>>
      BY <1>0, <1>2, <2>1, <2>2
    <2>3. CASE /\ At(w, "writeIndex") /\ UNCHANGED returned
               /\ index'.entries = wread[w] \cup {wrun[w]}
      <3>1. wrun[w] \in RunIds /\ wread[w] = index.entries /\ wrun[w] \notin index.entries
        BY <1>2, <2>3 DEF StoreInv, TypeInv, WritersApart, SerialInv, At
      <3>2. Registry!Publish(wrun[w])
        BY <1>0, <1>2, <2>1, <2>3, <3>1
      <3> QED BY <3>1, <3>2
    <2>4. CASE /\ At(w, "load") /\ wrun[w] \in index.entries
               /\ returned' = returned \cup {wrun[w]} /\ UNCHANGED index
      <3>1. wrun[w] \in RunIds
        BY <2>4 DEF StoreInv, TypeInv
      <3>2. Registry!Acknowledge(wrun[w])
        BY <1>0, <1>2, <2>1, <2>4, <3>1
      <3> QED BY <3>1, <3>2
    <2> QED BY <1>2, <2>2, <2>3, <2>4, WriterNames DEF StoreInv
  <1>3. ASSUME serial, NEW p \in Readers, ReaderStep(p)
        PROVE  [Registry!Next]_(Registry!vars)
    <2>1. UNCHANGED <<index, returned>>
      BY <1>3, ReaderShape DEF StoreInv
    <2>2. CASE rdir' = rdir
      BY <1>0, <1>3, <2>1, <2>2
    <2>3. CASE rpc[p] = "load" /\ rdir' = [rdir EXCEPT ![p] = @ \cup {rrun[p]}]
      <3>1. rrun[p] \in RunIds /\ rrun[p] \in index.entries
        BY <1>3, <2>3 DEF StoreInv, TypeInv, SerialInv
      <3>2. \A q \in Readers : rdir'[q] = IF q = p THEN rdir[q] \cup {rrun[p]} ELSE rdir[q]
        BY <2>3 DEF StoreInv, TypeInv
      <3>3. UNION {rdir'[q] : q \in Readers} = (UNION {rdir[q] : q \in Readers}) \cup {rrun[p]}
        <4>1. ASSUME NEW q \in Readers, NEW x \in rdir'[q]
              PROVE  x \in (UNION {rdir[o] : o \in Readers}) \cup {rrun[p]}
          <5>1. x \in rdir[q] \/ x = rrun[p]
            BY <3>2, <4>1
          <5> QED BY <5>1
        <4>2. ASSUME NEW q \in Readers, NEW x \in rdir[q]
              PROVE  x \in UNION {rdir'[o] : o \in Readers}
          <5>1. x \in rdir'[q]
            BY <3>2, <4>2
          <5> QED BY <5>1
        <4>3. rrun[p] \in UNION {rdir'[o] : o \in Readers}
          <5>1. rrun[p] \in rdir'[p]
            BY <3>2
          <5> QED BY <5>1
        <4> QED BY <4>1, <4>2, <4>3
      <3>4. Registry!Deliver(rrun[p])
        <4> DEFINE loaded == UNION {rdir[q] : q \in Readers}
        <4>1. loaded' = loaded \cup {rrun[p]}
          BY <3>3
        <4> HIDE DEF loaded
        <4>2. /\ rrun[p] \in Seen(index.entries)
              /\ UNCHANGED <<Seen(index.entries), Seen(returned)>>
              /\ Seen(loaded)' = Seen(loaded) \cup {rrun[p]}
          BY <1>0, <1>3, <2>1, <3>1, <4>1
        <4> QED BY <4>2 DEF Registry!Deliver, loaded
      <3> QED BY <3>1, <3>4
    <2> QED BY <1>3, <2>2, <2>3, ReaderShape DEF StoreInv
  <1>4. CASE UNCHANGED vars
    BY <1>4 DEF vars, reader
  <1> QED BY <1>1, <1>2, <1>3, <1>4 DEF Next, WriterAct

\* With one producer at a time the store is a registry: a run is published once and
\* for good, acknowledged only when published, and readers are given published runs.
THEOREM StoreImplementsRegistry == Spec => ImplementsRegistry
  <1>1. Init => Registry!Init
    BY DEF Init, Registry!Init, Seen, NoIndex
  <1> QED BY <1>1, StepOfTheRegistry, StoreIsConsistent, PTL
          DEF Spec, ImplementsRegistry, Registry!Spec
=============================================================================
