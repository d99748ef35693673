------------------------------ MODULE RunStore ------------------------------
(***************************************************************************)
(* The on-disk store of runs: write_run_artifacts, verify_run_dir,         *)
(* add_run_to_index, verify_run_index, load_verified_run_from_index and    *)
(* their composition assemble_verified_run, over one index root.           *)
(*                                                                         *)
(* A run directory is the set of names in it.  A writer moves through the  *)
(* file operations of the code one at a time, and may be cut off between   *)
(* any two of them: the process is killed, or a call raises.  What is on   *)
(* the disk then stays, and nothing cleans it up.                          *)
(*                                                                         *)
(* The documents want one producer at a time on a root and the code does   *)
(* not enforce it: "serial" says whether the callers of a behaviour keep   *)
(* to it.                                                                  *)
(***************************************************************************)
EXTENDS Naturals, FiniteSets

CONSTANTS
  RunIds,      \* the run ids that producers use
  Writers,     \* processes that assemble runs into the root
  Readers,     \* processes that load runs through the index
  Artifacts,   \* the truth-bearing files of a run (layout, incident, ...)
  MaxAborts,   \* bound on the writers' crashes and errors
  None         \* no run

ASSUME StoreAssumption ==
  /\ None \notin RunIds
  /\ Artifacts \cap {"evidence", "marker", "tmp", "hashes", "report"} = {}
  /\ MaxAborts \in Nat

VARIABLES
  serial,    \* whether the callers run one producer at a time
  dir,       \* dir[r]: the names in the directory of run r; {} when absent
  sound,     \* sound[r]: the files written for r pass the content checks
  index,     \* the run ids of index.json; NoIndex before the first
  wpc, wrun, wread,   \* a writer: next operation, its run, the index it read
  returned,  \* runs whose assembly has returned to the caller
  rpc, rrun, rdir,    \* a reader: next operation, its run, what it loaded
  aborts

writer == <<wpc, wrun, wread>>
reader == <<rpc, rrun, rdir>>
vars == <<serial, dir, sound, index, writer, returned, reader, aborts>>

-----------------------------------------------------------------------------
(* Vocabulary                                                              *)

\* index.json as the set of its entries' run ids, and whether it exists.
NoIndex == [exists |-> FALSE, entries |-> {}]
IndexFile(runs) == [exists |-> TRUE, entries |-> runs]

\* verify_run_dir: everything listed is there and sound, and no regular file
\* is there that is not listed ("evidence" is a directory).
Verifies(r, allowMarker) ==
  /\ Artifacts \subseteq dir[r]
  /\ "hashes" \in dir[r]
  /\ dir[r] \subseteq Artifacts \cup {"evidence", "hashes", "report"}
                       \cup (IF allowMarker THEN {"marker"} ELSE {})
  /\ sound[r]

\* A run directory that readers of the directory itself accept (load_run).
Complete(r) == Verifies(r, FALSE)

\* A directory verify_run_index reports: it has a hash index and no entry.
Hidden(r) == "hashes" \in dir[r] /\ r \notin index.entries

\* Mutant: only the entries are verified, not what the index leaves out.
EntriesVerify == index.exists /\ \A r \in index.entries : Complete(r)

\* verify_run_index.
IndexVerifies ==
  /\ index.exists
  /\ \A r \in index.entries : Complete(r)
  /\ \A r \in RunIds : ~Hidden(r)

Init ==
  /\ serial \in BOOLEAN
  /\ dir = [r \in RunIds |-> {}]
  /\ sound = [r \in RunIds |-> TRUE]
  /\ index = NoIndex
  /\ wpc = [w \in Writers |-> "idle"]
  /\ wrun = [w \in Writers |-> None]
  /\ wread = [w \in Writers |-> {}]
  /\ returned = {}
  /\ rpc = [p \in Readers |-> "idle"]
  /\ rrun = [p \in Readers |-> None]
  /\ rdir = [p \in Readers |-> {}]
  /\ aborts = 0

-----------------------------------------------------------------------------
(* A writer                                                                *)

At(w, l) == wpc[w] = l
Goto(w, l) == wpc' = [wpc EXCEPT ![w] = l]

\* The call raised, or the process died: its local state is gone.
Quit(w) ==
  /\ Goto(w, "idle")
  /\ wrun' = [wrun EXCEPT ![w] = None]
  /\ wread' = [wread EXCEPT ![w] = {}]

Put(r, names) == dir' = [dir EXCEPT ![r] = names]

\* A run id belongs to one producer, and serial callers have one at work.
MayProduce(r) ==
  /\ \A v \in Writers : wrun[v] # r
  /\ serial => \A v \in Writers : At(v, "idle")

\* Mutant: a run directory that is there is written again.
RestartRun(w, r) ==
  /\ At(w, "idle")
  /\ MayProduce(r)
  /\ Put(r, dir[r] \cup {"evidence"})
  /\ \E b \in BOOLEAN : sound' = [sound EXCEPT ![r] = b]
  /\ Goto(w, "mark")
  /\ wrun' = [wrun EXCEPT ![w] = r]
  /\ UNCHANGED <<index, wread, returned, reader, aborts>>

\* write_run_artifacts refuses a directory that is there and not empty; else
\* it makes the directory and its evidence subdirectory.  Whether what will be
\* written passes verification is up to the record.
StartRun(w, r) ==
  /\ At(w, "idle")
  /\ MayProduce(r)
  /\ dir[r] = {}
  /\ Put(r, {"evidence"})
  /\ \E b \in BOOLEAN : sound' = [sound EXCEPT ![r] = b]
  /\ Goto(w, "mark")
  /\ wrun' = [wrun EXCEPT ![w] = r]
  /\ UNCHANGED <<index, wread, returned, reader, aborts>>

\* Mutant: no marker is written.
WriteNoMarker(w) ==
  /\ At(w, "mark")
  /\ Goto(w, "artifacts")
  /\ UNCHANGED <<dir, sound, index, wrun, wread, returned, reader, aborts>>

WriteMarker(w) ==
  /\ At(w, "mark")
  /\ Put(wrun[w], dir[wrun[w]] \cup {"marker"})
  /\ Goto(w, "artifacts")
  /\ UNCHANGED <<sound, index, wrun, wread, returned, reader, aborts>>

\* atomic_write_bytes: the temporary sibling ...
WriteTemp(w) ==
  /\ wpc[w] \in {"artifacts", "hashes", "report"}
  /\ "tmp" \notin dir[wrun[w]]
  /\ Put(wrun[w], dir[wrun[w]] \cup {"tmp"})
  /\ UNCHANGED <<sound, index, writer, returned, reader, aborts>>

\* Mutant: the temporary sibling is copied and stays.
CopyTemp(w, name) ==
  /\ "tmp" \in dir[wrun[w]]
  /\ Put(wrun[w], dir[wrun[w]] \cup {name})

\* ... and its replacement of the name it stands for.
Install(w, name) ==
  /\ "tmp" \in dir[wrun[w]]
  /\ Put(wrun[w], (dir[wrun[w]] \ {"tmp"}) \cup {name})

InstallArtifact(w) ==
  /\ At(w, "artifacts")
  /\ \E a \in Artifacts \ dir[wrun[w]] :
       /\ Install(w, a)
       /\ IF Artifacts \subseteq dir[wrun[w]] \cup {a}
            THEN Goto(w, "hashes") ELSE UNCHANGED wpc
  /\ UNCHANGED <<sound, index, wrun, wread, returned, reader, aborts>>

InstallHashes(w) ==
  /\ At(w, "hashes")
  /\ Install(w, "hashes")
  /\ Goto(w, "check")
  /\ UNCHANGED <<sound, index, wrun, wread, returned, reader, aborts>>

\* The verification that precedes the report: a failure raises, and the
\* marker stays.
CheckWritten(w) ==
  /\ At(w, "check")
  /\ IF Verifies(wrun[w], TRUE)
       THEN Goto(w, "report") /\ UNCHANGED <<wrun, wread>>
       ELSE Quit(w)
  /\ UNCHANGED <<dir, sound, index, returned, reader, aborts>>

InstallReport(w) ==
  /\ At(w, "report")
  /\ Install(w, "report")
  /\ Goto(w, "unmark")
  /\ UNCHANGED <<sound, index, wrun, wread, returned, reader, aborts>>

RemoveMarker(w) ==
  /\ At(w, "unmark")
  /\ Put(wrun[w], dir[wrun[w]] \ {"marker"})
  /\ Goto(w, "verify")
  /\ UNCHANGED <<sound, index, wrun, wread, returned, reader, aborts>>

\* assemble_verified_run verifies the directory again before the index.
VerifyRun(w) ==
  /\ At(w, "verify")
  /\ IF Complete(wrun[w])
       THEN Goto(w, "readIndex") /\ UNCHANGED <<wrun, wread>>
       ELSE Quit(w)
  /\ UNCHANGED <<dir, sound, index, returned, reader, aborts>>

\* add_run_to_index: the directory must load, and must not be indexed yet.
ReadIndex(w) ==
  /\ At(w, "readIndex")
  /\ IF Complete(wrun[w]) /\ wrun[w] \notin index.entries
       THEN /\ wread' = [wread EXCEPT ![w] = index.entries]
            /\ Goto(w, "writeIndex")
            /\ UNCHANGED wrun
       ELSE Quit(w)
  /\ UNCHANGED <<dir, sound, index, returned, reader, aborts>>

\* Mutant: the index file is written with this run alone.
WriteFreshIndex(w) ==
  /\ At(w, "writeIndex")
  /\ index' = IndexFile({wrun[w]})
  /\ Goto(w, "verifyIndex")
  /\ UNCHANGED <<dir, sound, wrun, wread, returned, reader, aborts>>

\* ... and the entries read, plus this run, replace the index file.
WriteIndex(w) ==
  /\ At(w, "writeIndex")
  /\ index' = IndexFile(wread[w] \cup {wrun[w]})
  /\ Goto(w, "verifyIndex")
  /\ UNCHANGED <<dir, sound, wrun, wread, returned, reader, aborts>>

\* A root that does not verify makes the assembly raise after the update.
VerifyIndex(w) ==
  /\ At(w, "verifyIndex")
  /\ IF IndexVerifies THEN Goto(w, "load") /\ UNCHANGED <<wrun, wread>> ELSE Quit(w)
  /\ UNCHANGED <<dir, sound, index, returned, reader, aborts>>

\* load_verified_run_from_index, then the return of assemble_verified_run.
ReturnRun(w) ==
  /\ At(w, "load")
  /\ returned' = IF IndexVerifies /\ wrun[w] \in index.entries
                   THEN returned \cup {wrun[w]} ELSE returned
  /\ Quit(w)
  /\ UNCHANGED <<dir, sound, index, reader, aborts>>

\* Killed, or a file operation raised, between any two steps.
Abort(w) ==
  /\ ~At(w, "idle")
  /\ aborts < MaxAborts
  /\ aborts' = aborts + 1
  /\ Quit(w)
  /\ UNCHANGED <<dir, sound, index, returned, reader>>

-----------------------------------------------------------------------------
(* A reader: load_verified_run_from_index.  A writer may work between its  *)
(* verification of the index, its reading of it, and the load of the run.  *)

ReaderQuit(p) ==
  /\ rpc' = [rpc EXCEPT ![p] = "idle"]
  /\ rrun' = [rrun EXCEPT ![p] = None]

\* The whole index must verify before any run of it is given out.
StartRead(p, r) ==
  /\ rpc[p] = "idle"
  /\ IndexVerifies
  /\ rpc' = [rpc EXCEPT ![p] = "resolve"]
  /\ rrun' = [rrun EXCEPT ![p] = r]
  /\ UNCHANGED <<dir, sound, index, writer, returned, rdir, aborts>>

\* Mutant: a run is looked for in its directory, not in the index.
ResolveByPath(p) ==
  /\ rpc[p] = "resolve"
  /\ IF Complete(rrun[p])
       THEN rpc' = [rpc EXCEPT ![p] = "load"] /\ UNCHANGED rrun
       ELSE ReaderQuit(p)
  /\ UNCHANGED <<dir, sound, index, writer, returned, rdir, aborts>>

\* The index is read a second time, and the run it names verified.
Resolve(p) ==
  /\ rpc[p] = "resolve"
  /\ IF rrun[p] \in index.entries /\ Complete(rrun[p])
       THEN rpc' = [rpc EXCEPT ![p] = "load"] /\ UNCHANGED rrun
       ELSE ReaderQuit(p)
  /\ UNCHANGED <<dir, sound, index, writer, returned, rdir, aborts>>

\* load_run verifies the directory once more and parses it.
Load(p) ==
  /\ rpc[p] = "load"
  /\ rdir' = IF Complete(rrun[p]) THEN [rdir EXCEPT ![p] = @ \cup {rrun[p]}] ELSE rdir
  /\ ReaderQuit(p)
  /\ UNCHANGED <<dir, sound, index, writer, returned, aborts>>

WriterStep(w) ==
  /\ UNCHANGED serial
  /\ \/ \E r \in RunIds : StartRun(w, r)
     \/ WriteMarker(w) \/ WriteTemp(w)
     \/ InstallArtifact(w) \/ InstallHashes(w) \/ CheckWritten(w)
     \/ InstallReport(w) \/ RemoveMarker(w) \/ VerifyRun(w)
     \/ ReadIndex(w) \/ WriteIndex(w) \/ VerifyIndex(w) \/ ReturnRun(w)

ReaderStep(p) == (\E r \in RunIds : StartRead(p, r)) \/ Resolve(p) \/ Load(p)

Next ==
  \/ \E w \in Writers : WriterStep(w)
  \/ UNCHANGED serial /\ \E w \in Writers : Abort(w)
  \/ UNCHANGED serial /\ \E p \in Readers : ReaderStep(p)

Spec == Init /\ [][Next]_vars
FairSpec == Spec /\ \A w \in Writers : WF_vars(WriterStep(w))

-----------------------------------------------------------------------------
(* Properties                                                              *)

\* A run directory with a hash index and no marker is complete and sound,
\* wherever its writer was cut off ("never report the directory as complete"),
\* and so is every directory the index names, however many producers there are.
MarkerIsHonest ==
  \A r \in RunIds :
    ("hashes" \in dir[r] /\ "marker" \notin dir[r]) \/ r \in index.entries => Complete(r)

\* Two producers may each read the index before the other has written it, and
\* the entry of the first is then lost although its run was returned.  The
\* loss cannot go unnoticed: while it lasts, the root does not verify.
LostEntryIsDetected ==
  \A r \in returned : r \in index.entries \/ ~IndexVerifies

\* With one producer at a time, a run that the store returned to its producer
\* stays in the index, and what readers loaded through the index is there too.
ReturnedStaysIndexed ==
  serial => returned \cup UNION {rdir[p] : p \in Readers} \subseteq index.entries

\* Nothing ever changes a complete run directory, and with one producer at a
\* time no entry leaves the index.
StoreOnlyGrows ==
  [][/\ \A r \in RunIds : Complete(r) => dir'[r] = dir[r] /\ sound'[r] = sound[r]
     /\ serial => index.entries \subseteq index'.entries]_vars

\* A directory that has a hash index, no entry and no writer at work on it.
Orphan(r) == Hidden(r) /\ \A w \in Writers : wrun[w] # r

\* A writer cut off between its hash index and its index entry leaves an
\* orphan that no later call of serial producers removes, completes or indexes,
\* and from then on the root gives out nothing: no assembly returns and no
\* reader starts.
OrphanBlocksRoot ==
  [][serial => \A r \in RunIds : Orphan(r) =>
       /\ Orphan(r)'
       /\ returned' = returned
       /\ \A p \in Readers : rpc[p] = "idle" => rpc'[p] = "idle"]_vars

\* A run whose record passes verification is returned to its producer, whoever
\* reads meanwhile, unless an orphan is in the root, a second producer is at
\* work there, or its writer is cut off.
SoundRunIsReturned ==
  \A r \in RunIds, n \in 0 .. MaxAborts :
    /\ serial /\ aborts = n
    /\ \E w \in Writers : wrun[w] = r
    /\ sound[r]
    /\ \A q \in RunIds : ~Orphan(q)
    ~> r \in returned \/ aborts # n

\* What callers may rely on when producers come one at a time: the store is a
\* registry of published runs.
Seen(runs) == IF serial THEN runs ELSE {}

Registry == INSTANCE RunRegistry WITH
  published    <- Seen(index.entries),
  acknowledged <- Seen(returned),
  delivered    <- Seen(UNION {rdir[p] : p \in Readers})

ImplementsRegistry == Registry!Spec
=============================================================================
