----------------------------- MODULE LedgerFile -----------------------------
(***************************************************************************)
(* A file-backed Ledger (faults/ledger.py): append writes a line and syncs *)
(* it before the record enters memory; the write may be cut short by an    *)
(* error, which raises, or by a crash, after which a new Ledger is made on *)
(* the same path and starts from an empty memory.  The code lets its       *)
(* callers go on after either; "reuse" says whether those of a behaviour do. *)
(*                                                                         *)
(* A line of the file is [phase, valid, ended]: whether it parses, and     *)
(* whether its newline was written.  Only the last line may lack it, and   *)
(* what is written next then goes on the same line.                        *)
(***************************************************************************)
EXTENDS Lifecycle, FiniteSets

CONSTANTS
  MaxRecords,  \* bound on the records a file receives
  MaxFailures  \* bound on failed and cut-off writes

ASSUME LedgerFileAssumption ==
  MaxRecords \in Nat /\ MaxFailures \in Nat

VARIABLES
  reuse,     \* whether callers append again after a failed or cut-off write
  memory,    \* _records of the Ledger in use
  file,      \* the lines of the file
  written,   \* the phases whose append returned, over all Ledgers on this path
  failures   \* writes that failed or were cut off so far

vars == <<reuse, memory, file, written, failures>>

Line(p, valid, ended) == [phase |-> p, valid |-> valid, ended |-> ended]

\* Ledger.current.
Current == LastPhase(memory)

-----------------------------------------------------------------------------
\* The file after a text has been appended to it.  After a line without a
\* newline the two texts make one line, which does not parse.
AppendText(line) ==
  IF file # <<>> /\ ~file[Len(file)].ended
    THEN [file EXCEPT ![Len(file)] = [line EXCEPT !.valid = FALSE]]
    ELSE Append(file, line)

\* The ways a write of phase p can stop short: part of the line is there, all
\* of it but the newline, or all of it with the sync failing.
ShortWrites(p) ==
  {AppendText(Line(p, FALSE, FALSE)), AppendText(Line(p, TRUE, FALSE)),
   AppendText(Line(p, TRUE, TRUE)), file}

Malformed == {i \in 1 .. Len(file) : ~file[i].valid}

\* Mutant: a malformed last line raises as well.
AllWellFormed == \A i \in 1 .. Len(file) : file[i].valid

\* Ledger.read: a malformed last line is dropped, another one raises.
Readable == Malformed \subseteq {Len(file)}
ReadRecords ==
  [i \in 1 .. (IF Malformed = {} THEN Len(file) ELSE Len(file) - 1) |-> file[i].phase]

Init == reuse \in BOOLEAN /\ memory = <<>> /\ file = <<>> /\ written = <<>> /\ failures = 0

\* Mutant: append() returns before the line is on the disk.
AppendUnsynced(p) ==
  /\ p \in LegalTransitions[Current]
  /\ reuse \/ failures = 0
  /\ Len(file) < MaxRecords
  /\ file' \in ShortWrites(p)
  /\ memory' = Append(memory, p)
  /\ written' = Append(written, p)
  /\ UNCHANGED failures

\* Mutant: the transition is not checked.
AppendUnchecked(p) ==
  /\ reuse \/ failures = 0
  /\ Len(file) < MaxRecords
  /\ file' = AppendText(Line(p, TRUE, TRUE))
  /\ memory' = Append(memory, p)
  /\ written' = Append(written, p)
  /\ UNCHANGED failures

\* append(): the transition is legal, the line is written and synced, and only
\* then the record enters memory.
AppendRecord(p) ==
  /\ p \in LegalTransitions[Current]
  /\ reuse \/ failures = 0
  /\ Len(file) < MaxRecords
  /\ file' = AppendText(Line(p, TRUE, TRUE))
  /\ memory' = Append(memory, p)
  /\ written' = Append(written, p)
  /\ UNCHANGED failures

\* append(): the write raises LedgerError; memory is left as it was.
WriteFails(p) ==
  /\ p \in LegalTransitions[Current]
  /\ reuse \/ failures = 0
  /\ failures < MaxFailures
  /\ Len(file) < MaxRecords
  /\ file' \in ShortWrites(p)
  /\ failures' = failures + 1
  /\ UNCHANGED <<memory, written>>

\* The process dies in append(); a new Ledger does not read the file back.
Crash(p) ==
  /\ p \in LegalTransitions[Current]
  /\ reuse \/ failures = 0
  /\ failures < MaxFailures
  /\ Len(file) < MaxRecords
  /\ file' \in ShortWrites(p)
  /\ memory' = <<>>
  /\ failures' = failures + 1
  /\ UNCHANGED written

Next ==
  /\ \E p \in Phases : AppendRecord(p) \/ WriteFails(p) \/ Crash(p)
  /\ UNCHANGED reuse

Spec == Init /\ [][Next]_vars

-----------------------------------------------------------------------------
(* Properties                                                              *)

\* "A malformed FINAL line of a ledger file is tolerated (a crash mid-write
\* must not make the whole ledger unreadable)": whatever was cut short, what is
\* on the disk can be read, as long as nobody appends after it.
CrashKeepsLedgerReadable == ~reuse => Readable

\* What read() returns has every record whose append returned, in order, and
\* beyond them only records whose write failed after reaching the disk.  A
\* caller who appends after a cut-off write may lose the record that shares its
\* line: read() drops that line or, once more is written, refuses the file, so
\* never more than the last acknowledged record goes missing in silence.
AcknowledgedIsReadable ==
  LET sure == IF reuse THEN Len(written) - 1 ELSE Len(written)
  IN Readable =>
       /\ Len(ReadRecords) <= Len(written) + failures
       /\ \E kept \in SUBSET (1 .. Len(ReadRecords)) :
            /\ Cardinality(kept) \in sure .. Len(written)
            /\ \A i \in kept :
                 ReadRecords[i] = written[Cardinality({j \in kept : j <= i})]

\* What read() returns is a legal path of the lifecycle, as verify_run_dir
\* demands of a run's ledger.
ReadIsLegal == ~reuse => LegalPath(ReadRecords)
=============================================================================
