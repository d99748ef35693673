--------------------------- MODULE LedgerFileProofs ---------------------------
(***************************************************************************)
(* What a ledger file is good for after a write was cut short, for every   *)
(* number of records and of failures.                                      *)
(***************************************************************************)
EXTENDS LedgerFile, FiniteSetTheorems, TLAPS

(***************************************************************************)
(* The inductive invariant                                                 *)
(***************************************************************************)
Lines == [phase : Phases, valid : BOOLEAN, ended : BOOLEAN]

TypeInv ==
  /\ reuse \in BOOLEAN
  /\ memory \in Seq(Phases) /\ written \in Seq(Phases)
  /\ file \in Seq(Lines)
  /\ failures \in Nat

\* The file never has more lines than writes, and only its last one may lack the
\* newline.
LinesInv ==
  /\ Len(file) <= Len(written) + failures
  /\ \A i \in 1 .. Len(file) - 1 : file[i].ended

\* Before the first failure the file is what the Ledger remembers.
FileIsMemory ==
  /\ \A i \in 1 .. Len(file) : file[i].valid /\ file[i].ended
  /\ Len(file) = Len(memory)
  /\ \A i \in 1 .. Len(file) : file[i].phase = memory[i]
  /\ LegalPath(memory)

\* Lines "kept" of the file hold the acknowledged records, in order.
Hold(kept) ==
  /\ kept \subseteq {i \in 1 .. Len(file) : file[i].valid /\ file[i].ended}
  /\ \A i \in kept : file[i].phase = written[Cardinality({j \in kept : j <= i})]

\* One acknowledged record may be missing: the one that shares the last line with
\* what a cut-off write had left there.
NoneIsMissing(kept) == Cardinality(kept) = Len(written)
LastIsMissing(kept) ==
  /\ reuse /\ file # <<>> /\ ~file[Len(file)].valid /\ file[Len(file)].ended
  /\ Cardinality(kept) = Len(written) - 1

AcknowledgedInv ==
  Readable => \E kept \in SUBSET (1 .. Len(file)) :
                Hold(kept) /\ (NoneIsMissing(kept) \/ LastIsMissing(kept))

\* Callers who stop at a failure leave a file that is whole but for its last line.
UntouchedInv ==
  ~reuse =>
    /\ failures = 0 => FileIsMemory
    /\ Readable
    /\ LegalPath(ReadRecords)

LedgerFileInv == TypeInv /\ LinesInv /\ AcknowledgedInv /\ UntouchedInv

(***************************************************************************)
(* Legal paths                                                             *)
(***************************************************************************)
\* A legal path stays legal when a phase that its last phase allows follows.
LEMMA PathExtends ==
  ASSUME NEW q \in Seq(Phases), LegalPath(q),
         NEW p \in LegalTransitions[LastPhase(q)]
  PROVE  LegalPath(Append(q, p))
<1> SUFFICES ASSUME NEW i \in 1 .. Len(Append(q, p))
             PROVE  Append(q, p)[i] \in
                      LegalTransitions[IF i = 1 THEN "PENDING" ELSE Append(q, p)[i - 1]]
  BY DEF LegalPath
<1>1. CASE i \in 1 .. Len(q)
  <2>1. Append(q, p)[i] = q[i] /\ (i # 1 => Append(q, p)[i - 1] = q[i - 1])
    BY <1>1
  <2>2. q[i] \in LegalTransitions[IF i = 1 THEN "PENDING" ELSE q[i - 1]]
    BY <1>1 DEF LegalPath
  <2> QED
    BY <2>1, <2>2
<1>2. CASE i = Len(q) + 1
  <2>1. Append(q, p)[i] = p
    BY <1>2
  <2>2. (IF i = 1 THEN "PENDING" ELSE Append(q, p)[i - 1]) = LastPhase(q)
    BY <1>2 DEF LastPhase
  <2> QED
    BY <2>1, <2>2
<1> QED
  BY <1>1, <1>2

(***************************************************************************)
(* The two ways a text reaches the file                                    *)
(***************************************************************************)
\* The last line lacks its newline: the text becomes a part of it.
Merged(p, ended) ==
  /\ file # <<>> /\ ~file[Len(file)].ended
  /\ Len(file') = Len(file)
  /\ \A i \in 1 .. Len(file) - 1 : file'[i] = file[i]
  /\ file'[Len(file)] = Line(p, FALSE, ended)

\* It has one, or there is no line: the text is a line of its own.
OnItsOwn(p, valid, ended) ==
  /\ file # <<>> => file[Len(file)].ended
  /\ Len(file') = Len(file) + 1
  /\ \A i \in 1 .. Len(file) : file'[i] = file[i]
  /\ file'[Len(file) + 1] = Line(p, valid, ended)

LEMMA LineUpdate ==
  ASSUME NEW p, NEW valid, NEW ended, NEW x, NEW line, line = Line(p, valid, ended)
  PROVE  [line EXCEPT !.valid = x] = Line(p, x, ended)
  BY DEF Line

LEMMA TornLine ==
  ASSUME NEW p, NEW valid, NEW ended
  PROVE  [Line(p, valid, ended) EXCEPT !.valid = FALSE] = Line(p, FALSE, ended)
<1>1. PICK x : x = FALSE
  OBVIOUS
<1>2. [Line(p, valid, ended) EXCEPT !.valid = x] = Line(p, x, ended)
  BY LineUpdate
<1> QED
  BY <1>1, <1>2

LEMMA AppendedText ==
  ASSUME TypeInv, NEW p \in Phases, NEW valid \in BOOLEAN, NEW ended \in BOOLEAN,
         file' = AppendText(Line(p, valid, ended))
  PROVE  /\ file' \in Seq(Lines)
         /\ Merged(p, ended) \/ OnItsOwn(p, valid, ended)
<1> DEFINE line == Line(p, valid, ended)
           torn == [line EXCEPT !.valid = FALSE]
<1>1. torn = Line(p, FALSE, ended)
  BY TornLine
<1>2. line \in Lines /\ torn \in Lines
  BY <1>1 DEF Line, Lines
<1> HIDE DEF line, torn
<1>3. CASE file # <<>> /\ ~file[Len(file)].ended
  <2>1. file' = [file EXCEPT ![Len(file)] = torn]
    BY <1>3 DEF AppendText, line, torn
  <2>2. Len(file) \in 1 .. Len(file)
    BY <1>3 DEF TypeInv
  <2>3. file' \in Seq(Lines) /\ Len(file') = Len(file)
    BY <1>2, <2>1, <2>2 DEF TypeInv
  <2>4. file'[Len(file)] = torn /\ \A i \in 1 .. Len(file) - 1 : file'[i] = file[i]
    BY <2>1, <2>2 DEF TypeInv
  <2> QED
    BY <1>1, <1>3, <2>3, <2>4 DEF Merged
<1>4. CASE ~(file # <<>> /\ ~file[Len(file)].ended)
  <2>1. file' = Append(file, line)
    BY <1>4 DEF AppendText, line
  <2>2. file' \in Seq(Lines) /\ Len(file') = Len(file) + 1 /\ file'[Len(file) + 1] = line
          /\ \A i \in 1 .. Len(file) : file'[i] = file[i]
    BY <1>2, <2>1 DEF TypeInv
  <2> QED
    BY <1>4, <2>2 DEF OnItsOwn, line
<1> QED
  BY <1>3, <1>4

\* What a step does to the file, and what it acknowledges.
Acknowledges(p) ==
  /\ file' = AppendText(Line(p, TRUE, TRUE))
  /\ written' = Append(written, p)
  /\ failures' = failures

LeavesUnacknowledged(p) ==
  /\ \/ file' = file
     \/ \E valid, ended \in BOOLEAN : file' = AppendText(Line(p, valid, ended))
  /\ written' = written
  /\ failures' = failures + 1

LEMMA StepWrites ==
  ASSUME TypeInv, NEW p \in Phases, AppendRecord(p) \/ WriteFails(p) \/ Crash(p)
  PROVE  /\ p \in LegalTransitions[Current]
         /\ reuse \/ failures = 0
         /\ memory' \in {memory, Append(memory, p), <<>>}
         /\ \/ Acknowledges(p) /\ memory' = Append(memory, p)
            \/ LeavesUnacknowledged(p)
<1>1. CASE AppendRecord(p)
  BY <1>1 DEF AppendRecord, Acknowledges
<1>2. CASE WriteFails(p) \/ Crash(p)
  <2>1. file' \in ShortWrites(p)
    BY <1>2 DEF WriteFails, Crash
  <2>2. file' = file \/ \E valid, ended \in BOOLEAN : file' = AppendText(Line(p, valid, ended))
    BY <2>1 DEF ShortWrites
  <2> QED
    BY <1>2, <2>2 DEF WriteFails, Crash, LeavesUnacknowledged
<1> QED
  BY <1>1, <1>2

LEMMA FileAfter ==
  ASSUME TypeInv, NEW p \in Phases, Acknowledges(p) \/ LeavesUnacknowledged(p)
  PROVE  /\ file' \in Seq(Lines)
         /\ \/ Acknowledges(p) /\ (Merged(p, TRUE) \/ OnItsOwn(p, TRUE, TRUE))
            \/ /\ LeavesUnacknowledged(p)
               /\ \/ file' = file
                  \/ \E ended \in BOOLEAN : Merged(p, ended)
                  \/ \E valid, ended \in BOOLEAN : OnItsOwn(p, valid, ended)
<1>1. CASE Acknowledges(p)
  BY <1>1, AppendedText DEF Acknowledges
<1>2. CASE LeavesUnacknowledged(p)
  <2>1. CASE file' = file
    BY <1>2, <2>1 DEF TypeInv
  <2>2. ASSUME NEW valid \in BOOLEAN, NEW ended \in BOOLEAN,
               file' = AppendText(Line(p, valid, ended))
        PROVE  file' \in Seq(Lines) /\ (Merged(p, ended) \/ OnItsOwn(p, valid, ended))
    BY <2>2, AppendedText
  <2> QED
    BY <1>2, <2>1, <2>2 DEF LeavesUnacknowledged
<1> QED
  BY <1>1, <1>2

LEMMA TypesAndLinesHold ==
  ASSUME TypeInv, LinesInv, NEW p \in Phases, UNCHANGED reuse,
         AppendRecord(p) \/ WriteFails(p) \/ Crash(p)
  PROVE  TypeInv' /\ LinesInv'
<1>1. Acknowledges(p) \/ LeavesUnacknowledged(p)
  BY StepWrites
<1>2. memory' \in Seq(Phases) /\ written' \in Seq(Phases)
  <2>1. memory \in Seq(Phases) /\ written \in Seq(Phases)
    BY DEF TypeInv
  <2>2. memory' \in {memory, Append(memory, p), <<>>} /\ written' \in {written, Append(written, p)}
    BY <1>1, StepWrites DEF Acknowledges, LeavesUnacknowledged
  <2>3. \A s \in Seq(Phases) : Append(s, p) \in Seq(Phases)
    OBVIOUS
  <2>4. <<>> \in Seq(Phases)
    OBVIOUS
  <2> QED
    BY <2>1, <2>2, <2>3, <2>4
<1>3. failures' \in Nat /\ Len(written') + failures' = Len(written) + failures + 1
  <2>1. \/ written' = Append(written, p) /\ failures' = failures
        \/ written' = written /\ failures' = failures + 1
    BY <1>1 DEF Acknowledges, LeavesUnacknowledged
  <2>2. written \in Seq(Phases) /\ failures \in Nat
    BY DEF TypeInv
  <2> HIDE DEF Phases
  <2> QED
    BY <2>1, <2>2
<1>4. /\ file' \in Seq(Lines)
      /\ \/ file' = file
         \/ \E ended \in BOOLEAN : Merged(p, ended)
         \/ \E valid, ended \in BOOLEAN : OnItsOwn(p, valid, ended)
  BY <1>1, FileAfter
<1>5. Len(file') <= Len(file) + 1 /\ \A i \in 1 .. Len(file') - 1 : file'[i].ended
  <2>1. CASE file' = file
    BY <2>1 DEF LinesInv, TypeInv
  <2>2. ASSUME NEW ended \in BOOLEAN, Merged(p, ended)
        PROVE  Len(file') <= Len(file) + 1 /\ \A i \in 1 .. Len(file') - 1 : file'[i].ended
    BY <2>2 DEF Merged, LinesInv, TypeInv
  <2>3. ASSUME NEW valid \in BOOLEAN, NEW ended \in BOOLEAN, OnItsOwn(p, valid, ended)
        PROVE  Len(file') <= Len(file) + 1 /\ \A i \in 1 .. Len(file') - 1 : file'[i].ended
    <3>1. \A i \in 1 .. Len(file) : file[i].ended
      BY <2>3 DEF OnItsOwn, LinesInv, TypeInv
    <3> QED
      BY <2>3, <3>1 DEF OnItsOwn, TypeInv
  <2> QED
    BY <1>4, <2>1, <2>2, <2>3
<1>6. LinesInv'
  BY <1>3, <1>4, <1>5 DEF LinesInv, TypeInv
<1> QED
  BY <1>2, <1>3, <1>4, <1>6 DEF TypeInv

(***************************************************************************)
(* What was acknowledged                                                   *)
(***************************************************************************)
LEMMA KeptAreCounted ==
  ASSUME NEW n \in Nat, NEW kept \in SUBSET (1 .. n)
  PROVE  /\ IsFiniteSet(kept) /\ Cardinality(kept) \in Nat
         /\ \A i \in kept : Cardinality({j \in kept : j <= i}) \in 1 .. Cardinality(kept)
<1>1. IsFiniteSet(kept) /\ Cardinality(kept) \in Nat
  <2>1. IsFiniteSet(1 .. n)
    BY FS_Interval
  <2>2. IsFiniteSet(kept)
    BY <2>1, FS_Subset
  <2> QED
    BY <2>2, FS_CardinalityType
<1>2. ASSUME NEW i \in kept
      PROVE  Cardinality({j \in kept : j <= i}) \in 1 .. Cardinality(kept)
  <2> DEFINE upto == {j \in kept : j <= i}
  <2>1. upto \in SUBSET kept /\ i \in upto
    OBVIOUS
  <2> HIDE DEF upto
  <2>2. IsFiniteSet(upto) /\ Cardinality(upto) <= Cardinality(kept)
    BY <1>1, <2>1, FS_Subset
  <2>3. Cardinality(upto) \in Nat /\ Cardinality(upto) # 0
    BY <2>1, <2>2, FS_CardinalityType, FS_EmptySet
  <2> QED
    BY <1>1, <2>2, <2>3 DEF upto
<1> QED
  BY <1>1, <1>2

\* Lines that hold the records still hold them when they are left alone.
LEMMA HeldRecordsStay ==
  ASSUME TypeInv, NEW p \in Phases, NEW kept \in SUBSET (1 .. Len(file)), Hold(kept),
         Cardinality(kept) <= Len(written), Len(file') >= Len(file),
         \A i \in kept : file'[i] = file[i],
         written' = written \/ written' = Append(written, p)
  PROVE  Hold(kept)'
<1>1. \A i \in kept : Cardinality({j \in kept : j <= i}) \in 1 .. Len(written)
  <2>1. Len(file) \in Nat /\ Len(written) \in Nat
    BY DEF TypeInv
  <2>2. /\ Cardinality(kept) \in Nat
        /\ \A i \in kept : Cardinality({j \in kept : j <= i}) \in 1 .. Cardinality(kept)
    BY <2>1, KeptAreCounted
  <2> QED
    BY <2>1, <2>2
<1>2. \A k \in 1 .. Len(written) : written'[k] = written[k]
  BY DEF TypeInv
<1>3. \A i \in kept : i \in 1 .. Len(file') /\ file'[i].valid /\ file'[i].ended
                        /\ file'[i].phase = file[i].phase
  BY DEF Hold, TypeInv
<1>4. \A i \in kept : file[i].phase = written[Cardinality({j \in kept : j <= i})]
  BY DEF Hold
<1> QED
  BY <1>1, <1>2, <1>3, <1>4 DEF Hold

\* A merged line is malformed, and holds none of the records.
LEMMA MergedLineKeeps ==
  ASSUME TypeInv, AcknowledgedInv, NEW p \in Phases, NEW ended \in BOOLEAN,
         Merged(p, ended), UNCHANGED reuse, Readable',
         \/ written' = written
         \/ written' = Append(written, p) /\ ended /\ reuse
  PROVE  \E kept \in SUBSET (1 .. Len(file')) :
           Hold(kept)' /\ (NoneIsMissing(kept)' \/ LastIsMissing(kept)')
<1>1. Readable
  BY DEF Readable, Malformed, Merged, TypeInv
<1>2. PICK kept \in SUBSET (1 .. Len(file)) :
        Hold(kept) /\ (NoneIsMissing(kept) \/ LastIsMissing(kept))
  BY <1>1 DEF AcknowledgedInv
<1>3. Cardinality(kept) = Len(written)
  BY <1>2 DEF NoneIsMissing, LastIsMissing, Merged
<1>4. \A i \in kept : file'[i] = file[i]
  <2>1. \A i \in kept : i # Len(file)
    BY <1>2 DEF Hold, Merged
  <2> QED
    BY <2>1 DEF Merged, TypeInv
<1>5. Hold(kept)'
  BY <1>2, <1>3, <1>4, HeldRecordsStay DEF Merged, TypeInv
<1>6. NoneIsMissing(kept)' \/ LastIsMissing(kept)'
  <2>1. CASE written' = written
    BY <1>3, <2>1 DEF NoneIsMissing
  <2>2. CASE written' = Append(written, p) /\ ended /\ reuse
    <3>1. Len(written') - 1 = Len(written)
      BY <2>2 DEF TypeInv
    <3>2. file' # <<>> /\ ~file'[Len(file')].valid /\ file'[Len(file')].ended
      BY <2>2 DEF Merged, Line, TypeInv
    <3> QED
      BY <1>3, <2>2, <3>1, <3>2 DEF LastIsMissing
  <2> QED
    BY <2>1, <2>2
<1> QED
  BY <1>2, <1>5, <1>6 DEF Merged

\* A line of its own holds the record it was written for.
LEMMA OwnLineKeeps ==
  ASSUME TypeInv, AcknowledgedInv, NEW p \in Phases, NEW valid \in BOOLEAN,
         NEW ended \in BOOLEAN, OnItsOwn(p, valid, ended), UNCHANGED reuse, Readable',
         \/ written' = written
         \/ written' = Append(written, p) /\ valid /\ ended
  PROVE  \E kept \in SUBSET (1 .. Len(file')) :
           Hold(kept)' /\ (NoneIsMissing(kept)' \/ LastIsMissing(kept)')
<1>1. \A i \in 1 .. Len(file) : file[i].valid
  BY DEF Readable, Malformed, OnItsOwn, TypeInv
<1>2. Readable
  BY <1>1 DEF Readable, Malformed
<1>3. PICK kept \in SUBSET (1 .. Len(file)) :
        Hold(kept) /\ (NoneIsMissing(kept) \/ LastIsMissing(kept))
  BY <1>2 DEF AcknowledgedInv
<1>4. Cardinality(kept) = Len(written)
  BY <1>1, <1>3 DEF NoneIsMissing, LastIsMissing, TypeInv
<1>5. Hold(kept)'
  BY <1>3, <1>4, HeldRecordsStay DEF OnItsOwn, TypeInv
<1>6. CASE written' = written
  <2>1. NoneIsMissing(kept)' /\ kept \in SUBSET (1 .. Len(file'))
    BY <1>4, <1>6 DEF NoneIsMissing, OnItsOwn, TypeInv
  <2> QED
    BY <1>5, <2>1
<1>7. CASE written' = Append(written, p) /\ valid /\ ended
  <2>1. PICK new : new = Len(file) + 1
    OBVIOUS
  <2>2. PICK all : all = kept \cup {new}
    OBVIOUS
  <2>3. new \in Nat /\ kept \subseteq Nat /\ new \notin kept /\ \A i \in kept : i < new
    BY <2>1 DEF TypeInv
  <2>4. Cardinality(all) = Len(written) + 1 /\ Len(written') = Len(written) + 1
    <3>1. Len(file) \in Nat /\ Len(written) \in Nat /\ Len(written') = Len(written) + 1
      BY <1>7 DEF TypeInv
    <3>2. IsFiniteSet(kept)
      BY <3>1, KeptAreCounted
    <3>3. Cardinality(kept \cup {new}) = Cardinality(kept) + 1
      BY <2>3, <3>2, FS_AddElement
    <3> QED
      BY <1>4, <2>2, <3>1, <3>3
  <2>5. ASSUME NEW i \in all
        PROVE  /\ i \in 1 .. Len(file') /\ file'[i].valid /\ file'[i].ended
               /\ file'[i].phase = written'[Cardinality({j \in all : j <= i})]
    <3>1. CASE i = new
      <4>1. {j \in all : j <= i} = all
        <5>1. \A j \in all : j <= i
          BY <2>2, <2>3, <3>1
        <5> QED
          BY <5>1
      <4>2. written'[Len(written) + 1] = p
        BY <1>7 DEF TypeInv
      <4>3. i \in 1 .. Len(file') /\ file'[i].valid /\ file'[i].ended /\ file'[i].phase = p
        BY <1>7, <2>1, <3>1 DEF OnItsOwn, Line, TypeInv
      <4> QED
        BY <2>4, <4>1, <4>2, <4>3
    <3>2. CASE i \in kept
      <4>1. {j \in all : j <= i} = {j \in kept : j <= i}
        BY <2>2, <2>3, <3>2
      <4>2. i \in 1 .. Len(file') /\ file'[i].valid /\ file'[i].ended
              /\ file'[i].phase = written'[Cardinality({j \in kept : j <= i})]
        BY <1>5, <3>2 DEF Hold
      <4> QED
        BY <4>1, <4>2
    <3> QED
      BY <2>2, <3>1, <3>2
  <2>6. Hold(all)'
    BY <2>5 DEF Hold
  <2>7. NoneIsMissing(all)'
    BY <2>4 DEF NoneIsMissing
  <2>8. all \in SUBSET (1 .. Len(file'))
    BY <2>5
  <2> QED
    BY <2>6, <2>7, <2>8
<1> QED
  BY <1>6, <1>7

LEMMA AcknowledgedHolds ==
  ASSUME TypeInv, AcknowledgedInv, UntouchedInv, NEW p \in Phases, UNCHANGED reuse,
         AppendRecord(p) \/ WriteFails(p) \/ Crash(p)
  PROVE  AcknowledgedInv'
<1> SUFFICES ASSUME Readable'
             PROVE  \E kept \in SUBSET (1 .. Len(file')) :
                      Hold(kept)' /\ (NoneIsMissing(kept)' \/ LastIsMissing(kept)')
  BY DEF AcknowledgedInv
<1>1. CASE Acknowledges(p) /\ Merged(p, TRUE)
  <2>1. reuse
    <3>1. ~reuse => failures = 0
      BY StepWrites
    <3>2. ~reuse => \A i \in 1 .. Len(file) : file[i].ended
      BY <3>1 DEF UntouchedInv, FileIsMemory
    <3>3. Len(file) \in 1 .. Len(file)
      BY <1>1 DEF Merged, TypeInv
    <3> QED
      BY <1>1, <3>2, <3>3 DEF Merged, TypeInv
  <2> QED
    BY <1>1, <2>1, MergedLineKeeps DEF Acknowledges
<1>2. CASE Acknowledges(p) /\ OnItsOwn(p, TRUE, TRUE)
  BY <1>2, OwnLineKeeps DEF Acknowledges
<1>3. CASE LeavesUnacknowledged(p) /\ file' = file
  <2>1. Readable /\ written' = written
    BY <1>3 DEF Readable, Malformed, LeavesUnacknowledged
  <2>2. PICK kept \in SUBSET (1 .. Len(file)) :
          Hold(kept) /\ (NoneIsMissing(kept) \/ LastIsMissing(kept))
    BY <2>1 DEF AcknowledgedInv
  <2> QED
    BY <1>3, <2>1, <2>2 DEF Hold, NoneIsMissing, LastIsMissing
<1>4. CASE LeavesUnacknowledged(p) /\ \E ended \in BOOLEAN : Merged(p, ended)
  BY <1>4, MergedLineKeeps DEF LeavesUnacknowledged
<1>5. CASE LeavesUnacknowledged(p) /\ \E valid, ended \in BOOLEAN : OnItsOwn(p, valid, ended)
  BY <1>5, OwnLineKeeps DEF LeavesUnacknowledged
<1> QED
  BY <1>1, <1>2, <1>3, <1>4, <1>5, StepWrites, FileAfter

(***************************************************************************)
(* What is read when nobody writes after a failure                         *)
(***************************************************************************)
LEMMA ReadAfter ==
  ASSUME TypeInv', NEW q \in Seq(Phases), Len(file') >= Len(q),
         \A i \in 1 .. Len(q) : file'[i].valid /\ file'[i].phase = q[i],
         \/ Len(file') = Len(q)
         \/ Len(file') = Len(q) + 1 /\ ~file'[Len(file')].valid
  PROVE  Readable' /\ ReadRecords' = q
<1>1. Len(file') \in Nat /\ Len(q) \in Nat
  BY DEF TypeInv
<1>2. CASE Len(file') = Len(q)
  <2>1. Malformed' = {}
    BY <1>2 DEF Malformed
  <2>2. ReadRecords' = [i \in 1 .. Len(q) |-> file'[i].phase]
    BY <1>2, <2>1 DEF ReadRecords
  <2>3. ReadRecords' = q
    BY <2>2
  <2> QED
    BY <2>1, <2>3 DEF Readable
<1>3. CASE Len(file') = Len(q) + 1 /\ ~file'[Len(file')].valid
  <2>1. Malformed' = {Len(file')}
    BY <1>1, <1>3 DEF Malformed
  <2>2. Malformed' # {} /\ Len(file') - 1 = Len(q)
    BY <1>1, <1>3, <2>1
  <2>3. ReadRecords' = [i \in 1 .. Len(q) |-> file'[i].phase]
    BY <2>2 DEF ReadRecords
  <2>4. ReadRecords' = q
    BY <2>3
  <2> QED
    BY <2>1, <2>4 DEF Readable
<1> QED
  BY <1>2, <1>3

LEMMA UntouchedHolds ==
  ASSUME TypeInv, UntouchedInv, TypeInv', NEW p \in Phases, UNCHANGED reuse,
         AppendRecord(p) \/ WriteFails(p) \/ Crash(p)
  PROVE  UntouchedInv'
<1> SUFFICES ASSUME ~reuse
             PROVE  /\ failures' = 0 => FileIsMemory'
                    /\ Readable' /\ LegalPath(ReadRecords')
  BY DEF UntouchedInv
<1>1. failures = 0 /\ FileIsMemory /\ p \in LegalTransitions[LastPhase(memory)]
  BY StepWrites DEF UntouchedInv, Current
<1>2. /\ memory \in Seq(Phases) /\ Append(memory, p) \in Seq(Phases)
      /\ LegalPath(memory) /\ LegalPath(Append(memory, p))
  BY <1>1, PathExtends DEF FileIsMemory, TypeInv
<1>3. /\ Len(file) \in Nat /\ Len(file) = Len(memory) /\ Len(Append(memory, p)) = Len(file) + 1
      /\ \A i \in 1 .. Len(file) : /\ file[i].valid /\ file[i].ended
                                  /\ file[i].phase = memory[i]
                                  /\ Append(memory, p)[i] = memory[i]
      /\ Append(memory, p)[Len(file) + 1] = p
  BY <1>1 DEF FileIsMemory, TypeInv
<1>4. ~\E ended \in BOOLEAN : Merged(p, ended)
  <2>1. file # <<>> => Len(file) \in 1 .. Len(file)
    BY DEF TypeInv
  <2> QED
    BY <1>3, <2>1 DEF Merged
<1>5. ASSUME NEW ended \in BOOLEAN, OnItsOwn(p, TRUE, ended)
      PROVE  Readable' /\ ReadRecords' = Append(memory, p)
  <2>1. \A i \in 1 .. Len(Append(memory, p)) :
          file'[i].valid /\ file'[i].phase = Append(memory, p)[i]
    BY <1>3, <1>5 DEF OnItsOwn, Line
  <2>2. Len(file') = Len(Append(memory, p)) /\ Len(file') \in Nat
    BY <1>3, <1>5 DEF OnItsOwn
  <2>3. PICK q : q = Append(memory, p)
    OBVIOUS
  <2>4. q \in Seq(Phases) /\ Len(file') = Len(q) /\ Len(file') >= Len(q)
        /\ \A i \in 1 .. Len(q) : file'[i].valid /\ file'[i].phase = q[i]
    BY <1>2, <2>1, <2>2, <2>3
  <2> QED
    BY <2>3, <2>4, ReadAfter
<1>6. ASSUME NEW ended \in BOOLEAN, OnItsOwn(p, FALSE, ended)
      PROVE  Readable' /\ ReadRecords' = memory
  <2>1. /\ Len(file') = Len(memory) + 1 /\ ~file'[Len(file')].valid
        /\ \A i \in 1 .. Len(memory) : file'[i].valid /\ file'[i].phase = memory[i]
    BY <1>3, <1>6 DEF OnItsOwn, Line
  <2> QED
    BY <1>2, <1>3, <2>1, ReadAfter
<1>7. ASSUME file' = file
      PROVE  Readable' /\ ReadRecords' = memory
  <2>1. /\ Len(file') = Len(memory)
        /\ \A i \in 1 .. Len(memory) : file'[i].valid /\ file'[i].phase = memory[i]
    BY <1>3, <1>7
  <2> QED
    BY <1>2, <1>3, <2>1, ReadAfter
<1>8. Readable' /\ ReadRecords' \in {memory, Append(memory, p)}
  <2>1. \/ file' = file
        \/ \E valid, ended \in BOOLEAN : OnItsOwn(p, valid, ended)
    BY <1>4, StepWrites, FileAfter
  <2>2. ASSUME NEW valid \in BOOLEAN, NEW ended \in BOOLEAN, OnItsOwn(p, valid, ended)
        PROVE  OnItsOwn(p, TRUE, ended) \/ OnItsOwn(p, FALSE, ended)
    BY <2>2
  <2> QED
    BY <1>5, <1>6, <1>7, <2>1, <2>2
<1>9. CASE Acknowledges(p) /\ memory' = Append(memory, p)
  <2>1. OnItsOwn(p, TRUE, TRUE)
    BY <1>4, <1>9, AppendedText DEF Acknowledges
  <2>2. /\ Len(file') = Len(Append(memory, p))
        /\ \A i \in 1 .. Len(file') : /\ file'[i].valid /\ file'[i].ended
                                     /\ file'[i].phase = Append(memory, p)[i]
    BY <1>3, <2>1 DEF OnItsOwn, Line
  <2>3. FileIsMemory'
    BY <1>2, <1>9, <2>2 DEF FileIsMemory
  <2> QED
    BY <1>2, <1>8, <2>3
<1>10. CASE LeavesUnacknowledged(p)
  <2>1. failures' # 0
    BY <1>1, <1>10 DEF LeavesUnacknowledged
  <2> QED
    BY <1>2, <1>8, <2>1
<1> QED
  BY <1>9, <1>10, StepWrites

(***************************************************************************)
(* The theorems                                                            *)
(***************************************************************************)
LEMMA LedgerFileInvHoldsFirst == Init => LedgerFileInv
<1> SUFFICES ASSUME Init
             PROVE  LedgerFileInv
  OBVIOUS
<1>1. TypeInv /\ LinesInv
  BY DEF Init, TypeInv, LinesInv
<1>2. /\ Len(file) = 0 /\ Len(written) = 0 /\ Len(memory) = 0 /\ Malformed = {}
      /\ file = <<>> /\ failures = 0
  BY DEF Init, Malformed
<1>3. Len(ReadRecords) = 0 /\ Readable
  BY <1>2 DEF ReadRecords, Readable
<1>4. AcknowledgedInv
  <2>1. Hold({}) /\ NoneIsMissing({})
    BY <1>2, FS_EmptySet DEF Hold, NoneIsMissing
  <2> QED
    BY <2>1 DEF AcknowledgedInv
<1>5. UntouchedInv
  BY <1>2, <1>3 DEF UntouchedInv, FileIsMemory, LegalPath
<1> QED
  BY <1>1, <1>4, <1>5 DEF LedgerFileInv

\* What is on the disk, and what is known of it, is as LedgerFileInv says after
\* any appends, failed writes and crashes (ledger.py:90-113).
THEOREM LedgerFileKeepsItsRecords == Spec => []LedgerFileInv
<1>1. LedgerFileInv /\ [Next]_vars => LedgerFileInv'
  <2> SUFFICES ASSUME LedgerFileInv, [Next]_vars
               PROVE  LedgerFileInv'
    OBVIOUS
  <2>1. ASSUME NEW p \in Phases, AppendRecord(p) \/ WriteFails(p) \/ Crash(p), UNCHANGED reuse
        PROVE  LedgerFileInv'
    BY <2>1, TypesAndLinesHold, AcknowledgedHolds, UntouchedHolds DEF LedgerFileInv
  <2>2. CASE UNCHANGED vars
    BY <2>2
    DEF vars, LedgerFileInv, TypeInv, LinesInv, AcknowledgedInv, UntouchedInv, Hold,
        NoneIsMissing, LastIsMissing, FileIsMemory, Readable, ReadRecords, Malformed
  <2> QED
    BY <2>1, <2>2 DEF Next
<1> QED
  BY <1>1, LedgerFileInvHoldsFirst, PTL DEF Spec

\* read() does not refuse a file after a cut-off write that nobody has written
\* after: at most its last line is malformed (ledger.py:132).
THEOREM CutOffLedgersAreReadable == Spec => []CrashKeepsLedgerReadable
<1>1. LedgerFileInv => CrashKeepsLedgerReadable
  BY DEF LedgerFileInv, UntouchedInv, CrashKeepsLedgerReadable
<1> QED
  BY <1>1, LedgerFileKeepsItsRecords, PTL

\* What read() returns of such a file is a legal path of the lifecycle, although the
\* transition was checked against the memory and not the file (ledger.py:92).
THEOREM WhatIsReadIsLegal == Spec => []ReadIsLegal
<1>1. LedgerFileInv => ReadIsLegal
  BY DEF LedgerFileInv, UntouchedInv, ReadIsLegal
<1> QED
  BY <1>1, LedgerFileKeepsItsRecords, PTL

\* Every file that read() accepts has the acknowledged records in their order, all of
\* them or all but the last, and no more than the failed writes besides; callers who
\* stop at a failure lose none (ledger.py:108).
THEOREM AcknowledgedRecordsAreRead == Spec => []AcknowledgedIsReadable
<1>1. ASSUME LedgerFileInv
      PROVE  AcknowledgedIsReadable
  <2> DEFINE sure == IF reuse THEN Len(written) - 1 ELSE Len(written)
             lines == 1 .. Len(ReadRecords)
  <2> SUFFICES ASSUME Readable
               PROVE  /\ Len(ReadRecords) <= Len(written) + failures
                      /\ \E kept \in SUBSET lines :
                           /\ Cardinality(kept) \in sure .. Len(written)
                           /\ \A i \in kept :
                                ReadRecords[i] = written[Cardinality({j \in kept : j <= i})]
    BY DEF AcknowledgedIsReadable
  <2>1. /\ Len(file) \in Nat /\ Len(written) \in Nat /\ failures \in Nat
        /\ Len(file) <= Len(written) + failures
    BY <1>1 DEF LedgerFileInv, TypeInv, LinesInv
  <2>2. Malformed = {} \/ (Malformed = {Len(file)} /\ Len(file) \in 1 .. Len(file))
    BY DEF Readable, Malformed
  <2>3. /\ Len(ReadRecords) \in Nat /\ Len(ReadRecords) <= Len(file)
        /\ \A i \in 1 .. Len(file) : file[i].valid =>
             i \in lines /\ ReadRecords[i] = file[i].phase
    <3>1. CASE Malformed = {}
      BY <2>1, <3>1 DEF ReadRecords
    <3>2. CASE Malformed = {Len(file)} /\ Len(file) \in 1 .. Len(file)
      <4>1. ReadRecords = [i \in 1 .. Len(file) - 1 |-> file[i].phase]
        BY <3>2 DEF ReadRecords
      <4>2. Len(ReadRecords) = Len(file) - 1
        BY <2>1, <3>2, <4>1
      <4>3. \A i \in 1 .. Len(file) : file[i].valid => i \in 1 .. Len(file) - 1
        BY <2>1, <3>2 DEF Malformed
      <4> QED
        BY <2>1, <3>2, <4>1, <4>2, <4>3
    <3> QED
      BY <2>2, <3>1, <3>2
  <2>4. PICK kept \in SUBSET (1 .. Len(file)) :
          Hold(kept) /\ (NoneIsMissing(kept) \/ LastIsMissing(kept))
    BY <1>1 DEF LedgerFileInv, AcknowledgedInv
  <2>5. \A i \in kept : i \in lines /\ ReadRecords[i] = file[i].phase
                      /\ file[i].phase = written[Cardinality({j \in kept : j <= i})]
    BY <2>3, <2>4 DEF Hold
  <2>6. Cardinality(kept) \in sure .. Len(written)
    BY <2>1, <2>4 DEF NoneIsMissing, LastIsMissing
  <2>7. kept \in SUBSET lines
    BY <2>5
  <2>8. Len(ReadRecords) <= Len(written) + failures
    BY <2>1, <2>3
  <2> HIDE DEF lines, sure
  <2> QED
    BY <2>5, <2>6, <2>7, <2>8
<1> QED
  BY <1>1, LedgerFileKeepsItsRecords, PTL
=============================================================================
