------------------------ MODULE TrainingEngineProofs ------------------------
(* What the engine guarantees of its executions for every plan and policy:  *)
(* first the sequences of frames that its loops append, then the paths that *)
(* the logs are, the chain of executions and what it trains, at last the    *)
(* selection that the trained corpus is made of.                            *)
EXTENDS SelectedTraining, FiniteSetTheorems, WellFoundedInduction, SequenceTheorems, TLAPS

-----------------------------------------------------------------------------
(* Sequences, laid end to end                                              *)

\* Induction over the numbers of a set.  (NatInduction of the library takes an
\* operator, which the provers cannot instantiate: this is the minimal-element
\* principle of finite sets, applied to the intervals 0..k.)
LEMMA Induction ==
  ASSUME NEW T, 0 \in T, \A n \in Nat : n \in T => n + 1 \in T
  PROVE  Nat \subseteq T
  <1> SUFFICES ASSUME NEW m \in Nat, m \notin T PROVE FALSE
    OBVIOUS
  <1>1. PICK S : S = 0 .. m
    OBVIOUS
  <1>2. PICK X : X = { 0 .. k : k \in { n \in S : n \notin T } }
    OBVIOUS
  <1>3. IsFiniteSet(S)
    BY <1>1, FS_Interval
  <1>4. X \subseteq FiniteSubsetsOf(S) /\ X # {}
    <2>1. X \subseteq SUBSET S /\ X # {}
      BY <1>1, <1>2
    <2> QED BY <1>3, <2>1, FS_FiniteSubsetsOfFinite
  <1>5. PICK R, F : R = StrictSubsetOrdering(S) /\ F = FiniteSubsetsOf(S) /\ IsWellFoundedOn(R, F)
    BY FS_StrictSubsetOrderingWellFounded
  <1>6. PICK x \in X : \A y \in X : <<y, x>> \notin R
    BY <1>4, <1>5, WFMin
  <1>7. PICK k \in S : k \notin T /\ x = 0 .. k
    BY <1>2
  <1>8. k - 1 \in S /\ k - 1 \notin T
    BY <1>1, <1>7
  <1>9. PICK y : y = 0 .. (k - 1)
    OBVIOUS
  <1>10. y \in X /\ y \subseteq x /\ y # x /\ x \subseteq S /\ y \subseteq S
    BY <1>1, <1>2, <1>7, <1>8, <1>9
  <1>11. <<y, x>> \in R
    BY <1>5, <1>10 DEF StrictSubsetOrdering
  <1> QED BY <1>6, <1>10, <1>11

\* Concatenation, kept folded: the provers expand \o where it is written.
Then(s, t) == s \o t

\* f concatenates the first n of these sequences, one after the other.
Flattens(f, seqs, n) ==
  /\ f[0] = << >>
  /\ \A i \in Nat : i < n => f[i + 1] = Then(f[i], seqs[i + 1])

\* A flattening of the first k sequences extends to the next one.
LEMMA FlatteningGrows ==
  ASSUME NEW E, NEW seqs \in Seq(Seq(E)), NEW k \in Nat, k < Len(seqs),
         NEW f \in [0 .. k -> Seq(E)], Flattens(f, seqs, k)
  PROVE  \E g \in [0 .. (k + 1) -> Seq(E)] : Flattens(g, seqs, k + 1)
  <1>1. k + 1 \in 1 .. Len(seqs) /\ f[k] \in Seq(E)
    BY LenProperties
  <1>2. seqs[k + 1] \in Seq(E)
    BY <1>1, ElementOfSeq
  <1>3. PICK x \in Seq(E) : x = Then(f[k], seqs[k + 1])
    BY <1>1, <1>2, ConcatProperties DEF Then
  <1>4. PICK g : g = [i \in 0 .. (k + 1) |-> IF i = k + 1 THEN x ELSE f[i]]
    OBVIOUS
  <1>5. g \in [0 .. (k + 1) -> Seq(E)] /\ g[k + 1] = x /\ \A i \in 0 .. k : g[i] = f[i]
    BY <1>4
  <1>6. g[0] = << >>
    BY <1>5 DEF Flattens
  <1>7. ASSUME NEW i \in Nat, i < k + 1
        PROVE  g[i + 1] = Then(g[i], seqs[i + 1])
    <2>1. CASE i = k
      BY <1>3, <1>5, <2>1
    <2>2. CASE i < k
      <3>1. i \in 0 .. k /\ i + 1 \in 0 .. k
        BY <2>2
      <3> QED BY <1>5, <2>2, <3>1 DEF Flattens
    <2> QED BY <1>7, <2>1, <2>2
  <1> QED BY <1>5, <1>6, <1>7 DEF Flattens

\* Every sequence of sequences has a flattening.
LEMMA FlatteningExists ==
  ASSUME NEW E, NEW seqs \in Seq(Seq(E))
  PROVE  \E f \in [0 .. Len(seqs) -> Seq(E)] : Flattens(f, seqs, Len(seqs))
  <1>1. PICK n \in Nat : n = Len(seqs)
    BY LenProperties
  <1>2. PICK T : T = { k \in Nat : k <= n =>
                         \E f \in [0 .. k -> Seq(E)] : Flattens(f, seqs, k) }
    OBVIOUS
  <1>3. 0 \in T
    <2>1. PICK f : f = [i \in 0 .. 0 |-> << >>]
      OBVIOUS
    <2>2. f \in [0 .. 0 -> Seq(E)] /\ f[0] = << >>
      BY <2>1, EmptySeq
    <2>3. Flattens(f, seqs, 0)
      BY <2>2 DEF Flattens
    <2> QED BY <1>2, <2>2, <2>3
  <1>4. ASSUME NEW k \in Nat, k \in T
        PROVE  k + 1 \in T
    <2>1. ASSUME k + 1 <= n
          PROVE  \E f \in [0 .. (k + 1) -> Seq(E)] : Flattens(f, seqs, k + 1)
      <3>1. k <= n /\ k < Len(seqs)
        BY <1>1, <2>1
      <3>2. PICK f \in [0 .. k -> Seq(E)] : Flattens(f, seqs, k)
        BY <1>2, <1>4, <3>1
      <3> QED BY <3>1, <3>2, FlatteningGrows
    <2> QED BY <1>2, <2>1
  <1>5. n \in T
    BY <1>3, <1>4, Induction
  <1> QED BY <1>1, <1>2, <1>5

\* Two sequences of sequences begin alike.
Agree(s, t, n) == \A i \in Nat : i < n => s[i + 1] = t[i + 1]

\* Flattenings of sequences that agree end with the same sequence.
LEMMA FlatteningUnique ==
  ASSUME NEW n \in Nat, NEW s, NEW t, Agree(s, t, n),
         NEW f, NEW g, Flattens(f, s, n), Flattens(g, t, n)
  PROVE  f[n] = g[n]
  <1>1. PICK T : T = { k \in Nat : k <= n => f[k] = g[k] }
    OBVIOUS
  <1>2. 0 \in T
    BY <1>1 DEF Flattens
  <1>3. ASSUME NEW k \in Nat, k \in T
        PROVE  k + 1 \in T
    <2>1. ASSUME k + 1 <= n
          PROVE  f[k + 1] = g[k + 1]
      <3>1. k < n /\ f[k] = g[k]
        BY <1>1, <1>3, <2>1
      <3> QED BY <3>1 DEF Flattens, Agree
    <2> QED BY <1>1, <2>1
  <1>4. n \in T
    BY <1>2, <1>3, Induction
  <1> QED BY <1>1, <1>4

\* FlattenSeq is the end of a flattening: its recursive function, chosen by its
\* equation, satisfies it.
LEMMA FlattenSeqFlattens ==
  ASSUME NEW E, NEW seqs \in Seq(Seq(E))
  PROVE  \E f \in [0 .. Len(seqs) -> Seq(E)] :
           Flattens(f, seqs, Len(seqs)) /\ f[Len(seqs)] = FlattenSeq(seqs)
  <1>1. PICK n \in Nat : n = Len(seqs)
    BY LenProperties
  <1>2. PICK f \in [0 .. n -> Seq(E)] : Flattens(f, seqs, n)
    BY <1>1, FlatteningExists
  <1>3. CASE n = 0
    BY <1>1, <1>2, <1>3, EmptySeq DEF Flattens, FlattenSeq
  <1>4. CASE n # 0
    <2> DEFINE Flatten(g) ==
                 [i \in 1 .. Len(seqs) |-> IF i = 1 THEN seqs[i] ELSE Then(g[i - 1], seqs[i])]
               flatten == CHOOSE g : g = Flatten(g)
    <2>1. PICK first : first = seqs[1]
      OBVIOUS
    <2>2. first = Then(<< >>, first)
      BY <1>1, <1>4, <2>1, ElementOfSeq, ConcatEmptySeq DEF Then
    <2>3. PICK g : g = [i \in 1 .. n |-> f[i]]
      OBVIOUS
    <2>4. g = Flatten(g)
      <3>1. f[0 + 1] = Then(f[0], seqs[0 + 1]) /\ f[0] = << >>
        BY <1>2, <1>4 DEF Flattens
      <3>2. f[1] = seqs[1]
        BY <2>1, <2>2, <3>1
      <3>3. ASSUME NEW i \in 1 .. n, i # 1
            PROVE  f[i] = Then(f[i - 1], seqs[i])
        <4>1. PICK j \in Nat : i = j + 1 /\ j < n /\ j = i - 1
          BY <3>3
        <4> QED BY <1>2, <4>1 DEF Flattens
      <3>4. ASSUME NEW i \in 1 .. n, i # 1
            PROVE  g[i - 1] = f[i - 1]
        BY <2>3, <3>4
      <3> QED BY <1>1, <2>3, <3>2, <3>3, <3>4
    <2>5. flatten = Flatten(flatten)
      BY <2>4
    <2>6. FlattenSeq(seqs) = flatten[n]
      BY <1>1, <1>4 DEF FlattenSeq, Then
    <2>7. \A i \in 1 .. n : flatten[i] = IF i = 1 THEN seqs[i] ELSE Then(flatten[i - 1], seqs[i])
      BY <1>1, <2>5
    <2> HIDE DEF flatten
    <2>8. PICK h : h = [i \in 0 .. n |-> IF i = 0 THEN << >> ELSE flatten[i]]
      OBVIOUS
    <2>9. ASSUME NEW i \in Nat, i < n
          PROVE  h[i + 1] = Then(h[i], seqs[i + 1])
      <3>1. PICK j : j = i + 1 /\ j \in 1 .. n /\ j - 1 = i
        BY <2>9
      <3>2. h[j] = flatten[j]
        BY <2>8, <3>1
      <3>3. CASE i = 0
        BY <2>1, <2>2, <2>7, <2>8, <3>1, <3>2, <3>3
      <3>4. CASE i # 0
        BY <2>7, <2>8, <3>1, <3>2, <3>4
      <3> QED BY <3>3, <3>4
    <2>10. h[0] = << >> /\ h[n] = flatten[n]
      BY <1>4, <2>8
    <2>11. Flattens(h, seqs, n)
      BY <2>9, <2>10 DEF Flattens
    <2>12. f[n] = h[n]
      BY <1>2, <2>11, FlatteningUnique DEF Agree
    <2> QED BY <1>1, <1>2, <2>6, <2>10, <2>12
  <1> QED BY <1>3, <1>4

\* FlattenSeq of nothing, its type, and FlattenSeq of one sequence more.
LEMMA FlattenSeqRecursive ==
  ASSUME NEW E
  PROVE  /\ FlattenSeq(<< >>) = << >>
         /\ \A s \in Seq(Seq(E)) : FlattenSeq(s) \in Seq(E)
         /\ \A s \in Seq(Seq(E)), x \in Seq(E) :
              FlattenSeq(Append(s, x)) = FlattenSeq(s) \o x
  <1>1. FlattenSeq(<< >>) = << >>
    BY EmptySeq DEF FlattenSeq
  <1>2. ASSUME NEW s \in Seq(Seq(E)) PROVE FlattenSeq(s) \in Seq(E)
    <2>1. PICK f \in [0 .. Len(s) -> Seq(E)] : f[Len(s)] = FlattenSeq(s)
      BY FlattenSeqFlattens
    <2>2. Len(s) \in 0 .. Len(s)
      BY LenProperties
    <2> QED BY <2>1, <2>2
  <1>3. ASSUME NEW s \in Seq(Seq(E)), NEW x \in Seq(E)
        PROVE  FlattenSeq(Append(s, x)) = FlattenSeq(s) \o x
    <2>1. PICK n, t : n \in Nat /\ n = Len(s) /\ t = Append(s, x)
      BY LenProperties
    <2>2. PICK f : Flattens(f, s, n) /\ f[n] = FlattenSeq(s)
      BY <2>1, FlattenSeqFlattens
    <2>3. t \in Seq(Seq(E)) /\ Len(t) = n + 1 /\ t[n + 1] = x /\ \A i \in 1 .. n : t[i] = s[i]
      BY <2>1, AppendProperties
    <2>4. PICK g : Flattens(g, t, n + 1) /\ g[n + 1] = FlattenSeq(t)
      BY <2>3, FlattenSeqFlattens
    <2>5. Flattens(g, t, n) /\ g[n + 1] = Then(g[n], t[n + 1])
      <3>1. n < n + 1 /\ \A i \in Nat : i < n => i < n + 1
        BY <2>1
      <3> QED BY <2>1, <2>4, <3>1 DEF Flattens
    <2>6. Agree(s, t, n)
      BY <2>1, <2>3 DEF Agree
    <2>7. f[n] = g[n]
      BY <2>1, <2>2, <2>5, <2>6, FlatteningUnique
    <2> QED BY <2>1, <2>2, <2>3, <2>4, <2>5, <2>7 DEF Then
  <1> QED BY <1>1, <1>2, <1>3

\* The same, for any sequence that continues another by one.
LEMMA FlattenOneMore ==
  ASSUME NEW E, NEW t \in Seq(Seq(E)), NEW y \in Seq(Seq(E)), NEW x \in Seq(E),
         Len(y) = Len(t) + 1, y[Len(t) + 1] = x, \A i \in 1 .. Len(t) : y[i] = t[i]
  PROVE  FlattenSeq(y) = FlattenSeq(t) \o x
  <1>1. PICK n, z : n = Len(t) /\ n \in Nat /\ z = Append(t, x)
    BY LenProperties
  <1>2. /\ z \in Seq(Seq(E)) /\ Len(z) = n + 1 /\ z[n + 1] = x
        /\ \A i \in 1 .. n : z[i] = t[i]
    BY <1>1, AppendProperties
  <1>3. \A i \in 1 .. Len(y) : y[i] = z[i]
    BY <1>1, <1>2
  <1>4. y = z
    BY <1>1, <1>2, <1>3, SeqEqual
  <1> QED BY <1>1, <1>4, FlattenSeqRecursive

-----------------------------------------------------------------------------
(* The elements of a sequence that are in a set                            *)

\* What Chosen does with one element.
One(o, D) == IF o \in D THEN <<o>> ELSE << >>

\* The elements of x in D, in their order.
Chosen(x, D) == FlattenSeq([i \in DOMAIN x |-> One(x[i], D)])

\* At most one element is chosen at a time.
LEMMA OneTypes ==
  ASSUME NEW E, NEW D, NEW o \in E
  PROVE  One(o, D) \in Seq(E)
  BY DEF One

\* Chosen, element by element.
LEMMA ChosenRecursive ==
  ASSUME NEW E, NEW D
  PROVE  /\ Chosen(<< >>, D) = << >>
         /\ \A x \in Seq(E) : Chosen(x, D) \in Seq(E)
         /\ \A x \in Seq(E), o \in E :
              Chosen(Append(x, o), D) = Chosen(x, D) \o One(o, D)
  <1> DEFINE Selected(x) == [i \in DOMAIN x |-> One(x[i], D)]
  <1>1. \A x : Chosen(x, D) = FlattenSeq(Selected(x))
    BY DEF Chosen, One
  <1>2. ASSUME NEW x \in Seq(E)
        PROVE  Selected(x) \in Seq(Seq(E)) /\ Len(Selected(x)) = Len(x)
    <2>1. PICK n \in Nat : n = Len(x) /\ DOMAIN x = 1 .. n /\ \A i \in 1 .. n : x[i] \in E
      BY LenProperties, ElementOfSeq
    <2>2. \A i \in 1 .. n : One(x[i], D) \in Seq(E)
      BY <2>1, OneTypes
    <2> QED BY <2>1, <2>2
  <1>3. Selected(<< >>) = << >>
    <2>1. DOMAIN << >> = {}
      OBVIOUS
    <2> QED BY <2>1
  <1>4. ASSUME NEW x \in Seq(E), NEW o \in E
        PROVE  Chosen(Append(x, o), D) = Chosen(x, D) \o One(o, D)
    <2>1. PICK n, y, k, t, u :
            /\ n \in Nat /\ n = Len(x) /\ y = Append(x, o) /\ k = One(o, D)
            /\ t = Selected(x) /\ u = Selected(y)
      BY LenProperties
    <2>2. /\ y \in Seq(E) /\ Len(y) = n + 1 /\ DOMAIN y = 1 .. (n + 1)
          /\ DOMAIN x = 1 .. n /\ y[n + 1] = o /\ \A i \in 1 .. n : y[i] = x[i]
      BY <2>1, AppendProperties, LenProperties
    <2>3. /\ t \in Seq(Seq(E)) /\ Len(t) = n
          /\ u \in Seq(Seq(E)) /\ Len(u) = n + 1
      BY <1>2, <2>1, <2>2
    <2>4. ASSUME NEW i \in 1 .. n
          PROVE  u[i] = t[i]
      <3>1. i \in 1 .. (n + 1)
        BY <2>1
      <3>2. t[i] = One(x[i], D) /\ u[i] = One(y[i], D)
        BY <2>1, <2>2, <3>1
      <3> QED BY <2>2, <3>2
    <2>5. u[n + 1] = k
      BY <2>1, <2>2
    <2>6. k \in Seq(E)
      BY <2>1, OneTypes
    <2>7. FlattenSeq(u) = FlattenSeq(t) \o k
      BY <2>3, <2>4, <2>5, <2>6, FlattenOneMore
    <2> QED BY <1>1, <2>1, <2>7
  <1> QED BY <1>1, <1>2, <1>3, <1>4, FlattenSeqRecursive, ZenonT(60)

\* Elements are chosen from each part of a sequence.
LEMMA ChosenOfConcat ==
  ASSUME NEW E, NEW D, NEW x \in Seq(E), NEW y \in Seq(E)
  PROVE  Chosen(x \o y, D) = Chosen(x, D) \o Chosen(y, D)
  <1> DEFINE P(z) == Chosen(x \o z, D) = Chosen(x, D) \o Chosen(z, D)
  <1>1. PICK T : T = { n \in Nat : \A z \in Seq(E) : Len(z) = n => P(z) }
    OBVIOUS
  <1>2. 0 \in T
    <2>1. \A z \in Seq(E) : Len(z) = 0 => z = << >>
      BY EmptySeq
    <2>2. P(<< >>)
      BY ChosenRecursive, ConcatEmptySeq
    <2> QED BY <1>1, <2>1, <2>2
  <1>3. ASSUME NEW n \in Nat, n \in T
        PROVE  n + 1 \in T
    <2>1. ASSUME NEW z \in Seq(E), Len(z) = n + 1
          PROVE  P(z)
      <3>1. z # << >>
        BY <2>1, EmptySeq
      <3>2. PICK w \in Seq(E), o \in E : z = Append(w, o)
        BY <3>1, SequenceEmptyOrAppend
      <3>3. Len(w) = n
        BY <2>1, <3>2, AppendProperties, LenProperties
      <3>4. P(w)
        BY <1>1, <1>3, <3>3
      <3>5. PICK u \in Seq(E) : u = x \o w
        BY ConcatProperties
      <3>6. x \o z = Append(u, o)
        <4>1. <<o>> \in Seq(E)
          OBVIOUS
        <4>2. z = w \o <<o>> /\ Append(u, o) = u \o <<o>>
          BY <3>2, AppendIsConcat
        <4> QED BY <3>5, <4>1, <4>2, ConcatAssociative
      <3>7. PICK bx \in Seq(E), bw \in Seq(E), k \in Seq(E) :
              bx = Chosen(x, D) /\ bw = Chosen(w, D) /\ k = One(o, D)
        BY ChosenRecursive, OneTypes
      <3>8. PICK bu : bu = Chosen(u, D) /\ bu = bx \o bw
        BY <3>4, <3>5, <3>7
      <3>9. Chosen(x \o z, D) = bu \o k
        <4>1. Chosen(Append(u, o), D) = Chosen(u, D) \o One(o, D)
          BY ChosenRecursive
        <4> QED BY <3>6, <3>7, <3>8, <4>1
      <3>10. PICK bz : bz = Chosen(z, D) /\ bz = bw \o k
        BY <3>2, <3>7, ChosenRecursive
      <3>11. (bx \o bw) \o k = bx \o (bw \o k)
        <4> HIDE DEF P
        <4>1. bx \in Seq(E) /\ bw \in Seq(E) /\ k \in Seq(E)
          BY <3>7
        <4> QED BY <4>1, ConcatAssociative, SMTT(60)
      <3>12. Chosen(x \o z, D) = bx \o bz
        BY <3>8, <3>9, <3>10, <3>11
      <3> QED BY <3>7, <3>10, <3>12
    <2> QED BY <1>1, <2>1
  <1>4. \A n \in Nat : n \in T
    BY <1>2, <1>3, Induction
  <1>5. Len(y) \in Nat
    BY LenProperties
  <1> QED BY <1>1, <1>4, <1>5

\* All elements are chosen, or none.
LEMMA ChosenAlike ==
  ASSUME NEW E, NEW D, NEW b \in BOOLEAN, NEW y \in Seq(E), \A i \in DOMAIN y : (y[i] \in D) <=> b
  PROVE  Chosen(y, D) = IF b THEN y ELSE << >>
  <1> DEFINE P(z) == Chosen(z, D) = IF b THEN z ELSE << >>
  <1>1. PICK T : T = { n \in Nat : \A z \in Seq(E) :
                         Len(z) = n /\ (\A i \in DOMAIN z : (z[i] \in D) <=> b) => P(z) }
    OBVIOUS
  <1>2. 0 \in T
    <2>1. \A z \in Seq(E) : Len(z) = 0 => z = << >>
      BY EmptySeq
    <2>2. P(<< >>)
      BY ChosenRecursive
    <2> QED BY <1>1, <2>1, <2>2
  <1>3. ASSUME NEW n \in Nat, n \in T
        PROVE  n + 1 \in T
    <2>1. ASSUME NEW z \in Seq(E), Len(z) = n + 1, \A i \in DOMAIN z : (z[i] \in D) <=> b
          PROVE  P(z)
      <3>1. z # << >>
        BY <2>1, EmptySeq
      <3>2. PICK w \in Seq(E), o \in E : z = Append(w, o)
        BY <3>1, SequenceEmptyOrAppend
      <3>3. Len(w) = n /\ DOMAIN w = 1 .. n /\ DOMAIN z = 1 .. (n + 1)
        BY <2>1, <3>2, AppendProperties, LenProperties
      <3>4. (\A i \in 1 .. n : z[i] = w[i]) /\ z[n + 1] = o
        BY <3>2, <3>3, AppendProperties
      <3>5. P(w)
        BY <1>1, <1>3, <2>1, <3>3, <3>4
      <3>6. (o \in D) <=> b
        BY <2>1, <3>3, <3>4
      <3>7. Chosen(z, D) = Chosen(w, D) \o One(o, D)
        BY <3>2, ChosenRecursive
      <3>8. w \o <<o>> = z
        BY <3>2, AppendIsConcat
      <3>9. CASE b
        BY <3>5, <3>6, <3>7, <3>8, <3>9 DEF One
      <3>10. CASE ~b
        <4>1. One(o, D) = << >>
          BY <3>6, <3>10 DEF One
        <4>2. << >> \o << >> = << >>
          BY EmptySeq, ConcatEmptySeq
        <4> QED BY <3>5, <3>7, <3>10, <4>1, <4>2
      <3> QED BY <3>9, <3>10
    <2> QED BY <1>1, <2>1
  <1>4. \A n \in Nat : n \in T
    BY <1>2, <1>3, Induction
  <1>5. Len(y) \in Nat
    BY LenProperties
  <1> QED BY <1>1, <1>4, <1>5

-----------------------------------------------------------------------------
(* The frames between two steps                                            *)

\* Frames, as the validator of an event accepts them.
Frames ==
  { f \in [type : DOMAIN EventTransitions, before : DOMAIN LegalTransitions,
           after : DOMAIN LegalTransitions, epoch : Int, batch : Int, step : Int, done : Int] :
      ValidEvent(f) }
\* ... each with the step that owns it.
OwnedFrames == [frame : Frames, owner : Int]

\* The owned frames between two steps.
Owners(a, b) == { o \in OwnedFrames : a < o.owner /\ o.owner <= b }

\* Between chooses them.
LEMMA BetweenChooses ==
  ASSUME NEW a, NEW b, NEW x \in Seq(OwnedFrames)
  PROVE  Between(x, a, b) = Chosen(x, Owners(a, b))
  <1>1. \A i \in DOMAIN x : x[i] \in OwnedFrames
    BY LenProperties, ElementOfSeq
  <1>2. [i \in DOMAIN x |-> IF a < x[i].owner /\ x[i].owner <= b THEN <<x[i]>> ELSE << >>]
          = [i \in DOMAIN x |-> One(x[i], Owners(a, b))]
    BY <1>1 DEF Owners, One
  <1> QED BY <1>2 DEF Between, Chosen

\* Between of nothing, and its type.
LEMMA BetweenTypes ==
  ASSUME NEW a, NEW b
  PROVE  /\ Between(<< >>, a, b) = << >>
         /\ \A x \in Seq(OwnedFrames) : Between(x, a, b) \in Seq(OwnedFrames)
  <1>1. PICK D, none : D = Owners(a, b) /\ none = << >>
    OBVIOUS
  <1>2. \A x \in Seq(OwnedFrames) : Between(x, a, b) = Chosen(x, D)
    BY <1>1, BetweenChooses
  <1>3. Chosen(<< >>, D) = << >> /\ \A x \in Seq(OwnedFrames) : Chosen(x, D) \in Seq(OwnedFrames)
    BY ChosenRecursive
  <1>4. Between(none, a, b) = Chosen(none, D)
    <2>1. none \in Seq(OwnedFrames)
      BY <1>1, EmptySeq
    <2> QED BY <1>2, <2>1
  <1> QED BY <1>1, <1>2, <1>3, <1>4

\* The frames between two steps are taken from each part of a sequence.
LEMMA BetweenOfConcat ==
  ASSUME NEW a, NEW b, NEW x \in Seq(OwnedFrames), NEW y \in Seq(OwnedFrames)
  PROVE  Between(x \o y, a, b) = Between(x, a, b) \o Between(y, a, b)
  <1>1. PICK D, z : D = Owners(a, b) /\ z = x \o y /\ z \in Seq(OwnedFrames)
    BY ConcatProperties
  <1>2. Chosen(z, D) = Chosen(x, D) \o Chosen(y, D)
    BY <1>1, ChosenOfConcat
  <1>3. /\ Between(z, a, b) = Chosen(z, D)
        /\ Between(x, a, b) = Chosen(x, D) /\ Between(y, a, b) = Chosen(y, D)
    BY <1>1, BetweenChooses
  <1> QED BY <1>1, <1>2, <1>3

\* All frames of one step are taken, or none.
LEMMA BetweenOfOneStep ==
  ASSUME NEW a, NEW b, NEW s, NEW y \in Seq(OwnedFrames), \A i \in DOMAIN y : y[i].owner = s
  PROVE  Between(y, a, b) = IF a < s /\ s <= b THEN y ELSE << >>
  <1>1. PICK D, t : D = Owners(a, b) /\ t = (a < s /\ s <= b) /\ t \in BOOLEAN
    OBVIOUS
  <1>2. \A i \in DOMAIN y : y[i] \in OwnedFrames
    BY LenProperties, ElementOfSeq
  <1>3. \A i \in DOMAIN y : (y[i] \in D) <=> t
    BY <1>1, <1>2 DEF Owners
  <1>4. Chosen(y, D) = IF t THEN y ELSE << >>
    BY <1>1, <1>3, ChosenAlike, ZenonT(60)
  <1> QED BY <1>1, <1>4, BetweenChooses


-----------------------------------------------------------------------------
(* The loops: where they stand after s steps                               *)

\* Division with remainder.
LEMMA Division ==
  ASSUME NEW a \in Nat, NEW b \in Nat \ {0}
  PROVE  /\ a \div b \in Nat /\ a % b \in 0 .. (b - 1)
         /\ a = (a \div b) * b + (a % b)
  OBVIOUS

\* Multiples are ordered as their factors, and are at least one factor apart.
LEMMA Multiples ==
  ASSUME NEW x \in Nat, NEW y \in Nat, NEW b \in Nat \ {0}
  PROVE  /\ x * b \in Nat
         /\ x < y <=> x * b < y * b
         /\ x < y => x * b + b <= y * b
  OBVIOUS

\* The rounded-up quotient is the least one whose multiple reaches the dividend.
LEMMA Ceiling ==
  ASSUME NEW a \in Nat \ {0}, NEW b \in Nat \ {0}
  PROVE  /\ CeilDiv(a, b) \in Nat \ {0}
         /\ a <= CeilDiv(a, b) * b /\ CeilDiv(a, b) * b <= a + b - 1
  <1>1. PICK n \in Nat : n = a + b - 1
    OBVIOUS
  <1>2. n \div b \in Nat /\ n % b \in 0 .. (b - 1) /\ n = (n \div b) * b + (n % b)
    BY Division
  <1>3. n \div b # 0
    BY <1>1, <1>2
  <1> QED BY <1>1, <1>2, <1>3 DEF CeilDiv

\* A plan that PlansAssumption allows.
IsPlan(p) ==
  /\ p.batches \in Nat \ {0} /\ p.accum \in Nat \ {0} /\ p.steps \in Nat \ {0}
  /\ p.epochs # Absent =>
       p.epochs \in Nat \ {0} /\ p.steps = p.epochs * CeilDiv(p.batches, p.accum)

\* Where the loops stand after e epochs and r windows.
At(p, e, r) == [epoch |-> e, batch |-> r * p.accum]

\* A window of an epoch: it has a batch, no more than planned, and ends the epoch
\* exactly if it is the last.
LEMMA WindowProperties ==
  ASSUME NEW p, IsPlan(p), NEW r \in Nat, r < CeilDiv(p.batches, p.accum)
  PROVE  LET batch == r * p.accum
             next == batch + Window(p, batch)
         IN /\ batch \in Nat /\ Window(p, batch) \in Nat \ {0}
            /\ next >= p.batches <=> r + 1 = CeilDiv(p.batches, p.accum)
            /\ next < p.batches => next = (r + 1) * p.accum
  <1>1. PICK n, a, w : /\ n = p.batches /\ a = p.accum /\ w = CeilDiv(n, a)
                       /\ n \in Nat \ {0} /\ a \in Nat \ {0}
    BY DEF IsPlan
  <1>2. w \in Nat \ {0} /\ n <= w * a /\ w * a <= n + a - 1
    BY <1>1, Ceiling
  <1>3. PICK b, c, d : b = r * a /\ c = (r + 1) * a /\ d = w * a
    OBVIOUS
  <1>4. b \in Nat /\ c = b + a /\ d \in Nat
    BY <1>1, <1>2, <1>3
  <1>5. b + a <= d
    BY <1>1, <1>2, <1>3, Multiples
  <1>6. b < n
    BY <1>1, <1>2, <1>3, <1>4, <1>5
  <1>7. Window(p, b) = IF a < n - b THEN a ELSE n - b
    BY <1>1 DEF Window
  <1>8. CASE r + 1 = w
    <2>1. d = b + a
      BY <1>3, <1>4, <1>8
    <2>2. Window(p, b) = n - b
      BY <1>1, <1>2, <1>3, <1>4, <1>7, <2>1
    <2>3. b + Window(p, b) = n
      BY <1>1, <1>4, <2>2
    <2>4. Window(p, b) \in Nat \ {0}
      BY <1>1, <1>4, <1>6, <2>2
    <2> QED BY <1>1, <1>2, <1>3, <1>4, <1>8, <2>3, <2>4
  <1>9. CASE r + 1 < w
    <2>1. c + a <= d
      BY <1>1, <1>2, <1>3, <1>9, Multiples
    <2>2. c < n
      BY <1>1, <1>2, <1>3, <1>4, <2>1
    <2> QED BY <1>1, <1>2, <1>3, <1>4, <1>6, <1>7, <1>9, <2>2
  <1> QED BY <1>1, <1>2, <1>8, <1>9

\* The first s steps are e epochs and r windows.
Splits(p, s, e, r) ==
  /\ e \in Nat /\ r \in Nat /\ r < CeilDiv(p.batches, p.accum)
  /\ s = e * CeilDiv(p.batches, p.accum) + r

\* A step is reached by one pair of epochs and windows ...
LEMMA SplitsUniquely ==
  ASSUME NEW p, IsPlan(p), NEW s, NEW e, NEW r, NEW f, NEW q, Splits(p, s, e, r), Splits(p, s, f, q)
  PROVE  e = f /\ r = q
  <1>1. PICK w \in Nat \ {0} : w = CeilDiv(p.batches, p.accum)
    BY Ceiling DEF IsPlan
  <1>2. /\ e \in Nat /\ r \in Nat /\ f \in Nat /\ q \in Nat
        /\ r < w /\ q < w /\ e * w + r = f * w + q
    BY <1>1 DEF Splits
  <1>3. ~(e < f)
    <2>1. e < f => e * w + w <= f * w
      BY <1>1, <1>2, Multiples
    <2> QED BY <1>1, <1>2, <2>1
  <1>4. ~(f < e)
    <2>1. f < e => f * w + w <= e * w
      BY <1>1, <1>2, Multiples
    <2> QED BY <1>1, <1>2, <2>1
  <1> QED BY <1>1, <1>2, <1>3, <1>4

\* ... and by at least one.
LEMMA SplitsExists ==
  ASSUME NEW p, IsPlan(p), NEW s \in Nat
  PROVE  \E e, r : Splits(p, s, e, r)
  <1>1. PICK w \in Nat \ {0} : w = CeilDiv(p.batches, p.accum)
    BY Ceiling DEF IsPlan
  <1>2. s \div w \in Nat /\ s % w \in 0 .. (w - 1) /\ s = (s \div w) * w + (s % w)
    BY Division
  <1>3. PICK e, r : e = s \div w /\ r = s % w
    OBVIOUS
  <1>4. Splits(p, s, e, r)
    BY <1>1, <1>2, <1>3 DEF Splits
  <1> QED BY <1>4

\* What one turn of the inner loop makes of a cursor.
Turned(p, last) ==
  IF last.batch + Window(p, last.batch) >= p.batches
    THEN [epoch |-> last.epoch + 1, batch |-> 0]
    ELSE [epoch |-> last.epoch, batch |-> last.batch + Window(p, last.batch)]

\* One turn goes to the next window, or to the next epoch.
LEMMA TurnSplits ==
  ASSUME NEW p, IsPlan(p), NEW s \in Nat, NEW e, NEW r, Splits(p, s, e, r)
  PROVE  \E f, q : Splits(p, s + 1, f, q) /\ Turned(p, At(p, e, r)) = At(p, f, q)
  <1>1. PICK w \in Nat \ {0} : w = CeilDiv(p.batches, p.accum)
    BY Ceiling DEF IsPlan
  <1>2. e \in Nat /\ r \in Nat /\ r < w /\ s = e * w + r
    BY <1>1 DEF Splits
  <1>3. PICK batch, next : batch = r * p.accum /\ next = batch + Window(p, batch)
    OBVIOUS
  <1>4. /\ batch \in Nat /\ Window(p, batch) \in Nat \ {0}
        /\ next >= p.batches <=> r + 1 = w
        /\ next < p.batches => next = (r + 1) * p.accum
    BY <1>1, <1>2, <1>3, WindowProperties
  <1>5. At(p, e, r) = [epoch |-> e, batch |-> batch]
    BY <1>3 DEF At
  <1>6. Turned(p, At(p, e, r)) = IF next >= p.batches THEN [epoch |-> e + 1, batch |-> 0]
                                 ELSE [epoch |-> e, batch |-> next]
    BY <1>3, <1>5 DEF Turned
  <1>7. p.accum \in Nat /\ p.batches \in Nat /\ next \in Nat
    BY <1>3, <1>4 DEF IsPlan
  <1>8. CASE r + 1 = w
    <2>1. s + 1 = (e + 1) * w + 0
      BY <1>1, <1>2, <1>8
    <2>2. Splits(p, s + 1, e + 1, 0)
      BY <1>1, <1>2, <2>1 DEF Splits
    <2>3. Turned(p, At(p, e, r)) = At(p, e + 1, 0)
      BY <1>4, <1>6, <1>7, <1>8 DEF At
    <2> QED BY <2>2, <2>3
  <1>9. CASE r + 1 # w
    <2>1. PICK x : x = e * w
      OBVIOUS
    <2>2. x \in Nat /\ s + 1 = x + (r + 1) /\ r + 1 \in Nat /\ r + 1 < w
      BY <1>1, <1>2, <1>9, <2>1
    <2>3. Splits(p, s + 1, e, r + 1)
      BY <1>1, <1>2, <2>1, <2>2 DEF Splits
    <2>4. Turned(p, At(p, e, r)) = At(p, e, r + 1)
      BY <1>4, <1>6, <1>7, <1>9 DEF At
    <2> QED BY <2>3, <2>4
  <1> QED BY <1>8, <1>9

\* The loops are where the number of steps says.
LEMMA CursorSplits ==
  ASSUME NEW p, IsPlan(p), NEW s \in 0 .. p.steps, NEW e, NEW r, Splits(p, s, e, r)
  PROVE  Cursor(p)[s] = At(p, e, r)
  <1> DEFINE Body(g) == [i \in 0 .. p.steps |->
                           IF i = 0 THEN [epoch |-> 0, batch |-> 0] ELSE Turned(p, g[i - 1])]
  <1>1. PICK n \in Nat : n = p.steps
    BY DEF IsPlan
  <1>2. PICK f : f = [i \in 0 .. n |-> CHOOSE c : \E d, q : Splits(p, i, d, q) /\ c = At(p, d, q)]
    OBVIOUS
  <1>3. ASSUME NEW i \in 0 .. n, NEW d, NEW q, Splits(p, i, d, q)
        PROVE  f[i] = At(p, d, q)
    <2>1. \E c : \E x, y : Splits(p, i, x, y) /\ c = At(p, x, y)
      BY <1>3
    <2>2. \E x, y : Splits(p, i, x, y) /\ f[i] = At(p, x, y)
      BY <1>2, <2>1
    <2> QED BY <1>3, <2>2, SplitsUniquely
  <1>4. f = Body(f)
    <2>1. ASSUME NEW i \in 0 .. n
          PROVE  f[i] = IF i = 0 THEN [epoch |-> 0, batch |-> 0] ELSE Turned(p, f[i - 1])
      <3>1. CASE i = 0
        <4>1. PICK w \in Nat \ {0} : w = CeilDiv(p.batches, p.accum)
          BY Ceiling DEF IsPlan
        <4>2. Splits(p, 0, 0, 0)
          BY <4>1 DEF Splits
        <4>3. At(p, 0, 0) = [epoch |-> 0, batch |-> 0]
          BY DEF At, IsPlan
        <4> QED BY <1>3, <3>1, <4>2, <4>3
      <3>2. CASE i # 0
        <4>1. PICK j \in Nat : j = i - 1 /\ i = j + 1 /\ j \in 0 .. n
          BY <3>2
        <4>2. PICK d, q : Splits(p, j, d, q)
          BY SplitsExists
        <4>3. PICK x, y : Splits(p, j + 1, x, y) /\ Turned(p, At(p, d, q)) = At(p, x, y)
          BY <4>2, TurnSplits
        <4>4. f[j] = At(p, d, q) /\ f[i] = At(p, x, y)
          BY <1>3, <4>1, <4>2, <4>3
        <4> QED BY <3>2, <4>1, <4>3, <4>4
      <3> QED BY <3>1, <3>2
    <2>2. f = [i \in 0 .. n |-> f[i]]
      BY <1>2
    <2> QED BY <1>1, <2>1, <2>2
  <1>5. Cursor(p) = CHOOSE g : g = Body(g)
    BY DEF Cursor, Turned
  <1>6. Cursor(p) = Body(Cursor(p))
    BY <1>4, <1>5
  <1>7. PICK T : T = { k \in Nat : k <= n => Cursor(p)[k] = f[k] }
    OBVIOUS
  <1>8. ASSUME NEW i \in 0 .. n
        PROVE  /\ f[i] = IF i = 0 THEN [epoch |-> 0, batch |-> 0] ELSE Turned(p, f[i - 1])
               /\ Cursor(p)[i] = IF i = 0 THEN [epoch |-> 0, batch |-> 0]
                                 ELSE Turned(p, Cursor(p)[i - 1])
    BY <1>1, <1>4, <1>6
  <1>9. 0 \in T
    BY <1>7, <1>8
  <1>10. ASSUME NEW k \in Nat, k \in T
         PROVE  k + 1 \in T
    <2>1. ASSUME k + 1 <= n
          PROVE  Cursor(p)[k + 1] = f[k + 1]
      <3>1. PICK i \in 0 .. n : i = k + 1 /\ i # 0 /\ i - 1 = k
        BY <2>1
      <3> QED BY <1>7, <1>8, <1>10, <2>1, <3>1
    <2> QED BY <1>7, <2>1
  <1>11. s \in T
    BY <1>9, <1>10, Induction
  <1> QED BY <1>1, <1>3, <1>7, <1>11

-----------------------------------------------------------------------------
(* Paths through the state machine                                         *)

\* Before the steps of the plan are done the loops stand at a batch of a window,
\* and in an epoch of the budget.
LEMMA CursorTypes ==
  ASSUME NEW p, IsPlan(p), NEW s \in 0 .. (p.steps - 1)
  PROVE  /\ Cursor(p)[s].epoch \in Nat /\ Cursor(p)[s].batch \in Nat
         /\ Window(p, Cursor(p)[s].batch) \in Nat \ {0}
         /\ p.epochs # Absent => Cursor(p)[s].epoch < p.epochs
  <1>1. PICK w \in Nat \ {0} : w = CeilDiv(p.batches, p.accum)
    BY Ceiling DEF IsPlan
  <1>2. s \in Nat /\ s \in 0 .. p.steps /\ s < p.steps
    BY DEF IsPlan
  <1>3. PICK e, r : Splits(p, s, e, r)
    BY <1>2, SplitsExists
  <1>4. Cursor(p)[s] = At(p, e, r)
    BY <1>2, <1>3, CursorSplits
  <1>5. e \in Nat /\ r \in Nat /\ r < w /\ s = e * w + r
    BY <1>1, <1>3 DEF Splits
  <1>6. PICK b : b = r * p.accum /\ b \in Nat /\ Window(p, b) \in Nat \ {0}
    BY <1>1, <1>5, WindowProperties
  <1>7. Cursor(p)[s].epoch = e /\ Cursor(p)[s].batch = b
    BY <1>4, <1>6 DEF At
  <1>8. ASSUME p.epochs # Absent
        PROVE  e < p.epochs
    <2>1. PICK n \in Nat \ {0} : n = p.epochs /\ p.steps = n * w
      BY <1>1, <1>8 DEF IsPlan
    <2>2. ASSUME ~(e < n) PROVE FALSE
      <3>1. n * w <= e * w /\ e * w \in Nat /\ n * w \in Nat
        BY <1>1, <1>5, <2>1, <2>2, Multiples
      <3> QED BY <1>2, <1>5, <2>1, <3>1
    <2> QED BY <2>1, <2>2
  <1> QED BY <1>5, <1>6, <1>7, <1>8

\* The loops never raise: a plan's epochs are enough for its steps.
LEMMA Unexhausted ==
  ASSUME NEW p, IsPlan(p)
  PROVE  ~Exhausts(p)
  <1> SUFFICES ASSUME p.epochs # Absent, NEW s \in 0 .. (p.steps - 1),
                      Cursor(p)[s].epoch >= p.epochs
               PROVE  FALSE
    BY DEF Exhausts
  <1>1. Cursor(p)[s].epoch \in Nat /\ Cursor(p)[s].epoch < p.epochs /\ p.epochs \in Nat
    BY CursorTypes DEF IsPlan
  <1> QED BY <1>1

\* A path through the state machine, from a state and a count of completed steps
\* to a state and a count.
Path(log, before, from, after, to) ==
  /\ log # << >>
  /\ log[1].before = before /\ log[1].done = from
  /\ \A i \in 1 .. (Len(log) - 1) :
       /\ log[i + 1].before = log[i].after
       /\ log[i + 1].done - log[i].done \in {0, 1}
  /\ log[Len(log)].after = after /\ log[Len(log)].done = to

\* A path continues one that ends in its first state, at most one step later.
LEMMA PathsJoin ==
  ASSUME NEW x \in Seq(Frames), NEW y \in Seq(Frames),
         NEW b, NEW f \in Int, NEW a, NEW t \in Int, NEW g \in Int, NEW c, NEW u \in Int,
         Path(x, b, f, a, t), Path(y, a, g, c, u), g - t \in {0, 1}
  PROVE  Path(x \o y, b, f, c, u)
  <1>1. PICK m, n, z : /\ m \in Nat /\ m = Len(x) /\ n \in Nat /\ n = Len(y) /\ z = x \o y
    BY LenProperties
  <1>2. m # 0 /\ n # 0
    BY <1>1, EmptySeq DEF Path
  <1>3. /\ z \in Seq(Frames) /\ Len(z) = m + n
        /\ \A i \in 1 .. m : z[i] = x[i]
        /\ \A i \in 1 .. n : z[m + i] = y[i]
    <2>1. \A i \in 1 .. (m + n) : z[i] = IF i <= m THEN x[i] ELSE y[i - m]
      BY <1>1, ConcatProperties
    <2> QED BY <1>1, <2>1, ConcatProperties
  <1>4. z[1] = x[1] /\ z[m + n] = y[n] /\ z # << >>
    BY <1>1, <1>2, <1>3, EmptySeq
  <1>5. ASSUME NEW i \in 1 .. (m + n - 1)
        PROVE  z[i + 1].before = z[i].after /\ z[i + 1].done - z[i].done \in {0, 1}
    <2>1. CASE i < m
      <3>1. i \in 1 .. (m - 1) /\ z[i] = x[i] /\ z[i + 1] = x[i + 1]
        BY <1>1, <1>3, <2>1
      <3> QED BY <1>1, <3>1 DEF Path
    <2>2. CASE i = m
      <3>1. z[i] = x[m] /\ z[i + 1] = y[1]
        BY <1>1, <1>2, <1>3, <2>2
      <3> QED BY <1>1, <3>1 DEF Path
    <2>3. CASE i > m
      <3>1. PICK j : j = i - m
        OBVIOUS
      <3>2. j \in 1 .. (n - 1) /\ z[i] = y[j] /\ z[i + 1] = y[j + 1]
        <4>1. j \in 1 .. (n - 1) /\ j \in 1 .. n /\ j + 1 \in 1 .. n /\ i = m + j /\ i + 1 = m + (j + 1)
          BY <1>1, <2>3, <3>1
        <4> QED BY <1>3, <4>1
      <3> QED BY <1>1, <3>2 DEF Path
    <2> QED BY <1>1, <2>1, <2>2, <2>3
  <1>6. /\ z[1].before = b /\ z[1].done = f
        /\ z[m + n].after = c /\ z[m + n].done = u
    BY <1>1, <1>4 DEF Path
  <1>7. PICK k : k = m + n /\ k \in Nat /\ Len(z) = k
    BY <1>1, <1>3
  <1>8. z[k].after = c /\ z[k].done = u
    BY <1>6, <1>7
  <1>9. \A i \in 1 .. (k - 1) : i \in 1 .. (m + n - 1)
    BY <1>1, <1>7
  <1>10. Path(z, b, f, c, u)
    BY <1>4, <1>5, <1>6, <1>7, <1>8, <1>9 DEF Path
  <1> QED BY <1>1, <1>10

\* FramesOf, frame by frame.
LEMMA FramesOfProperties ==
  ASSUME NEW x \in Seq(OwnedFrames)
  PROVE  /\ FramesOf(x) \in Seq(Frames) /\ Len(FramesOf(x)) = Len(x)
         /\ \A i \in 1 .. Len(x) : FramesOf(x)[i] = x[i].frame /\ x[i] \in OwnedFrames
  <1>1. PICK n \in Nat : n = Len(x) /\ DOMAIN x = 1 .. n /\ \A i \in 1 .. n : x[i] \in OwnedFrames
    BY LenProperties, ElementOfSeq
  <1>2. \A i \in 1 .. n : x[i].frame \in Frames
    BY <1>1 DEF OwnedFrames
  <1> QED BY <1>1, <1>2 DEF FramesOf

\* FramesOf of one sequence after another.
LEMMA FramesOfConcat ==
  ASSUME NEW x \in Seq(OwnedFrames), NEW y \in Seq(OwnedFrames)
  PROVE  FramesOf(x \o y) = FramesOf(x) \o FramesOf(y)
  <1>1. PICK m, n, z : /\ m \in Nat /\ m = Len(x) /\ n \in Nat /\ n = Len(y) /\ z = x \o y
    BY LenProperties
  <1>2. z \in Seq(OwnedFrames) /\ Len(z) = m + n
        /\ \A i \in 1 .. (m + n) : z[i] = IF i <= m THEN x[i] ELSE y[i - m]
    BY <1>1, ConcatProperties
  <1>3. PICK fx, fy, fz, w : fx = FramesOf(x) /\ fy = FramesOf(y) /\ fz = FramesOf(z) /\ w = fx \o fy
    OBVIOUS
  <1>4. /\ fx \in Seq(Frames) /\ Len(fx) = m /\ \A i \in 1 .. m : fx[i] = x[i].frame
        /\ fy \in Seq(Frames) /\ Len(fy) = n /\ \A i \in 1 .. n : fy[i] = y[i].frame
        /\ fz \in Seq(Frames) /\ Len(fz) = m + n /\ \A i \in 1 .. (m + n) : fz[i] = z[i].frame
    BY <1>1, <1>2, <1>3, FramesOfProperties
  <1>5. w \in Seq(Frames) /\ Len(w) = m + n
        /\ \A i \in 1 .. (m + n) : w[i] = IF i <= m THEN fx[i] ELSE fy[i - m]
    BY <1>3, <1>4, ConcatProperties, SMTT(30)
  <1>6. ASSUME NEW i \in 1 .. (m + n)
        PROVE  fz[i] = w[i]
    <2>1. CASE i <= m
      <3>1. i \in 1 .. m
        BY <1>1, <2>1
      <3>2. i \in 1 .. (m + n)
        OBVIOUS
      <3>3. z[i] = x[i] /\ w[i] = fx[i]
        BY <1>2, <1>5, <2>1, <3>2
      <3>4. fz[i] = z[i].frame /\ fx[i] = x[i].frame
        BY <1>4, <3>1, <3>2
      <3> QED BY <3>3, <3>4
    <2>2. CASE ~(i <= m)
      <3>1. i - m \in 1 .. n
        BY <1>1, <2>2
      <3> QED BY <1>2, <1>4, <1>5, <2>2, <3>1, ZenonT(60)
    <2> QED BY <2>1, <2>2
  <1>7. fz = w
    BY <1>4, <1>5, <1>6, SeqEqual
  <1> QED BY <1>1, <1>3, <1>7

\* A frame of the loops is a valid event.
LEMMA ProgressingIsValid ==
  ASSUME NEW type \in {"batch", "step", "epoch"}, NEW epoch \in Int, NEW batch \in Int,
         NEW step \in Int, NEW done \in Int
  PROVE  Progressing(type, epoch, batch, step, done) \in Frames
  BY DEF Progressing, Frame, Frames, ValidEvent, EventTransitions, LegalTransitions

\* Frames of step s, all with this count of completed steps.
LEMMA SameCount ==
  ASSUME NEW x \in Seq(OwnedFrames), x # << >>, NEW d \in Int,
         \A i \in 1 .. Len(x) : /\ x[i].frame.before = "running" /\ x[i].frame.after = "running"
                                /\ x[i].frame.done = d
  PROVE  Path(FramesOf(x), "running", d, "running", d)
  <1>1. PICK n, z : /\ n \in Nat /\ n = Len(x) /\ n # 0 /\ z = FramesOf(x)
    BY LenProperties, EmptySeq
  <1>2. /\ z \in Seq(Frames) /\ Len(z) = n /\ z # << >>
        /\ \A i \in 1 .. n : z[i].before = "running" /\ z[i].after = "running" /\ z[i].done = d
    BY <1>1, FramesOfProperties, EmptySeq
  <1>3. ASSUME NEW i \in 1 .. (n - 1)
        PROVE  z[i + 1].before = z[i].after /\ z[i + 1].done - z[i].done \in {0, 1}
    <2>1. i \in 1 .. n /\ i + 1 \in 1 .. n
      BY <1>1
    <2> QED BY <1>2, <2>1
  <1> QED BY <1>1, <1>2, <1>3 DEF Path

\* The frames of one step.
StepPath(x, s) ==
  /\ x \in Seq(OwnedFrames)
  /\ \A i \in DOMAIN x : x[i].owner = s
  /\ Path(FramesOf(x), "running", s - 1, "running", s)

\* The frames that one turn appends are a path from step s - 1 to step s: the
\* batches before the step, the end of the epoch after it.
LEMMA StepIsPath ==
  ASSUME NEW p, IsPlan(p), NEW s \in 1 .. p.steps
  PROVE  StepPath(StepFrames(p, s), s)
  <1>0. s - 1 \in 0 .. (p.steps - 1) /\ s \in Int
    BY DEF IsPlan
  <1>1. PICK e, b, w : /\ e = Cursor(p)[s - 1].epoch /\ b = Cursor(p)[s - 1].batch
                       /\ w = Window(p, b)
    OBVIOUS
  <1>2. e \in Int /\ b \in Int /\ w \in Nat \ {0}
    BY <1>0, <1>1, CursorTypes
  <1>3. PICK batches : batches = [i \in 1 .. w |->
                          Owned(Progressing("batch", e, b + i - 1, Absent, s - 1), s)]
    OBVIOUS
  <1>4. PICK step : step = Owned(Progressing("step", e, Absent, s, s), s)
    OBVIOUS
  <1>5. PICK epoch : epoch = Owned(Progressing("epoch", e, Absent, Absent, s), s)
    OBVIOUS
  <1>6. PICK end : end = IF b + w >= p.batches THEN <<epoch>> ELSE << >>
    OBVIOUS
  <1>7. StepFrames(p, s) = batches \o <<step>> \o end
    BY <1>1, <1>3, <1>4, <1>5, <1>6 DEF StepFrames
  <1>8. ASSUME NEW type \in {"batch", "step", "epoch"}, NEW batch \in Int,
               NEW n \in Int, NEW done \in Int
        PROVE  LET o == Owned(Progressing(type, e, batch, n, done), s)
               IN /\ o \in OwnedFrames /\ o.owner = s /\ o.frame.done = done
                  /\ o.frame.before = "running" /\ o.frame.after = "running"
    <2>1. Progressing(type, e, batch, n, done) \in Frames
      BY <1>2, ProgressingIsValid
    <2> QED BY <1>0, <2>1 DEF Owned, OwnedFrames, Progressing, Frame
  <1>9. StepPath(StepFrames(p, s), s)
    <2>1. /\ batches \in Seq(OwnedFrames) /\ Len(batches) = w /\ DOMAIN batches = 1 .. w
          /\ \A i \in 1 .. w : /\ batches[i].owner = s /\ batches[i].frame.done = s - 1
                               /\ batches[i].frame.before = "running"
                               /\ batches[i].frame.after = "running"
      <3>1. \A i \in 1 .. w : b + i - 1 \in Int /\ Absent \in Int /\ s - 1 \in Int
        BY <1>0, <1>2 DEF Absent
      <3>2. ASSUME NEW i \in 1 .. w
            PROVE  /\ batches[i] \in OwnedFrames
                   /\ batches[i].owner = s /\ batches[i].frame.done = s - 1
                   /\ batches[i].frame.before = "running"
                   /\ batches[i].frame.after = "running"
        <4>1. batches[i] = Owned(Progressing("batch", e, b + i - 1, Absent, s - 1), s)
          BY <1>3
        <4>2. PICK n, d, o : /\ n = b + i - 1 /\ d = s - 1
                             /\ o = Owned(Progressing("batch", e, n, Absent, d), s)
          OBVIOUS
        <4>3. n \in Int /\ d \in Int /\ Absent \in Int /\ batches[i] = o
          BY <3>1, <4>1, <4>2
        <4>4. PICK f : f = Progressing("batch", e, n, Absent, d) /\ o = Owned(f, s)
          BY <4>2
        <4>5. f \in Frames
          BY <1>2, <4>3, <4>4, ProgressingIsValid
        <4>6. f.done = d /\ f.before = "running" /\ f.after = "running"
          BY <4>4 DEF Progressing, Frame
        <4>7. /\ o \in OwnedFrames /\ o.owner = s /\ o.frame.done = d
              /\ o.frame.before = "running" /\ o.frame.after = "running"
          BY <1>0, <4>4, <4>5, <4>6 DEF Owned, OwnedFrames
        <4> QED BY <4>2, <4>3, <4>7
      <3>3. batches \in [1 .. w -> OwnedFrames]
        BY <1>3, <3>2
      <3>4. batches \in Seq(OwnedFrames) /\ Len(batches) = w /\ DOMAIN batches = 1 .. w
        BY <1>2, <3>3
      <3> QED BY <3>2, <3>4
    <2>2. /\ step \in OwnedFrames /\ step.owner = s /\ step.frame.done = s
          /\ step.frame.before = "running" /\ step.frame.after = "running"
      BY <1>0, <1>4, <1>8, SMTT(30) DEF Absent
    <2>3. /\ epoch \in OwnedFrames /\ epoch.owner = s /\ epoch.frame.done = s
          /\ epoch.frame.before = "running" /\ epoch.frame.after = "running"
      BY <1>0, <1>5, <1>8, SMTT(30) DEF Absent
    <2>4. PICK steps : steps = <<step>> \o end
      OBVIOUS
    <2>5. /\ steps \in Seq(OwnedFrames) /\ steps # << >>
          /\ \A i \in 1 .. Len(steps) : /\ steps[i].owner = s /\ steps[i].frame.done = s
                               /\ steps[i].frame.before = "running"
                               /\ steps[i].frame.after = "running"
      <3>1. CASE b + w >= p.batches
        <4>1. PICK x, y : x = <<step>> /\ y = <<epoch>>
          OBVIOUS
        <4>2. /\ x \in Seq(OwnedFrames) /\ y \in Seq(OwnedFrames)
              /\ Len(x) = 1 /\ Len(y) = 1 /\ x[1] = step /\ y[1] = epoch
          BY <2>2, <2>3, <4>1
        <4>3. steps = x \o y
          BY <1>6, <2>4, <3>1, <4>1
        <4>4. /\ steps \in Seq(OwnedFrames) /\ Len(steps) = 2
              /\ \A i \in 1 .. 2 : steps[i] = IF i <= 1 THEN x[i] ELSE y[i - 1]
          BY <4>2, <4>3, ConcatProperties
        <4>5. steps[1] = step /\ steps[2] = epoch /\ steps # << >>
          BY <4>2, <4>4, EmptySeq
        <4> QED BY <2>2, <2>3, <4>4, <4>5
      <3>2. CASE ~(b + w >= p.batches)
        <4>1. steps = <<step>>
          BY <1>6, <2>4, <3>2
        <4> QED BY <2>2, <4>1
      <3> QED BY <3>1, <3>2
    <2>6. <<step>> \in Seq(OwnedFrames) /\ end \in Seq(OwnedFrames)
      BY <1>6, <2>2, <2>3
    <2>7. PICK x : x = StepFrames(p, s) /\ x = batches \o steps
      <3>1. batches \in Seq(OwnedFrames) /\ <<step>> \in Seq(OwnedFrames) /\ end \in Seq(OwnedFrames)
        BY <2>1, <2>6
      <3>2. (batches \o <<step>>) \o end = batches \o (<<step>> \o end)
        BY <3>1, ConcatAssociative, SMTT(30)
      <3> QED BY <1>7, <2>4, <3>2
    <2>8. batches # << >>
      BY <1>2, <2>1, EmptySeq
    <2>9. /\ Path(FramesOf(batches), "running", s - 1, "running", s - 1)
          /\ Path(FramesOf(steps), "running", s, "running", s)
      <3>1. s - 1 \in Int
        BY <1>0
      <3>2. Path(FramesOf(batches), "running", s - 1, "running", s - 1)
        BY <2>1, <2>8, <3>1, SameCount
      <3>3. Path(FramesOf(steps), "running", s, "running", s)
        BY <1>0, <2>5, SameCount
      <3> QED BY <3>2, <3>3
    <2>10. FramesOf(batches) \in Seq(Frames) /\ FramesOf(steps) \in Seq(Frames)
      BY <2>1, <2>5, FramesOfProperties
    <2>11. FramesOf(x) = FramesOf(batches) \o FramesOf(steps)
      BY <2>1, <2>5, <2>7, FramesOfConcat
    <2>12. Path(FramesOf(x), "running", s - 1, "running", s)
      <3>1. s - 1 \in Int /\ s - (s - 1) \in {0, 1}
        BY <1>0
      <3>2. Path(FramesOf(batches) \o FramesOf(steps), "running", s - 1, "running", s)
        BY <1>0, <2>9, <2>10, <3>1, PathsJoin
      <3> QED BY <2>11, <3>2
    <2>13. x \in Seq(OwnedFrames) /\ \A i \in DOMAIN x : x[i].owner = s
      <3>1. PICK n \in Nat : n = Len(steps)
        BY <2>5, LenProperties
      <3>2. /\ x \in Seq(OwnedFrames) /\ Len(x) = w + n
            /\ \A i \in 1 .. (w + n) : x[i] = IF i <= w THEN batches[i] ELSE steps[i - w]
        <4>1. batches \in Seq(OwnedFrames) /\ steps \in Seq(OwnedFrames) /\ Len(batches) = w
          BY <2>1, <2>5
        <4>2. x = batches \o steps /\ Len(steps) = n
          BY <2>7, <3>1
        <4> QED BY <4>1, <4>2, ConcatProperties
      <3>3. DOMAIN x = 1 .. (w + n)
        BY <3>2, LenProperties
      <3>4. ASSUME NEW i \in 1 .. (w + n)
            PROVE  x[i].owner = s
        <4>1. CASE i <= w
          BY <1>2, <2>1, <3>2, <4>1
        <4>2. CASE ~(i <= w)
          <5>1. i - w \in 1 .. n
            BY <1>2, <3>1, <4>2
          <5> QED BY <2>5, <3>1, <3>2, <4>2, <5>1
        <4> QED BY <4>1, <4>2
      <3> QED BY <3>2, <3>3, <3>4
    <2> QED BY <2>7, <2>12, <2>13 DEF StepPath
  <1> QED BY <1>9

-----------------------------------------------------------------------------
(* The progress of an execution                                            *)

\* The frames of the first n steps, ...
Through(p, n) == FlattenSeq([s \in 1 .. n |-> StepFrames(p, s)])

\* ... step by step, ...
LEMMA ThroughRecursive ==
  ASSUME NEW p, IsPlan(p)
  PROVE  /\ Through(p, 0) = << >>
         /\ \A n \in 0 .. p.steps : Through(p, n) \in Seq(OwnedFrames)
         /\ \A n \in 0 .. (p.steps - 1) :
              Through(p, n + 1) = Through(p, n) \o StepFrames(p, n + 1)
  <1> DEFINE Turns(n) == [s \in 1 .. n |-> StepFrames(p, s)]
  <1>1. p.steps \in Nat
    BY DEF IsPlan
  <1>2. ASSUME NEW s \in 1 .. p.steps
        PROVE  StepFrames(p, s) \in Seq(OwnedFrames)
    BY StepIsPath DEF StepPath
  <1>3. ASSUME NEW n \in 0 .. p.steps
        PROVE  Turns(n) \in Seq(Seq(OwnedFrames)) /\ Len(Turns(n)) = n
    <2>1. \A s \in 1 .. n : StepFrames(p, s) \in Seq(OwnedFrames)
      BY <1>1, <1>2
    <2> QED BY <1>1, <2>1
  <1>4. Turns(0) = << >>
    OBVIOUS
  <1>5. ASSUME NEW n \in 0 .. (p.steps - 1)
        PROVE  Through(p, n + 1) = Through(p, n) \o StepFrames(p, n + 1)
    <2>1. n \in 0 .. p.steps /\ n + 1 \in 1 .. p.steps /\ n + 1 \in 0 .. p.steps
      BY <1>1
    <2>2. PICK x, t, y : x = StepFrames(p, n + 1) /\ t = Turns(n) /\ y = Turns(n + 1)
      OBVIOUS
    <2>3. x \in Seq(OwnedFrames) /\ t \in Seq(Seq(OwnedFrames)) /\ Len(t) = n
          /\ y \in Seq(Seq(OwnedFrames)) /\ Len(y) = n + 1
      BY <1>2, <1>3, <2>1, <2>2
    <2>4. y[n + 1] = x /\ \A i \in 1 .. n : y[i] = t[i]
      BY <2>1, <2>2
    <2>5. FlattenSeq(y) = FlattenSeq(t) \o x
      BY <2>3, <2>4, FlattenOneMore
    <2> QED BY <2>2, <2>5 DEF Through
  <1>6. ASSUME NEW n \in 0 .. p.steps
        PROVE  Through(p, n) \in Seq(OwnedFrames)
    BY <1>3, FlattenSeqRecursive DEF Through
  <1> QED BY <1>4, <1>5, <1>6, FlattenSeqRecursive DEF Through

\* ... and those of them that an execution from a to b takes, ...
Taken(p, n, a, b) == Between(Through(p, n), a, b)

\* ... step by step.
LEMMA TakenRecursive ==
  ASSUME NEW p, IsPlan(p), NEW a \in Nat, NEW b \in Nat
  PROVE  /\ Taken(p, 0, a, b) = << >>
         /\ \A n \in 0 .. p.steps : Taken(p, n, a, b) \in Seq(OwnedFrames)
         /\ \A n \in 0 .. (p.steps - 1) :
              Taken(p, n + 1, a, b) = IF a < n + 1 /\ n + 1 <= b
                                        THEN Taken(p, n, a, b) \o StepFrames(p, n + 1)
                                        ELSE Taken(p, n, a, b)
  <1>1. Taken(p, 0, a, b) = << >>
    BY ThroughRecursive, BetweenTypes DEF Taken
  <1>2. \A n \in 0 .. p.steps : Taken(p, n, a, b) \in Seq(OwnedFrames)
    BY ThroughRecursive, BetweenTypes DEF Taken
  <1>3. ASSUME NEW n \in 0 .. (p.steps - 1)
        PROVE  Taken(p, n + 1, a, b) = IF a < n + 1 /\ n + 1 <= b
                                         THEN Taken(p, n, a, b) \o StepFrames(p, n + 1)
                                         ELSE Taken(p, n, a, b)
    <2>1. n \in 0 .. p.steps /\ n + 1 \in 1 .. p.steps
      BY DEF IsPlan
    <2>2. PICK x, y, s : x = Through(p, n) /\ y = StepFrames(p, n + 1) /\ s = n + 1
      OBVIOUS
    <2>3. x \in Seq(OwnedFrames) /\ y \in Seq(OwnedFrames) /\ \A i \in DOMAIN y : y[i].owner = s
      BY <2>1, <2>2, StepIsPath, ThroughRecursive DEF StepPath
    <2>4. Taken(p, n + 1, a, b) = Between(x \o y, a, b)
      BY <2>2, ThroughRecursive DEF Taken
    <2>5. Between(x \o y, a, b) = Between(x, a, b) \o Between(y, a, b)
      BY <2>3, BetweenOfConcat
    <2>6. Between(y, a, b) = IF a < s /\ s <= b THEN y ELSE << >>
      BY <2>3, BetweenOfOneStep
    <2>7. PICK t : t = Taken(p, n, a, b) /\ t = Between(x, a, b) /\ t \in Seq(OwnedFrames)
      BY <1>2, <2>1, <2>2 DEF Taken
    <2>8. t \o << >> = t
      BY <2>7, ConcatEmptySeq
    <2> QED BY <2>2, <2>4, <2>5, <2>6, <2>7, <2>8
  <1> QED BY <1>1, <1>2, <1>3

\* They are a path from a to the last step taken.
LEMMA TakenIsPath ==
  ASSUME NEW p, IsPlan(p), NEW a \in Nat, NEW b \in Nat, NEW n \in 0 .. p.steps
  PROVE  /\ n <= a => Taken(p, n, a, b) = << >>
         /\ a < n /\ a < b =>
              Path(FramesOf(Taken(p, n, a, b)), "running", a, "running", IF n <= b THEN n ELSE b)
  <1> DEFINE P(k) ==
        /\ k <= a => Taken(p, k, a, b) = << >>
        /\ a < k /\ a < b =>
             Path(FramesOf(Taken(p, k, a, b)), "running", a, "running", IF k <= b THEN k ELSE b)
  <1>1. PICK T : T = { k \in Nat : k <= p.steps => P(k) }
    OBVIOUS
  <1>2. 0 \in T
    BY <1>1, TakenRecursive
  <1>3. ASSUME NEW k \in Nat, k \in T
        PROVE  k + 1 \in T
    <2>1. ASSUME k + 1 <= p.steps
          PROVE  P(k + 1)
      <3>0. p.steps \in Nat
        BY DEF IsPlan
      <3>1. k \in 0 .. (p.steps - 1) /\ k \in 0 .. p.steps /\ k + 1 \in 1 .. p.steps /\ P(k)
        BY <1>1, <1>3, <2>1, <3>0
      <3>2. PICK t, u, s : t = Taken(p, k, a, b) /\ u = Taken(p, k + 1, a, b) /\ s = StepFrames(p, k + 1)
        OBVIOUS
      <3>3. t \in Seq(OwnedFrames) /\ u = IF a < k + 1 /\ k + 1 <= b THEN t \o s ELSE t
        BY <3>1, <3>2, TakenRecursive
      <3>4. s \in Seq(OwnedFrames) /\ Path(FramesOf(s), "running", k, "running", k + 1)
        BY <3>1, <3>2, StepIsPath DEF StepPath
      <3>5. CASE k + 1 <= a
        BY <3>1, <3>2, <3>3, <3>5
      <3>6. CASE a < k + 1 /\ b < k + 1
        <4>1. ASSUME a < b
              PROVE  Path(FramesOf(u), "running", a, "running", IF k + 1 <= b THEN k + 1 ELSE b)
          <5>1. a < k /\ b <= k
            BY <3>6, <4>1
          <5>2. Path(FramesOf(t), "running", a, "running", IF k <= b THEN k ELSE b)
            BY <3>1, <3>2, <4>1, <5>1
          <5>3. (IF k <= b THEN k ELSE b) = IF k + 1 <= b THEN k + 1 ELSE b
            BY <3>6, <5>1
          <5>4. u = t
            BY <3>3, <3>6
          <5> QED BY <5>2, <5>3, <5>4
        <4> QED BY <3>2, <3>6, <4>1
      <3>7. CASE a < k + 1 /\ k + 1 <= b
        <4>1. u = t \o s
          BY <3>3, <3>7
        <4>2. CASE k = a
          <5>1. t = << >>
            BY <3>1, <3>2, <4>2
          <5>2. u = s
            BY <3>4, <4>1, <5>1, ConcatEmptySeq
          <5> QED BY <3>2, <3>4, <3>7, <4>2, <5>2
        <4>3. CASE k # a
          <5>1. a < k /\ a < b /\ k <= b
            BY <3>7, <4>3
          <5>2. Path(FramesOf(t), "running", a, "running", k)
            BY <3>1, <3>2, <5>1
          <5>3. FramesOf(t) \in Seq(Frames) /\ FramesOf(s) \in Seq(Frames)
                /\ FramesOf(u) = FramesOf(t) \o FramesOf(s)
            BY <3>3, <3>4, <4>1, FramesOfProperties, FramesOfConcat
          <5>4. a \in Int /\ k \in Int /\ k + 1 \in Int /\ k - k \in {0, 1}
            OBVIOUS
          <5>5. Path(FramesOf(t) \o FramesOf(s), "running", a, "running", k + 1)
            BY <3>4, <5>2, <5>3, <5>4, PathsJoin
          <5>6. Path(FramesOf(u), "running", a, "running", k + 1)
            BY <5>3, <5>5
          <5> QED BY <3>2, <3>7, <5>6
        <4> QED BY <4>2, <4>3
      <3> QED BY <3>5, <3>6, <3>7
    <2> QED BY <1>1, <2>1
  <1>4. n \in T
    BY <1>2, <1>3, Induction
  <1> QED BY <1>1, <1>4

\* What is taken from a to c is what is taken from a to b and then from b to c.
LEMMA TakenJoins ==
  ASSUME NEW p, IsPlan(p), NEW a \in Nat, NEW b \in Nat, NEW c \in Nat, a <= b, b <= c,
         NEW n \in 0 .. p.steps
  PROVE  Taken(p, n, a, c) = Taken(p, n, a, b) \o Taken(p, n, b, c)
  <1> DEFINE P(k) == Taken(p, k, a, c) = Taken(p, k, a, b) \o Taken(p, k, b, c)
  <1>1. PICK T : T = { k \in Nat : k <= p.steps => P(k) }
    OBVIOUS
  <1>2. 0 \in T
    <2>1. << >> \o << >> = << >>
      OBVIOUS
    <2>2. Taken(p, 0, a, c) = << >> /\ Taken(p, 0, a, b) = << >> /\ Taken(p, 0, b, c) = << >>
      BY TakenRecursive
    <2>3. P(0)
      BY <2>1, <2>2
    <2> QED BY <1>1, <2>3
  <1>3. ASSUME NEW k \in Nat, k \in T
        PROVE  k + 1 \in T
    <2>1. ASSUME k + 1 <= p.steps
          PROVE  P(k + 1)
      <3>0. p.steps \in Nat
        BY DEF IsPlan
      <3>1. k \in 0 .. (p.steps - 1) /\ k \in 0 .. p.steps /\ k + 1 \in 0 .. p.steps
            /\ k + 1 \in 1 .. p.steps
        BY <2>1, <3>0
      <3>2. PICK s, ab, bc, ac, abn, bcn, acn :
               /\ s = StepFrames(p, k + 1)
               /\ ab = Taken(p, k, a, b) /\ bc = Taken(p, k, b, c) /\ ac = Taken(p, k, a, c)
               /\ abn = Taken(p, k + 1, a, b) /\ bcn = Taken(p, k + 1, b, c)
               /\ acn = Taken(p, k + 1, a, c)
        OBVIOUS
      <3>3. /\ ab \in Seq(OwnedFrames) /\ bc \in Seq(OwnedFrames) /\ ac \in Seq(OwnedFrames)
            /\ abn \in Seq(OwnedFrames) /\ bcn \in Seq(OwnedFrames) /\ acn \in Seq(OwnedFrames)
        BY <3>1, <3>2, TakenRecursive
      <3>4. s \in Seq(OwnedFrames)
        BY <3>1, <3>2, StepIsPath DEF StepPath
      <3>5. ac = Then(ab, bc)
        BY <1>1, <1>3, <2>1, <3>0, <3>2 DEF Then
      <3>6. /\ abn = IF a < k + 1 /\ k + 1 <= b THEN Then(ab, s) ELSE ab
            /\ bcn = IF b < k + 1 /\ k + 1 <= c THEN Then(bc, s) ELSE bc
            /\ acn = IF a < k + 1 /\ k + 1 <= c THEN Then(ac, s) ELSE ac
        BY <3>1, <3>2, TakenRecursive DEF Then
      <3>7. acn = Then(abn, bcn)
        <4>1. CASE k + 1 <= b
          <5>1. bc = << >> /\ bcn = << >>
            BY <3>1, <3>2, <4>1, TakenIsPath
          <5>2. ac = ab
            <6>1. Then(ab, << >>) = ab
              BY <3>3, ConcatEmptySeq DEF Then
            <6> QED BY <3>5, <5>1, <6>1
          <5>3. acn = abn
            BY <3>6, <4>1, <5>2
          <5>4. Then(abn, << >>) = abn
            BY <3>3, ConcatEmptySeq DEF Then
          <5> QED BY <5>1, <5>3, <5>4
        <4>2. CASE b < k + 1 /\ k + 1 <= c
          <5>1. abn = ab /\ bcn = Then(bc, s) /\ acn = Then(ac, s)
            BY <3>6, <4>2
          <5>2. Then(Then(ab, bc), s) = Then(ab, Then(bc, s))
            <6>1. ab \in Seq(OwnedFrames) /\ bc \in Seq(OwnedFrames) /\ s \in Seq(OwnedFrames)
              BY <3>3, <3>4
            <6> QED BY <6>1, ConcatAssociative, SMTT(30) DEF Then
          <5> QED BY <3>5, <5>1, <5>2
        <4>3. CASE c < k + 1
          BY <3>5, <3>6, <4>3
        <4> QED BY <4>1, <4>2, <4>3
      <3> QED BY <3>2, <3>7 DEF Then
    <2> QED BY <1>1, <2>1
  <1>4. n \in T
    BY <1>2, <1>3, Induction
  <1> QED BY <1>1, <1>4

\* The progress of an execution.
LEMMA ProgressIsPath ==
  ASSUME NEW p, IsPlan(p), NEW a \in Nat, NEW b \in 0 .. p.steps, a < b
  PROVE  Progress(p, a, b) \in Seq(Frames) /\ Path(Progress(p, a, b), "running", a, "running", b)
  <1>1. p.steps \in Nat /\ p.steps \in 0 .. p.steps /\ a < p.steps /\ b \in Nat
    BY DEF IsPlan
  <1>2. Progress(p, a, b) = FramesOf(Taken(p, p.steps, a, b))
    BY DEF Progress, ProgressFrames, Through, Taken
  <1>3. Taken(p, p.steps, a, b) \in Seq(OwnedFrames)
    BY <1>1, TakenRecursive
  <1>4. Path(FramesOf(Taken(p, p.steps, a, b)), "running", a, "running",
             IF p.steps <= b THEN p.steps ELSE b)
    BY <1>1, TakenIsPath
  <1>5. (IF p.steps <= b THEN p.steps ELSE b) = b
    BY <1>1
  <1> QED BY <1>2, <1>3, <1>4, <1>5, FramesOfProperties

\* Progress from a to c is progress from a to b and then from b to c.
LEMMA ProgressJoins ==
  ASSUME NEW p, IsPlan(p), NEW a \in Nat, NEW b \in Nat, NEW c \in Nat, a <= b, b <= c
  PROVE  /\ Progress(p, a, c) = Progress(p, a, b) \o Progress(p, b, c)
         /\ Progress(p, a, b) \in Seq(Frames) /\ Progress(p, b, c) \in Seq(Frames)
  <1>1. p.steps \in 0 .. p.steps
    BY DEF IsPlan
  <1>2. \A x, y : Progress(p, x, y) = FramesOf(Taken(p, p.steps, x, y))
    BY DEF Progress, ProgressFrames, Through, Taken
  <1>3. Taken(p, p.steps, a, b) \in Seq(OwnedFrames) /\ Taken(p, p.steps, b, c) \in Seq(OwnedFrames)
    BY <1>1, TakenRecursive
  <1>4. Taken(p, p.steps, a, c) = Taken(p, p.steps, a, b) \o Taken(p, p.steps, b, c)
    BY <1>1, TakenJoins
  <1>5. PICK x, y, z : /\ x = Taken(p, p.steps, a, b) /\ y = Taken(p, p.steps, b, c)
                       /\ z = Taken(p, p.steps, a, c)
    OBVIOUS
  <1>6. x \in Seq(OwnedFrames) /\ y \in Seq(OwnedFrames) /\ z = x \o y
    BY <1>3, <1>4, <1>5
  <1>7. FramesOf(z) = FramesOf(x) \o FramesOf(y)
    BY <1>6, FramesOfConcat
  <1>8. FramesOf(x) \in Seq(Frames) /\ FramesOf(y) \in Seq(Frames)
    BY <1>6, FramesOfProperties
  <1> QED BY <1>2, <1>5, <1>7, <1>8

-----------------------------------------------------------------------------
(* The log of an execution                                                 *)

\* A lifecycle event of a legal transition is a valid event.
LEMMA TurnIsValid ==
  ASSUME NEW type \in DOMAIN EventTransitions, NEW before \in DOMAIN LegalTransitions,
         NEW after \in LegalTransitions[before], <<before, after>> \in EventTransitions[type],
         NEW done \in Int
  PROVE  /\ Turn(type, before, after, done) \in Frames
         /\ Turn(type, before, after, done).before = before
         /\ Turn(type, before, after, done).after = after
         /\ Turn(type, before, after, done).done = done
  BY DEF Turn, Frame, Frames, ValidEvent, EventTransitions, LegalTransitions, Absent

\* The transitions of the lifecycle events.
LEMMA OpeningTurns ==
  /\ {"validated", "starting", "started", "resumed"} \subseteq DOMAIN EventTransitions
  /\ {"planned", "validated", "starting", "failed", "resumed"} \subseteq DOMAIN LegalTransitions
  /\ "validated" \in LegalTransitions["planned"]
  /\ <<"planned", "validated">> \in EventTransitions["validated"]
  /\ "starting" \in LegalTransitions["validated"]
  /\ <<"validated", "starting">> \in EventTransitions["starting"]
  /\ "running" \in LegalTransitions["starting"]
  /\ <<"starting", "running">> \in EventTransitions["started"]
  /\ "resumed" \in LegalTransitions["failed"]
  /\ <<"failed", "resumed">> \in EventTransitions["resumed"]
  /\ "running" \in LegalTransitions["resumed"]
  /\ <<"resumed", "running">> \in EventTransitions["started"]
  BY DEF EventTransitions, LegalTransitions

\* The headers of executions that the engine builds.
IsHeader(p, e) ==
  /\ e.retry \in Nat /\ e.offset \in Nat /\ (e.retry > 0 <=> e.offset > 0)
  /\ e.final \in FinalStates /\ e.completed \in 0 .. p.steps /\ e.offset < e.completed

\* The lifecycle events before the progress lead to "running" at the offset.
LEMMA OpeningIsPath ==
  ASSUME NEW p, NEW e, IsHeader(p, e)
  PROVE  /\ Opening(e) \in Seq(Frames)
         /\ Path(Opening(e), IF e.retry = 0 THEN "planned" ELSE "failed", e.offset,
                 "running", e.offset)
  <1>1. e.retry \in Nat /\ e.offset \in Nat /\ (e.retry > 0 <=> e.offset > 0)
        /\ e.offset \in Int /\ 0 \in Int
    BY DEF IsHeader
  <1>2. CASE e.retry > 0
    <2>1. PICK f, g : /\ f = Turn("resumed", "failed", "resumed", e.offset)
                      /\ g = Turn("started", "resumed", "running", e.offset)
      OBVIOUS
    <2>2. /\ f \in Frames /\ f.before = "failed" /\ f.after = "resumed" /\ f.done = e.offset
      BY <1>1, <2>1, OpeningTurns, TurnIsValid
    <2>3. /\ g \in Frames /\ g.before = "resumed" /\ g.after = "running" /\ g.done = e.offset
      BY <1>1, <2>1, OpeningTurns, TurnIsValid
    <2>4. Opening(e) = <<f, g>>
      BY <1>2, <2>1 DEF Opening, OpeningThrough
    <2>5. PICK x : x = <<f, g>>
      OBVIOUS
    <2>6. Len(x) = 2 /\ x[1] = f /\ x[2] = g /\ x \in Seq(Frames) /\ x # << >>
      BY <2>2, <2>3, <2>5
    <2>7. Path(x, "failed", e.offset, "running", e.offset)
      BY <1>1, <2>2, <2>3, <2>6 DEF Path
    <2> QED BY <1>1, <1>2, <2>4, <2>5, <2>6, <2>7
  <1>3. CASE e.retry = 0
    <2>1. PICK f, g, h : /\ f = Turn("validated", "planned", "validated", 0)
                         /\ g = Turn("starting", "validated", "starting", 0)
                         /\ h = Turn("started", "starting", "running", 0)
      OBVIOUS
    <2>2. /\ f \in Frames /\ f.before = "planned" /\ f.after = "validated" /\ f.done = 0
      BY <2>1, OpeningTurns, TurnIsValid
    <2>3. /\ g \in Frames /\ g.before = "validated" /\ g.after = "starting" /\ g.done = 0
      BY <2>1, OpeningTurns, TurnIsValid
    <2>4. /\ h \in Frames /\ h.before = "starting" /\ h.after = "running" /\ h.done = 0
      BY <2>1, OpeningTurns, TurnIsValid
    <2>5. Opening(e) = <<f, g, h>>
      BY <1>3, <2>1 DEF Opening, OpeningThrough
    <2>6. PICK x : x = <<f, g, h>>
      OBVIOUS
    <2>7. Len(x) = 3 /\ x[1] = f /\ x[2] = g /\ x[3] = h
          /\ x \in Seq(Frames) /\ x # << >>
      BY <2>2, <2>3, <2>4, <2>6
    <2>8. Path(x, "planned", 0, "running", 0)
      BY <2>2, <2>3, <2>4, <2>7 DEF Path
    <2>9. e.offset = 0
      BY <1>1, <1>3
    <2> QED BY <1>3, <2>5, <2>6, <2>7, <2>8, <2>9
  <1> QED BY <1>1, <1>2, <1>3

\* The last event leads from "running" to the final state.
LEMMA ClosingIsPath ==
  ASSUME NEW final \in FinalStates, NEW done \in Int
  PROVE  /\ <<Turn(final, "running", final, done)>> \in Seq(Frames)
         /\ Path(<<Turn(final, "running", final, done)>>, "running", done, final, done)
  <1>1. PICK f : f = Turn(final, "running", final, done)
    OBVIOUS
  <1>2. f \in Frames /\ f.before = "running" /\ f.after = final /\ f.done = done
    <2>1. /\ final \in DOMAIN EventTransitions /\ "running" \in DOMAIN LegalTransitions
          /\ final \in LegalTransitions["running"]
          /\ <<"running", final>> \in EventTransitions[final]
      BY DEF FinalStates, EventTransitions, LegalTransitions
    <2> QED BY <1>1, <2>1, TurnIsValid
  <1>3. PICK x : x = <<f>>
    OBVIOUS
  <1>4. Len(x) = 1 /\ x[1] = f /\ x \in Seq(Frames) /\ x # << >>
    BY <1>2, <1>3
  <1>5. Path(x, "running", done, final, done)
    BY <1>2, <1>4 DEF Path
  <1> QED BY <1>1, <1>3, <1>4, <1>5

\* A whole log is one path.
LEMMA LogIsPath ==
  ASSUME NEW p, IsPlan(p), NEW e, IsHeader(p, e)
  PROVE  /\ Log(p, e) \in Seq(Frames)
         /\ Path(Log(p, e), IF e.retry = 0 THEN "planned" ELSE "failed", e.offset,
                 e.final, e.completed)
  <1>1. e.offset \in Nat /\ e.completed \in 0 .. p.steps /\ e.offset < e.completed
        /\ e.final \in FinalStates /\ e.offset \in Int /\ e.completed \in Int
    BY DEF IsHeader, IsPlan
  <1>2. PICK x, y, z, b, o, d :
          /\ x = Opening(e) /\ y = Progress(p, e.offset, e.completed)
          /\ z = <<Turn(e.final, "running", e.final, e.completed)>>
          /\ b = IF e.retry = 0 THEN "planned" ELSE "failed"
          /\ o = e.offset /\ d = e.completed
    OBVIOUS
  <1>3. x \in Seq(Frames) /\ Path(x, b, o, "running", o)
    BY <1>2, OpeningIsPath
  <1>4. y \in Seq(Frames) /\ Path(y, "running", o, "running", d)
    BY <1>1, <1>2, ProgressIsPath
  <1>5. z \in Seq(Frames) /\ Path(z, "running", d, e.final, d)
    BY <1>1, <1>2, ClosingIsPath
  <1>6. o \in Int /\ d \in Int /\ o - o \in {0, 1} /\ d - d \in {0, 1}
    BY <1>1, <1>2
  <1>7. PICK xy : xy = x \o y /\ xy \in Seq(Frames)
    BY <1>3, <1>4, ConcatProperties
  <1>8. Path(xy, b, o, "running", d)
    BY <1>3, <1>4, <1>6, <1>7, PathsJoin
  <1>9. xy \o z \in Seq(Frames) /\ Path(xy \o z, b, o, e.final, d)
    BY <1>5, <1>6, <1>7, <1>8, PathsJoin, ConcatProperties
  <1>10. Log(p, e) = xy \o z
    BY <1>2, <1>7 DEF Log
  <1> QED BY <1>2, <1>9, <1>10

\* Every event of a log is accepted by its validator.
LEMMA LogIsValid ==
  ASSUME NEW p, IsPlan(p), NEW e, IsHeader(p, e)
  PROVE  \A f \in Range(Log(p, e)) : ValidEvent(f)
  <1>1. PICK x : x = Log(p, e) /\ x \in Seq(Frames)
    BY LogIsPath
  <1>2. \A i \in DOMAIN x : x[i] \in Frames
    BY <1>1, ElementOfSeq, LenProperties
  <1>3. \A f \in Frames : ValidEvent(f)
    BY DEF Frames
  <1> QED BY <1>1, <1>2, <1>3 DEF Range

-----------------------------------------------------------------------------
(* The chain of executions                                                 *)

\* Every execution of the chain has a valid header and gets past its resume
\* offset, the first starts at zero and every other one where the one before it
\* stopped.  The validator alone does not ask for a step: it accepts a fresh
\* execution that failed after none, and no resumption of that one would be
\* valid.  That the engine never builds it is what makes the rest inductive.
ChainInv ==
  /\ EngineTypeOK
  /\ \A i \in DOMAIN chain :
       ValidHeader(plan, policy, chain[i]) /\ chain[i].offset < chain[i].completed
  /\ chain # << >> => chain[1].offset = 0
  /\ \A i \in 1 .. (Len(chain) - 1) : chain[i + 1].offset = chain[i].completed

\* What _run builds, field by field.
LEMMA RunFields ==
  ASSUME NEW p, NEW retry, NEW offset, NEW e \in Runs(p, retry, offset)
  PROVE  /\ e = [retry |-> retry, offset |-> offset,
                 final |-> e.final, completed |-> e.completed]
         /\ \/ e.final = "completed" /\ e.completed = p.steps
            \/ e.final \in {"failed", "cancelled"} /\ e.completed \in Stops(p, offset)
  BY DEF Runs, Outcomes

\* A run from an offset short of the plan's end is an execution with a valid
\* header, when the retry number goes with the offset and the policy allows it.
LEMMA RunIsValid ==
  ASSUME NEW p, p.steps \in Nat \ {0}, NEW q, q.maxRetries \in Nat,
         NEW retry \in 0..q.maxRetries, NEW offset \in 0..p.steps,
         offset < p.steps, (retry > 0) <=> (offset > 0),
         retry > 0 => q.allowResume,
         NEW e \in Runs(p, retry, offset)
  PROVE  /\ e \in Executions(p, q) /\ ValidHeader(p, q, e)
         /\ e.retry = retry /\ e.offset = offset /\ offset < e.completed
  <1>1. /\ e = [retry |-> retry, offset |-> offset,
                final |-> e.final, completed |-> e.completed]
        /\ \/ e.final = "completed" /\ e.completed = p.steps
           \/ e.final \in {"failed", "cancelled"} /\ e.completed \in Stops(p, offset)
    BY RunFields
  <1>2. e.retry = retry /\ e.offset = offset
    BY <1>1
  <1>3. e.final \in FinalStates /\ e.completed \in 0..p.steps
    BY <1>1 DEF FinalStates, Stops
  <1>4. e \in Executions(p, q)
    BY <1>1, <1>2, <1>3 DEF Executions
  <1>5. CASE e.final = "completed"
    BY <1>1, <1>2, <1>3, <1>4, <1>5 DEF ValidHeader, Replays, Stops
  <1>6. CASE e.final # "completed"
    BY <1>1, <1>2, <1>3, <1>4, <1>6 DEF ValidHeader, Replays, Stops
  <1> QED BY <1>5, <1>6

\* The engine's guard on resumptions is enough for the validator: a failed
\* execution with a valid header has an offset to resume from.
LEMMA ResumptionIsValid ==
  ASSUME NEW p, p.steps \in Nat \ {0}, NEW q, q.maxRetries \in Nat,
         NEW e \in Executions(p, q), ValidHeader(p, q, e), e.offset < e.completed,
         NEW r \in Resumptions(p, q, e)
  PROVE  /\ r \in Executions(p, q) /\ ValidHeader(p, q, r)
         /\ r.retry = e.retry + 1 /\ r.offset = e.completed /\ r.offset < r.completed
  <1>1. /\ e.final = "failed" /\ q.allowResume /\ e.retry + 1 <= q.maxRetries
        /\ r \in Runs(p, e.retry + 1, e.completed)
    BY DEF Resumptions, Resumable
  <1>2. e.retry \in 0..q.maxRetries /\ e.completed \in 0..p.steps /\ e.completed > 0
    BY DEF Executions
  <1>3. e.completed < p.steps
    BY <1>1 DEF ValidHeader, Replays
  <1>4. e.retry + 1 \in 0..q.maxRetries /\ e.retry + 1 > 0
    BY <1>1, <1>2
  <1> QED BY <1>1, <1>2, <1>3, <1>4, RunIsValid

\* The invariant of chains holds before the first execution ...
LEMMA ChainInvHoldsFirst == EngineInit => ChainInv
  BY DEF EngineInit, ChainInv, EngineTypeOK

\* ... and is kept by every call.
LEMMA ChainInvIsKept == ChainInv /\ [EngineNext]_engineVars => ChainInv'
  <1> SUFFICES ASSUME ChainInv, [EngineNext]_engineVars
               PROVE  ChainInv'
    OBVIOUS
  <1> USE DEF ChainInv, EngineTypeOK
  <1>1. /\ plan.steps \in Nat \ {0} /\ policy.maxRetries \in Nat
    BY PlansAssumption, PoliciesAssumption
  <1>2. CASE Execute
    <2>1. PICK e \in Runs(plan, 0, 0) : chain' = <<e>>
      BY <1>2 DEF Execute
    <2>2. /\ e \in Executions(plan, policy) /\ ValidHeader(plan, policy, e)
          /\ e.retry = 0 /\ e.offset = 0 /\ e.offset < e.completed
      BY <1>1, RunIsValid
    <2>3. plan' = plan /\ policy' = policy
      BY <1>2 DEF Execute
    <2>4. Len(chain') = 1 /\ DOMAIN chain' = 1..1 /\ chain'[1] = e
      BY <2>1
    <2>5. chain' \in Seq(Executions(plan, policy)')
      BY <2>1, <2>2, <2>3
    <2> QED BY <2>2, <2>3, <2>4, <2>5
  <1>3. CASE Resume
    <2>1. chain # <<>> /\ plan' = plan /\ policy' = policy
      BY <1>3 DEF Resume
    <2>2. PICK e \in Resumptions(plan, policy, Latest) : chain' = Append(chain, e)
      BY <1>3 DEF Resume
    <2>3. Len(chain) \in DOMAIN chain /\ Len(chain) \in Nat \ {0}
      BY <2>1
    <2>4. /\ Latest \in Executions(plan, policy)
          /\ ValidHeader(plan, policy, Latest)
          /\ Latest.offset < Latest.completed /\ Latest.retry = Len(chain) - 1
      BY <2>3 DEF Latest
    <2>5. /\ e \in Executions(plan, policy) /\ ValidHeader(plan, policy, e)
          /\ e.retry = Len(chain) /\ e.offset = Latest.completed /\ e.offset < e.completed
      BY <1>1, <2>3, <2>4, ResumptionIsValid
    <2>6. ASSUME NEW i \in DOMAIN chain'
          PROVE  chain'[i] = IF i = Len(chain) + 1 THEN e ELSE chain[i]
      BY <2>2, <2>5
    <2>7. /\ DOMAIN chain' = 1..(Len(chain) + 1) /\ DOMAIN chain = 1..Len(chain)
          /\ Len(chain') = Len(chain) + 1
      BY <2>2, <2>5
    <2>8. chain' \in Seq(Executions(plan, policy)')
      BY <2>1, <2>2, <2>5
    <2>9. ASSUME NEW i \in 1 .. (Len(chain') - 1)
          PROVE  chain'[i + 1].offset = chain'[i].completed
      <3>1. CASE i = Len(chain)
        <4>1. chain'[i + 1] = e /\ chain'[i] = Latest
          BY <2>3, <2>6, <2>7, <3>1 DEF Latest
        <4> QED BY <2>5, <4>1
      <3>2. CASE i # Len(chain)
        <4>1. i \in 1 .. (Len(chain) - 1)
          <5>1. PICK n, m : n = Len(chain) /\ m = Len(chain') /\ n \in Nat /\ m = n + 1
            BY <2>3, <2>7
          <5>2. i \in 1 .. (m - 1) /\ i # n
            BY <2>9, <3>2, <5>1
          <5> QED BY <5>1, <5>2
        <4>2. chain'[i + 1] = chain[i + 1] /\ chain'[i] = chain[i]
          BY <2>3, <2>6, <2>7, <4>1
        <4> QED BY <4>1, <4>2
      <3> QED BY <3>1, <3>2
    <2>10. chain'[1].offset = 0
      BY <2>1, <2>3, <2>6, <2>7
    <2>11. ASSUME NEW i \in DOMAIN chain'
           PROVE  /\ chain'[i].retry = i - 1 /\ ValidHeader(plan, policy, chain'[i])
                  /\ chain'[i].offset < chain'[i].completed
      BY <2>3, <2>5, <2>6, <2>7
    <2> QED BY <2>1, <2>8, <2>9, <2>10, <2>11
  <1>4. CASE UNCHANGED engineVars
    BY <1>4 DEF engineVars
  <1> QED BY <1>2, <1>3, <1>4 DEF EngineNext

\* The plan and the executions of a chain are what the lemmas about logs ask for.
LEMMA ChainHeaders ==
  ASSUME ChainInv
  PROVE  IsPlan(plan) /\ \A i \in DOMAIN chain : IsHeader(plan, chain[i])
  <1>1. plan \in Plans /\ policy \in Policies
    BY DEF ChainInv, EngineTypeOK
  <1>2. IsPlan(plan)
    BY <1>1, PlansAssumption DEF IsPlan
  <1>3. ASSUME NEW i \in DOMAIN chain
        PROVE  IsHeader(plan, chain[i])
    <2>1. PICK e : e = chain[i]
      OBVIOUS
    <2>2. e \in Executions(plan, policy) /\ ValidHeader(plan, policy, e) /\ e.offset < e.completed
      BY <1>3, <2>1, ElementOfSeq, LenProperties DEF ChainInv, EngineTypeOK
    <2>3. policy.maxRetries \in Nat /\ plan.steps \in Nat
      BY <1>1, <1>2, PoliciesAssumption DEF IsPlan
    <2>4. IsHeader(plan, e)
      BY <2>2, <2>3 DEF IsHeader, Executions, ValidHeader
    <2> QED BY <2>1, <2>4
  <1> QED BY <1>2, <1>3

\* The progress of the first k executions of a chain is that of one run to where
\* the k-th stopped.
LEMMA ChainsJoin ==
  ASSUME ChainInv, chain # << >>
  PROVE  ChainProgress = Progress(plan, 0, Latest.completed)
  <1>1. IsPlan(plan) /\ \A i \in DOMAIN chain : IsHeader(plan, chain[i])
    BY ChainHeaders
  <1>2. PICK n, c, p : n = Len(chain) /\ c = chain /\ p = plan
    OBVIOUS
  <1>3. /\ n \in Nat /\ n # 0 /\ DOMAIN c = 1 .. n /\ IsPlan(p)
        /\ c[1].offset = 0 /\ \A i \in 1 .. (n - 1) : c[i + 1].offset = c[i].completed
    BY <1>1, <1>2, LenProperties, EmptySeq DEF ChainInv, EngineTypeOK
  <1>4. ASSUME NEW i \in 1 .. n
        PROVE  /\ c[i].offset \in Nat /\ c[i].completed \in Nat
               /\ c[i].offset <= c[i].completed
    <2>1. IsHeader(p, c[i])
      BY <1>1, <1>2, <1>3
    <2> QED BY <1>3, <2>1 DEF IsHeader, IsPlan
  <1> DEFINE Part(i) == Progress(p, c[i].offset, c[i].completed)
             Parts(k) == [i \in 1 .. k |-> Part(i)]
  <1>5. ASSUME NEW i \in 1 .. n
        PROVE  Part(i) \in Seq(Frames)
    BY <1>3, <1>4, ProgressJoins
  <1>6. ASSUME NEW k \in 0 .. n
        PROVE  Parts(k) \in Seq(Seq(Frames)) /\ Len(Parts(k)) = k
    <2>1. \A i \in 1 .. k : Part(i) \in Seq(Frames)
      BY <1>3, <1>5
    <2> QED BY <2>1
  <1>7. PICK T : T = { k \in Nat : k < n => FlattenSeq(Parts(k + 1)) = Progress(p, 0, c[k + 1].completed) }
    OBVIOUS
  <1>8. ASSUME NEW k \in 0 .. (n - 1)
        PROVE  FlattenSeq(Parts(k + 1)) = FlattenSeq(Parts(k)) \o Part(k + 1)
    <2>1. k \in 0 .. n /\ k + 1 \in 0 .. n /\ k + 1 \in 1 .. n
      BY <1>3
    <2>2. PICK x, t, y : x = Part(k + 1) /\ t = Parts(k) /\ y = Parts(k + 1)
      OBVIOUS
    <2>3. x \in Seq(Frames) /\ t \in Seq(Seq(Frames)) /\ Len(t) = k
          /\ y \in Seq(Seq(Frames)) /\ Len(y) = k + 1
      BY <1>5, <1>6, <2>1, <2>2
    <2>4. y[k + 1] = x /\ \A i \in 1 .. k : y[i] = t[i]
      BY <2>1, <2>2
    <2>5. FlattenSeq(y) = FlattenSeq(t) \o x
      BY <2>3, <2>4, FlattenOneMore
    <2> QED BY <2>2, <2>5
  <1>9. Parts(0) = << >>
    OBVIOUS
  <1> HIDE DEF Parts
  <1>10. 0 \in T
    <2>1. 0 \in 0 .. (n - 1) /\ 1 \in 1 .. n
      BY <1>3
    <2>2. FlattenSeq(Parts(1)) = << >> \o Part(1)
      <3>1. FlattenSeq(Parts(0 + 1)) = FlattenSeq(Parts(0)) \o Part(0 + 1)
        BY <1>8, <2>1
      <3>2. FlattenSeq(Parts(0)) = << >> /\ 0 + 1 = 1
        BY <1>9, FlattenSeqRecursive
      <3> QED BY <3>1, <3>2
    <2>3. << >> \o Part(1) = Part(1)
      BY <1>5, <2>1, ConcatEmptySeq
    <2>4. FlattenSeq(Parts(0 + 1)) = Progress(p, 0, c[0 + 1].completed)
      BY <1>3, <2>2, <2>3
    <2> QED BY <1>7, <2>4
  <1>11. ASSUME NEW k \in Nat, k \in T
         PROVE  k + 1 \in T
    <2>1. ASSUME k + 1 < n
          PROVE  FlattenSeq(Parts(k + 2)) = Progress(p, 0, c[k + 2].completed)
      <3>1. /\ k + 1 \in 0 .. (n - 1) /\ k + 1 \in 1 .. (n - 1) /\ k + 1 \in 1 .. n
            /\ k + 2 \in 1 .. n /\ k + 2 = (k + 1) + 1 /\ k < n
        BY <1>3, <2>1
      <3>2. FlattenSeq(Parts(k + 1)) = Progress(p, 0, c[k + 1].completed)
        BY <1>7, <1>11, <3>1
      <3>3. FlattenSeq(Parts(k + 2)) = FlattenSeq(Parts(k + 1)) \o Part(k + 2)
        BY <1>8, <3>1
      <3>4. c[k + 2].offset = c[k + 1].completed
        BY <1>3, <3>1
      <3>5. /\ c[k + 1].completed \in Nat /\ c[k + 2].completed \in Nat
            /\ c[k + 1].completed <= c[k + 2].completed /\ 0 <= c[k + 1].completed
        BY <1>4, <3>1, <3>4
      <3>6. Progress(p, 0, c[k + 2].completed) =
              Progress(p, 0, c[k + 1].completed) \o Progress(p, c[k + 1].completed, c[k + 2].completed)
        <4>1. PICK b, d : b = c[k + 1].completed /\ d = c[k + 2].completed
          OBVIOUS
        <4>2. /\ b \in Nat /\ d \in Nat /\ b <= d /\ 0 \in Nat /\ 0 <= b
              /\ IsPlan(p)
          BY <1>3, <3>5, <4>1
        <4>3. Progress(p, 0, d) = Progress(p, 0, b) \o Progress(p, b, d)
          BY <4>2, ProgressJoins, ZenonT(60)
        <4> QED BY <4>1, <4>3
      <3> QED BY <3>2, <3>3, <3>4, <3>6
    <2>2. (k + 1) + 1 = k + 2
      OBVIOUS
    <2> QED BY <1>7, <2>1, <2>2
  <1>12. PICK m \in Nat : m = n - 1 /\ m + 1 = n /\ m < n
    BY <1>3
  <1>13. m \in T
    BY <1>10, <1>11, <1>12, Induction
  <1>14. FlattenSeq(Parts(n)) = Progress(p, 0, c[n].completed)
    BY <1>7, <1>12, <1>13
  <1>15. ChainProgress = FlattenSeq(Parts(n))
    BY <1>2, <1>3 DEF ChainProgress, Parts
  <1> QED BY <1>2, <1>14, <1>15 DEF Latest

-----------------------------------------------------------------------------
(* What a completed chain of executions trains                             *)

\* The frames of a type.
Typed(type) == { f \in Frames : f.type = type }

\* The batches that a step trains, and the end of the epoch, if it is there.
BatchesOfStep(p, s) ==
  LET c == Cursor(p)[s - 1]
  IN [i \in 1 .. Window(p, c.batch) |->
        Progressing("batch", c.epoch, c.batch + i - 1, Absent, s - 1)]

EpochsOfStep(p, s) ==
  LET c == Cursor(p)[s - 1]
  IN IF c.batch + Window(p, c.batch) >= p.batches
       THEN <<Progressing("epoch", c.epoch, Absent, Absent, s)>> ELSE << >>

\* A frame with its owner.
LEMMA OwnedIsTyped ==
  ASSUME NEW f \in Frames, NEW s \in Int
  PROVE  Owned(f, s) \in OwnedFrames /\ Owned(f, s).frame = f /\ f \in Typed(f.type)
  BY DEF Owned, OwnedFrames, Typed

\* The batch frames of a step, and its epoch frames.
LEMMA StepChooses ==
  ASSUME NEW p, IsPlan(p), NEW s \in 1 .. p.steps
  PROVE  /\ FramesOf(StepFrames(p, s)) \in Seq(Frames)
         /\ Chosen(FramesOf(StepFrames(p, s)), Typed("batch")) = BatchesOfStep(p, s)
         /\ Chosen(FramesOf(StepFrames(p, s)), Typed("epoch")) = EpochsOfStep(p, s)
         /\ BatchesOfStep(p, s) \in Seq(Frames)
  <1>0. s - 1 \in 0 .. (p.steps - 1) /\ s \in Int /\ s - 1 \in Int /\ Absent \in Int
    BY DEF IsPlan, Absent
  <1>1. PICK e, b, w : /\ e = Cursor(p)[s - 1].epoch /\ b = Cursor(p)[s - 1].batch
                       /\ w = Window(p, b)
    OBVIOUS
  <1>2. e \in Int /\ b \in Int /\ w \in Nat \ {0}
    BY <1>0, <1>1, CursorTypes
  <1>3. PICK st, ep, ost, oep :
          /\ st = Progressing("step", e, Absent, s, s) /\ ost = Owned(st, s)
          /\ ep = Progressing("epoch", e, Absent, Absent, s) /\ oep = Owned(ep, s)
    OBVIOUS
  <1>4. PICK bs, obs : /\ bs = BatchesOfStep(p, s)
                       /\ obs = [i \in 1 .. w |-> Owned(bs[i], s)]
    OBVIOUS
  <1>5. bs = [i \in 1 .. w |-> Progressing("batch", e, b + i - 1, Absent, s - 1)]
    BY <1>1, <1>4 DEF BatchesOfStep
  <1>6. PICK en, oen : /\ en = EpochsOfStep(p, s)
                       /\ oen = IF b + w >= p.batches THEN <<oep>> ELSE << >>
    OBVIOUS
  <1>7. en = IF b + w >= p.batches THEN <<ep>> ELSE << >>
    BY <1>1, <1>3, <1>6 DEF EpochsOfStep
  <1>8. StepFrames(p, s) = obs \o <<ost>> \o oen
    <2>1. obs = [i \in 1 .. w |-> Owned(Progressing("batch", e, b + i - 1, Absent, s - 1), s)]
      BY <1>4, <1>5
    <2> QED BY <1>1, <1>3, <1>6, <2>1 DEF StepFrames
  <1>9. ASSUME NEW i \in 1 .. w
        PROVE  /\ obs[i] \in OwnedFrames /\ obs[i].frame = bs[i]
               /\ bs[i] \in Typed("batch") /\ bs[i].type = "batch"
    <2>1. PICK n : n = b + i - 1 /\ n \in Int
      BY <1>2
    <2>2. bs[i] = Progressing("batch", e, n, Absent, s - 1) /\ obs[i] = Owned(bs[i], s)
      BY <1>4, <1>5, <2>1
    <2>3. PICK f, d : f = Progressing("batch", e, n, Absent, d) /\ d = s - 1
      OBVIOUS
    <2>4. d \in Int /\ "batch" \in {"batch", "step", "epoch"}
      BY <1>0, <2>3
    <2>5. f \in Frames /\ f.type = "batch"
      <3>1. f \in Frames
        BY <1>0, <1>2, <2>1, <2>3, <2>4, ProgressingIsValid
      <3> QED BY <2>3, <3>1 DEF Progressing, Frame
    <2> QED BY <1>0, <2>2, <2>3, <2>5, OwnedIsTyped
  <1>10. /\ st \in Typed("step") /\ st.type = "step" /\ ost \in OwnedFrames /\ ost.frame = st
         /\ ep \in Typed("epoch") /\ ep.type = "epoch" /\ oep \in OwnedFrames /\ oep.frame = ep
    <2>1. st \in Frames /\ ep \in Frames
      BY <1>0, <1>2, <1>3, ProgressingIsValid
    <2>2. st.type = "step" /\ ep.type = "epoch"
      BY <1>3 DEF Progressing, Frame
    <2> QED BY <1>0, <1>3, <2>1, <2>2, OwnedIsTyped
  <1>11. /\ obs \in Seq(OwnedFrames) /\ Len(obs) = w /\ bs \in Seq(Frames) /\ Len(bs) = w
         /\ DOMAIN bs = 1 .. w
    <2>1. obs \in [1 .. w -> OwnedFrames] /\ bs \in [1 .. w -> Frames]
      BY <1>4, <1>5, <1>9 DEF Typed
    <2> QED BY <1>2, <2>1
  <1>12. /\ <<ost>> \in Seq(OwnedFrames) /\ <<st>> \in Seq(Frames)
         /\ oen \in Seq(OwnedFrames) /\ en \in Seq(Frames)
    BY <1>6, <1>7, <1>10 DEF Typed
  <1>13. FramesOf(obs) = bs
    BY <1>4, <1>5, <1>9 DEF FramesOf
  <1>14. FramesOf(<<ost>>) = <<st>> /\ FramesOf(oen) = en
    <2>1. \A o \in OwnedFrames : FramesOf(<<o>>) = <<o.frame>>
      BY DEF FramesOf
    <2>2. FramesOf(<< >>) = << >>
      BY DEF FramesOf
    <2> QED BY <1>6, <1>7, <1>10, <2>1, <2>2
  <1>15. PICK x, ox : /\ ox = obs \o <<ost>> /\ x = bs \o <<st>>
                      /\ ox \in Seq(OwnedFrames) /\ x \in Seq(Frames) /\ FramesOf(ox) = x
    <2>1. FramesOf(obs \o <<ost>>) = bs \o <<st>>
      BY <1>11, <1>12, <1>13, <1>14, FramesOfConcat
    <2> QED BY <1>11, <1>12, <2>1, ConcatProperties
  <1>16. FramesOf(StepFrames(p, s)) = x \o en
    BY <1>8, <1>12, <1>14, <1>15, FramesOfConcat
  <1>17. FramesOf(StepFrames(p, s)) \in Seq(Frames)
    BY <1>12, <1>15, <1>16, ConcatProperties
  <1>18. ASSUME NEW D
         PROVE  Chosen(FramesOf(StepFrames(p, s)), D)
                  = Then(Then(Chosen(bs, D), Chosen(<<st>>, D)), Chosen(en, D))
    <2>1. Chosen(x, D) = Then(Chosen(bs, D), Chosen(<<st>>, D))
      BY <1>11, <1>12, <1>15, ChosenOfConcat DEF Then
    <2>2. Chosen(x \o en, D) = Then(Chosen(x, D), Chosen(en, D))
      BY <1>12, <1>15, ChosenOfConcat DEF Then
    <2> QED BY <1>16, <2>1, <2>2
  <1>19. \A y \in Seq(Frames) : Then(y, << >>) = y /\ Then(<< >>, y) = y
    BY ConcatEmptySeq DEF Then
  <1>20. Chosen(FramesOf(StepFrames(p, s)), Typed("batch")) = bs
    <2>1. PICK D : D = Typed("batch")
      OBVIOUS
    <2>2. \A i \in DOMAIN bs : (bs[i] \in D) <=> TRUE
      BY <1>9, <1>11, <2>1
    <2>3. Chosen(bs, D) = bs
      BY <1>11, <2>2, ChosenAlike, ZenonT(60)
    <2>4. st \notin D /\ ep \notin D
      BY <1>10, <2>1 DEF Typed
    <2>5. \A i \in DOMAIN <<st>> : (<<st>>[i] \in D) <=> FALSE
      BY <2>4
    <2>6. \A i \in DOMAIN en : (en[i] \in D) <=> FALSE
      BY <1>7, <2>4
    <2>7. Chosen(<<st>>, D) = << >> /\ Chosen(en, D) = << >>
      BY <1>12, <2>5, <2>6, ChosenAlike
    <2>8. Chosen(FramesOf(StepFrames(p, s)), D) = Then(Then(bs, << >>), << >>)
      BY <1>18, <2>3, <2>7
    <2>9. Then(bs, << >>) = bs
      BY <1>11, <1>19
    <2> QED BY <2>1, <2>8, <2>9
  <1>21. Chosen(FramesOf(StepFrames(p, s)), Typed("epoch")) = en
    <2>1. PICK D : D = Typed("epoch")
      OBVIOUS
    <2>2. \A i \in DOMAIN bs : (bs[i] \in D) <=> FALSE
      BY <1>9, <1>11, <2>1 DEF Typed
    <2>3. Chosen(bs, D) = << >>
      BY <1>11, <2>2, ChosenAlike
    <2>4. st \notin D /\ ep \in D
      BY <1>10, <2>1 DEF Typed
    <2>5. \A i \in DOMAIN <<st>> : (<<st>>[i] \in D) <=> FALSE
      BY <2>4
    <2>6. \A i \in DOMAIN en : (en[i] \in D) <=> TRUE
      BY <1>7, <2>4
    <2>7. Chosen(<<st>>, D) = << >> /\ Chosen(en, D) = en
      BY <1>12, <2>5, <2>6, ChosenAlike, ZenonT(60)
    <2>8. Chosen(FramesOf(StepFrames(p, s)), D) = Then(Then(<< >>, << >>), en)
      BY <1>18, <2>3, <2>7
    <2>9. Then(<< >>, << >>) = << >> /\ Then(<< >>, en) = en
      <3>1. << >> \in Seq(Frames)
        OBVIOUS
      <3> QED BY <1>12, <1>19, <3>1
    <2> QED BY <2>1, <2>8, <2>9
  <1> QED BY <1>4, <1>6, <1>11, <1>17, <1>20, <1>21

\* From step to step the loops go to the next window, or to the next epoch.
LEMMA CursorTurns ==
  ASSUME NEW p, IsPlan(p)
  PROVE  /\ Cursor(p)[0] = [epoch |-> 0, batch |-> 0]
         /\ \A n \in 0 .. p.steps :
              Cursor(p)[n].epoch \in Nat /\ Cursor(p)[n].batch \in 0 .. (p.batches - 1)
         /\ \A n \in 0 .. (p.steps - 1) :
              /\ Window(p, Cursor(p)[n].batch) \in 1 .. p.accum
              /\ Cursor(p)[n].batch + Window(p, Cursor(p)[n].batch) <= p.batches
              /\ Cursor(p)[n + 1] = Turned(p, Cursor(p)[n])
  <1>0. /\ p.steps \in Nat /\ p.batches \in Nat \ {0} /\ p.accum \in Nat \ {0}
        /\ \A n \in 0 .. p.steps : n \in Nat
    BY DEF IsPlan
  <1>1. ASSUME NEW n \in 0 .. p.steps
        PROVE  /\ Cursor(p)[n].epoch \in Nat /\ Cursor(p)[n].batch \in 0 .. (p.batches - 1)
               /\ Window(p, Cursor(p)[n].batch) \in 1 .. p.accum
               /\ Cursor(p)[n].batch + Window(p, Cursor(p)[n].batch) <= p.batches
    <2>1. PICK e, r : Splits(p, n, e, r)
      BY <1>0, SplitsExists
    <2>2. Cursor(p)[n] = At(p, e, r)
      BY <2>1, CursorSplits
    <2>3. e \in Nat /\ r \in Nat /\ r < CeilDiv(p.batches, p.accum)
      BY <2>1 DEF Splits
    <2>4. PICK b, w : b = r * p.accum /\ w = Window(p, b)
      OBVIOUS
    <2>5. b \in Nat /\ w \in Nat \ {0}
      BY <2>3, <2>4, WindowProperties
    <2>6. w = IF p.accum < p.batches - b THEN p.accum ELSE p.batches - b
      BY <2>4 DEF Window
    <2>7. b \in 0 .. (p.batches - 1) /\ w \in 1 .. p.accum /\ b + w <= p.batches
      BY <1>0, <2>5, <2>6
    <2>8. Cursor(p)[n].epoch = e /\ Cursor(p)[n].batch = b
      BY <2>2, <2>4 DEF At
    <2> QED BY <2>3, <2>4, <2>7, <2>8
  <1>2. ASSUME NEW n \in 0 .. (p.steps - 1)
        PROVE  Cursor(p)[n + 1] = Turned(p, Cursor(p)[n])
    <2>1. n \in 0 .. p.steps /\ n + 1 \in 0 .. p.steps /\ n \in Nat
      BY <1>0
    <2>2. PICK e, r : Splits(p, n, e, r)
      BY <2>1, SplitsExists
    <2>3. PICK f, q : Splits(p, n + 1, f, q) /\ Turned(p, At(p, e, r)) = At(p, f, q)
      BY <2>1, <2>2, TurnSplits
    <2>4. Cursor(p)[n] = At(p, e, r)
      BY <2>1, <2>2, CursorSplits
    <2>5. Cursor(p)[n + 1] = At(p, f, q)
      BY <2>1, <2>3, CursorSplits
    <2> QED BY <2>3, <2>4, <2>5
  <1>3. Cursor(p)[0] = [epoch |-> 0, batch |-> 0]
    <2>1. PICK w \in Nat \ {0} : w = CeilDiv(p.batches, p.accum)
      BY <1>0, Ceiling
    <2>2. Splits(p, 0, 0, 0)
      BY <2>1 DEF Splits
    <2>3. Cursor(p)[0] = At(p, 0, 0)
      BY <1>0, <2>2, CursorSplits
    <2> QED BY <1>0, <2>3 DEF At
  <1>4. \A n \in 0 .. (p.steps - 1) : n \in 0 .. p.steps
    BY <1>0
  <1> QED BY <1>1, <1>2, <1>3, <1>4

\* The batches trained when the loops have made n steps.
Position(p, n) == Cursor(p)[n].epoch * p.batches + Cursor(p)[n].batch

\* Each step adds the batches of its window.
LEMMA PositionGrows ==
  ASSUME NEW p, IsPlan(p)
  PROVE  /\ Position(p, 0) = 0
         /\ \A n \in 0 .. p.steps : Position(p, n) \in Nat
         /\ \A n \in 0 .. (p.steps - 1) :
              Position(p, n + 1) = Position(p, n) + Window(p, Cursor(p)[n].batch)
  <1>0. p.steps \in Nat /\ p.batches \in Nat \ {0} /\ p.accum \in Nat
    BY DEF IsPlan
  <1>1. Position(p, 0) = 0
    <2>1. Cursor(p)[0].epoch = 0 /\ Cursor(p)[0].batch = 0
      BY CursorTurns
    <2> QED BY <1>0, <2>1 DEF Position
  <1>2. ASSUME NEW n \in 0 .. p.steps
        PROVE  Position(p, n) \in Nat
    <2>1. PICK e, b : e = Cursor(p)[n].epoch /\ b = Cursor(p)[n].batch
      OBVIOUS
    <2>2. e \in Nat /\ b \in Nat
      BY <2>1, CursorTurns
    <2> QED BY <1>0, <2>1, <2>2 DEF Position
  <1>3. ASSUME NEW n \in 0 .. (p.steps - 1)
        PROVE  Position(p, n + 1) = Position(p, n) + Window(p, Cursor(p)[n].batch)
    <2>0. n \in 0 .. p.steps
      BY <1>0
    <2>1. PICK c, d, w, m : /\ c = Cursor(p)[n] /\ d = Cursor(p)[n + 1] /\ w = Window(p, c.batch)
                            /\ m = p.batches
      OBVIOUS
    <2>2. /\ c.epoch \in Nat /\ c.batch \in Nat /\ w \in Nat /\ c.batch + w <= m
          /\ d = Turned(p, c)
      BY <1>0, <2>0, <2>1, CursorTurns
    <2>3. PICK e, b : e = c.epoch /\ b = c.batch
      OBVIOUS
    <2>4. d = IF b + w >= m THEN [epoch |-> e + 1, batch |-> 0] ELSE [epoch |-> e, batch |-> b + w]
      BY <2>1, <2>2, <2>3 DEF Turned
    <2>5. d.epoch * m + d.batch = e * m + b + w
      <3>1. CASE b + w >= m
        <4>1. b + w = m /\ d.epoch = e + 1 /\ d.batch = 0
          BY <1>0, <2>1, <2>2, <2>3, <2>4, <3>1
        <4>2. (e + 1) * m = e * m + m
          <5>1. e \in Nat /\ m \in Nat
            BY <1>0, <2>1, <2>2, <2>3
          <5> QED BY <5>1
        <4> QED BY <1>0, <2>1, <2>2, <2>3, <4>1, <4>2
      <3>2. CASE ~(b + w >= m)
        <4>1. d.epoch = e /\ d.batch = b + w
          BY <2>4, <3>2
        <4> QED BY <1>0, <2>1, <2>2, <2>3, <4>1
      <3> QED BY <3>1, <3>2
    <2> QED BY <2>1, <2>3, <2>5 DEF Position
  <1> QED BY <1>1, <1>2, <1>3

\* The batches of the first n steps, in order: numbered through the epochs, and
\* those that a step trains next to each other.
InOrder(p, n, y) ==
  /\ y \in Seq(Frames) /\ Len(y) = Position(p, n)
  /\ \A i \in 1 .. Position(p, n) :
       /\ y[i].epoch \in Nat /\ y[i].batch \in 0 .. (p.batches - 1)
       /\ y[i].epoch * p.batches + y[i].batch = i - 1
       /\ y[i].done \in 0 .. (n - 1)
  /\ \A s \in 1 .. n :
       { i \in 1 .. Position(p, n) : y[i].done = s - 1 } = (Position(p, s - 1) + 1) .. Position(p, s)

\* One more step continues them.
LEMMA StepInOrder ==
  ASSUME NEW p, IsPlan(p), NEW n \in 0 .. (p.steps - 1), NEW y, InOrder(p, n, y)
  PROVE  InOrder(p, n + 1, y \o BatchesOfStep(p, n + 1))
  <1>0. /\ p.steps \in Nat /\ p.batches \in Nat \ {0} /\ n \in Nat /\ n \in 0 .. p.steps
        /\ n + 1 \in 1 .. p.steps /\ n + 1 \in 0 .. p.steps /\ (n + 1) - 1 = n
    BY DEF IsPlan
  <1>1. PICK c, e, b, w, k, m, bs, z :
          /\ c = Cursor(p)[n] /\ e = c.epoch /\ b = c.batch /\ w = Window(p, b)
          /\ k = Position(p, n) /\ m = p.batches
          /\ bs = BatchesOfStep(p, n + 1) /\ z = y \o bs
    OBVIOUS
  <1>2. /\ e \in Nat /\ b \in Nat /\ w \in Nat \ {0} /\ b + w <= m
        /\ k \in Nat /\ Position(p, n + 1) = k + w /\ k = e * m + b /\ m \in Nat \ {0}
    <2>4. m \in Nat \ {0}
      BY <1>0, <1>1
    <2>1. e \in Nat /\ b \in Nat /\ w \in Nat \ {0} /\ b + w <= m
      BY <1>0, <1>1, CursorTurns
    <2>2. k \in Nat /\ Position(p, n + 1) = k + w
      BY <1>0, <1>1, PositionGrows
    <2>3. k = e * m + b
      BY <1>1 DEF Position
    <2> QED BY <2>1, <2>2, <2>3, <2>4
  <1>3. bs = [i \in 1 .. w |-> Progressing("batch", e, b + i - 1, Absent, n)]
    BY <1>0, <1>1 DEF BatchesOfStep
  <1>4. ASSUME NEW i \in 1 .. w
        PROVE  bs[i].epoch = e /\ bs[i].batch = b + i - 1 /\ bs[i].done = n
    BY <1>3 DEF Progressing, Frame
  <1>5. bs \in Seq(Frames) /\ Len(bs) = w
    BY <1>0, <1>1, <1>2, <1>3, StepChooses
  <1>6. /\ y \in Seq(Frames) /\ Len(y) = k
        /\ \A i \in 1 .. k : /\ y[i].epoch \in Nat /\ y[i].batch \in 0 .. (m - 1)
                             /\ y[i].epoch * m + y[i].batch = i - 1
                             /\ y[i].done \in 0 .. (n - 1)
        /\ \A s \in 1 .. n :
             { i \in 1 .. k : y[i].done = s - 1 } = (Position(p, s - 1) + 1) .. Position(p, s)
    BY <1>1 DEF InOrder
  <1>7. /\ z \in Seq(Frames) /\ Len(z) = k + w
        /\ \A i \in 1 .. (k + w) : z[i] = IF i <= k THEN y[i] ELSE bs[i - k]
    BY <1>1, <1>5, <1>6, ConcatProperties
  <1>8. ASSUME NEW i \in 1 .. k
        PROVE  i \in 1 .. (k + w) /\ z[i] = y[i]
    BY <1>2, <1>7
  <1>9. ASSUME NEW i \in 1 .. (k + w), ~(i <= k)
        PROVE  z[i].epoch = e /\ z[i].batch = b + (i - k) - 1 /\ z[i].done = n
    <2>1. PICK j : j = i - k /\ j \in 1 .. w
      BY <1>2, <1>9
    <2>2. z[i] = bs[j]
      BY <1>7, <1>9, <2>1
    <2> QED BY <1>4, <2>1, <2>2
  <1>10. ASSUME NEW i \in 1 .. (k + w)
         PROVE  /\ z[i].epoch \in Nat /\ z[i].batch \in 0 .. (m - 1)
                /\ z[i].epoch * m + z[i].batch = i - 1
                /\ z[i].done \in 0 .. n
    <2>1. CASE i <= k
      <3>1. i \in 1 .. k /\ z[i] = y[i]
        BY <1>2, <1>8, <2>1
      <3>2. y[i].done \in 0 .. n
        BY <1>0, <1>6, <3>1
      <3> QED BY <1>6, <3>1, <3>2
    <2>2. CASE ~(i <= k)
      <3>1. PICK j : j = i - k /\ j \in 1 .. w /\ i = k + j
        BY <1>2, <2>2
      <3>2. z[i].epoch = e /\ z[i].batch = b + j - 1 /\ z[i].done = n
        BY <1>9, <2>2, <3>1
      <3>3. b + j - 1 \in 0 .. (m - 1)
        BY <1>2, <3>1
      <3>4. PICK em : em = e * m /\ em \in Nat
        BY <1>2
      <3>5. em + (b + j - 1) = i - 1
        BY <1>2, <3>1, <3>4
      <3> QED BY <1>0, <1>2, <3>2, <3>3, <3>4, <3>5
    <2> QED BY <2>1, <2>2
  <1>11. ASSUME NEW s \in 1 .. (n + 1)
         PROVE  { i \in 1 .. (k + w) : z[i].done = s - 1 } = (Position(p, s - 1) + 1) .. Position(p, s)
    <2>1. CASE s = n + 1
      <3>1. \A i \in 1 .. k : z[i].done # n
        BY <1>0, <1>6, <1>8
      <3>2. ASSUME NEW i \in 1 .. (k + w)
            PROVE  z[i].done = n <=> i \in (k + 1) .. (k + w)
        <4>1. CASE i <= k
          BY <1>2, <3>1, <4>1
        <4>2. CASE ~(i <= k)
          BY <1>2, <1>9, <4>2
        <4> QED BY <4>1, <4>2
      <3>3. \A i \in (k + 1) .. (k + w) : i \in 1 .. (k + w)
        BY <1>2
      <3>4. { i \in 1 .. (k + w) : z[i].done = n } = (k + 1) .. (k + w)
        BY <3>2, <3>3
      <3>5. s - 1 = n /\ Position(p, s) = k + w /\ Position(p, s - 1) = k
        BY <1>0, <1>1, <1>2, <2>1
      <3> QED BY <3>4, <3>5
    <2>2. CASE s # n + 1
      <3>1. s \in 1 .. n /\ s - 1 # n
        BY <1>0, <2>2
      <3>2. ASSUME NEW i \in 1 .. (k + w)
            PROVE  z[i].done = s - 1 <=> i \in 1 .. k /\ y[i].done = s - 1
        <4>1. CASE i <= k
          <5>1. i \in 1 .. k
            BY <1>2, <4>1
          <5> QED BY <1>8, <5>1
        <4>2. CASE ~(i <= k)
          BY <1>2, <1>9, <3>1, <4>2
        <4> QED BY <4>1, <4>2
      <3>3. { i \in 1 .. (k + w) : z[i].done = s - 1 } = { i \in 1 .. k : y[i].done = s - 1 }
        BY <1>8, <3>2
      <3> QED BY <1>6, <3>1, <3>3
    <2> QED BY <2>1, <2>2
  <1>12. InOrder(p, n + 1, z)
    BY <1>0, <1>1, <1>2, <1>7, <1>10, <1>11 DEF InOrder
  <1> QED BY <1>1, <1>12

\* As many elements are chosen as there are in the set.
LEMMA ChosenCounts ==
  ASSUME NEW E, NEW D, NEW y \in Seq(E)
  PROVE  Len(Chosen(y, D)) = Cardinality({ i \in DOMAIN y : y[i] \in D })
  <1> DEFINE In(z) == { i \in DOMAIN z : z[i] \in D }
             P(z) == Len(Chosen(z, D)) = Cardinality(In(z))
  <1>1. PICK T : T = { n \in Nat : \A z \in Seq(E) : Len(z) = n => P(z) }
    OBVIOUS
  <1>2. 0 \in T
    <2>1. \A z \in Seq(E) : Len(z) = 0 => z = << >>
      BY EmptySeq
    <2>2. In(<< >>) = {}
      OBVIOUS
    <2>3. P(<< >>)
      BY <2>2, ChosenRecursive, FS_EmptySet, EmptySeq
    <2> QED BY <1>1, <2>1, <2>3
  <1>3. ASSUME NEW n \in Nat, n \in T
        PROVE  n + 1 \in T
    <2>1. ASSUME NEW z \in Seq(E), Len(z) = n + 1
          PROVE  P(z)
      <3>1. z # << >>
        BY <2>1, EmptySeq
      <3>2. PICK w \in Seq(E), o \in E : z = Append(w, o)
        BY <3>1, SequenceEmptyOrAppend
      <3>3. Len(w) = n /\ DOMAIN w = 1 .. n /\ DOMAIN z = 1 .. (n + 1)
        BY <2>1, <3>2, AppendProperties, LenProperties
      <3>4. (\A i \in 1 .. n : z[i] = w[i]) /\ z[n + 1] = o
        BY <3>2, <3>3, AppendProperties
      <3>5. P(w)
        BY <1>1, <1>3, <3>3
      <3>6. PICK a, b, c, k : a = In(w) /\ b = In(z) /\ c = Chosen(w, D) /\ k = One(o, D)
        OBVIOUS
      <3>7. Chosen(z, D) = c \o k
        BY <3>2, <3>6, ChosenRecursive
      <3>8. c \in Seq(E) /\ k \in Seq(E)
        BY <3>6, ChosenRecursive, OneTypes
      <3>9. Len(Chosen(z, D)) = Len(c) + Len(k)
        BY <3>7, <3>8, ConcatProperties
      <3>10. IsFiniteSet(a) /\ Len(c) = Cardinality(a) /\ Cardinality(a) \in Nat /\ n + 1 \notin a
        <4>1. IsFiniteSet(1 .. n) /\ a \subseteq 1 .. n
          BY <3>3, <3>6, FS_Interval
        <4>2. IsFiniteSet(a)
          BY <4>1, FS_Subset
        <4> QED BY <3>5, <3>6, <4>1, <4>2, FS_CardinalityType
      <3>11. b = IF o \in D THEN a \cup {n + 1} ELSE a
        <4>1. ASSUME NEW i
              PROVE  i \in b <=> i \in a \/ (o \in D /\ i = n + 1)
          <5>1. i \in 1 .. (n + 1) <=> i \in 1 .. n \/ i = n + 1
            OBVIOUS
          <5>2. n + 1 \notin 1 .. n
            OBVIOUS
          <5> QED BY <3>3, <3>4, <3>6, <5>1, <5>2
        <4> QED BY <4>1
      <3>12. Cardinality(b) = Cardinality(a) + Len(k)
        <4>1. CASE o \in D
          <5>1. k = <<o>>
            BY <3>6, <4>1 DEF One
          <5>2. Len(k) = 1
            BY <5>1
          <5>3. b = a \cup {n + 1}
            BY <3>11, <4>1
          <5> QED BY <3>10, <5>2, <5>3, FS_AddElement
        <4>2. CASE o \notin D
          <5>1. k = << >>
            BY <3>6, <4>2 DEF One
          <5>2. Len(k) = 0 /\ b = a
            BY <3>11, <4>2, <5>1, EmptySeq
          <5> QED BY <3>10, <5>2
        <4> QED BY <4>1, <4>2
      <3> QED BY <3>6, <3>9, <3>10, <3>12
    <2> QED BY <1>1, <2>1
  <1>4. \A n \in Nat : n \in T
    BY <1>2, <1>3, Induction
  <1>5. Len(y) \in Nat
    BY LenProperties
  <1> QED BY <1>1, <1>4, <1>5

\* An execution that starts afresh and completes takes every frame.
LEMMA TakenIsThrough ==
  ASSUME NEW p, IsPlan(p)
  PROVE  \A n \in 0 .. p.steps :
           /\ Taken(p, n, 0, p.steps) = Through(p, n)
           /\ \A i \in DOMAIN Through(p, n) : Through(p, n)[i].owner <= n
  <1> DEFINE P(n) == /\ Taken(p, n, 0, p.steps) = Through(p, n)
                     /\ \A i \in DOMAIN Through(p, n) : Through(p, n)[i].owner <= n
  <1>0. p.steps \in Nat
    BY DEF IsPlan
  <1>1. PICK T : T = { n \in Nat : n <= p.steps => P(n) }
    OBVIOUS
  <1>2. 0 \in T
    <2>1. Taken(p, 0, 0, p.steps) = << >> /\ Through(p, 0) = << >>
      BY <1>0, TakenRecursive, ThroughRecursive
    <2>2. \A i \in DOMAIN << >> : FALSE
      OBVIOUS
    <2>3. P(0)
      BY <2>1, <2>2
    <2> QED BY <1>1, <2>3
  <1>3. ASSUME NEW n \in Nat, n \in T
        PROVE  n + 1 \in T
    <2>1. ASSUME n + 1 <= p.steps
          PROVE  P(n + 1)
      <3>1. /\ n \in 0 .. (p.steps - 1) /\ n \in 0 .. p.steps /\ n + 1 \in 0 .. p.steps
            /\ n + 1 \in 1 .. p.steps /\ 0 < n + 1 /\ P(n)
        BY <1>0, <1>1, <1>3, <2>1
      <3>2. PICK x, y, z : x = Through(p, n) /\ y = StepFrames(p, n + 1) /\ z = Through(p, n + 1)
        OBVIOUS
      <3>3. z = x \o y
        BY <3>1, <3>2, ThroughRecursive
      <3>4. Taken(p, n + 1, 0, p.steps) = Taken(p, n, 0, p.steps) \o y
        BY <1>0, <2>1, <3>1, <3>2, TakenRecursive
      <3>5. Taken(p, n, 0, p.steps) = x /\ \A i \in DOMAIN x : x[i].owner <= n
        BY <3>1, <3>2
      <3>6. x \in Seq(OwnedFrames) /\ y \in Seq(OwnedFrames) /\ \A i \in DOMAIN y : y[i].owner = n + 1
        BY <3>1, <3>2, ThroughRecursive, StepIsPath DEF StepPath
      <3>7. PICK a, b : a = Len(x) /\ b = Len(y) /\ a \in Nat /\ b \in Nat
        BY <3>6, LenProperties
      <3>8. /\ z \in Seq(OwnedFrames) /\ Len(z) = a + b
            /\ \A i \in 1 .. (a + b) : z[i] = IF i <= a THEN x[i] ELSE y[i - a]
        BY <3>3, <3>6, <3>7, ConcatProperties
      <3>9. DOMAIN x = 1 .. a /\ DOMAIN y = 1 .. b /\ DOMAIN z = 1 .. (a + b)
        BY <3>6, <3>7, <3>8, LenProperties
      <3>10. ASSUME NEW i \in 1 .. (a + b)
             PROVE  z[i].owner <= n + 1
        <4>1. CASE i <= a
          <5>1. i \in 1 .. a /\ z[i] = x[i]
            BY <3>7, <3>8, <4>1
          <5>2. x[i].owner <= n
            BY <3>5, <3>9, <5>1
          <5>3. x[i] \in OwnedFrames
            BY <3>6, <3>7, <5>1, ElementOfSeq
          <5>4. x[i].owner \in Int
            BY <5>3 DEF OwnedFrames
          <5> QED BY <5>1, <5>2, <5>4
        <4>2. CASE ~(i <= a)
          <5>1. i - a \in 1 .. b /\ z[i] = y[i - a]
            BY <3>7, <3>8, <4>2
          <5>2. z[i].owner = n + 1
            BY <3>6, <3>9, <5>1
          <5> QED BY <5>2
        <4> QED BY <4>1, <4>2
      <3> QED BY <3>2, <3>3, <3>4, <3>5, <3>9, <3>10
    <2> QED BY <1>1, <2>1
  <1>4. Nat \subseteq T
    BY <1>2, <1>3, Induction
  <1> QED BY <1>0, <1>1, <1>4

\* What the first n steps train, and the epochs that they end.
LEMMA StepsTrain ==
  ASSUME NEW p, IsPlan(p)
  PROVE  \A n \in 0 .. p.steps :
           LET frames == FramesOf(Through(p, n))
           IN /\ frames \in Seq(Frames)
              /\ InOrder(p, n, Chosen(frames, Typed("batch")))
              /\ Len(Chosen(frames, Typed("epoch"))) = Cursor(p)[n].epoch
  <1> DEFINE F(n) == FramesOf(Through(p, n))
             P(n) == /\ F(n) \in Seq(Frames)
                     /\ InOrder(p, n, Chosen(F(n), Typed("batch")))
                     /\ Len(Chosen(F(n), Typed("epoch"))) = Cursor(p)[n].epoch
  <1>0. p.steps \in Nat
    BY DEF IsPlan
  <1>1. PICK T : T = { n \in Nat : n <= p.steps => P(n) }
    OBVIOUS
  <1>2. 0 \in T
    <2>1. PICK none : none = << >>
      OBVIOUS
    <2>2. none \in Seq(Frames) /\ Len(none) = 0
      BY <2>1, EmptySeq
    <2>3. F(0) = none
      <3>1. Through(p, 0) = << >>
        BY ThroughRecursive
      <3>2. FramesOf(<< >>) = << >>
        BY DEF FramesOf
      <3> QED BY <2>1, <3>1, <3>2
    <2>4. \A D : Chosen(none, D) = none
      <3>1. \A D : Chosen(<< >>, D) = << >>
        BY ChosenRecursive
      <3> QED BY <2>1, <3>1
    <2>5. Position(p, 0) = 0 /\ Cursor(p)[0].epoch = 0
      BY PositionGrows, CursorTurns
    <2>6. InOrder(p, 0, none)
      BY <2>2, <2>5 DEF InOrder
    <2>7. P(0)
      BY <2>2, <2>3, <2>4, <2>5, <2>6
    <2> HIDE DEF P
    <2> QED BY <1>1, <2>7
  <1>3. ASSUME NEW n \in Nat, n \in T
        PROVE  n + 1 \in T
    <2>1. ASSUME n + 1 <= p.steps
          PROVE  P(n + 1)
      <3>1. /\ n \in 0 .. (p.steps - 1) /\ n \in 0 .. p.steps /\ n + 1 \in 0 .. p.steps
            /\ n + 1 \in 1 .. p.steps /\ (n + 1) - 1 = n /\ P(n)
        BY <1>0, <1>1, <1>3, <2>1
      <3>2. PICK x, y, z, fx, fy, fz :
              /\ x = Through(p, n) /\ y = StepFrames(p, n + 1) /\ z = Through(p, n + 1)
              /\ fx = FramesOf(x) /\ fy = FramesOf(y) /\ fz = FramesOf(z)
        OBVIOUS
      <3>3. z = x \o y /\ x \in Seq(OwnedFrames) /\ y \in Seq(OwnedFrames)
        BY <3>1, <3>2, ThroughRecursive, StepIsPath DEF StepPath
      <3>4. fz = fx \o fy
        BY <3>2, <3>3, FramesOfConcat
      <3>5. /\ fx \in Seq(Frames) /\ InOrder(p, n, Chosen(fx, Typed("batch")))
            /\ Len(Chosen(fx, Typed("epoch"))) = Cursor(p)[n].epoch
        BY <3>1, <3>2
      <3>6. /\ fy \in Seq(Frames) /\ Chosen(fy, Typed("batch")) = BatchesOfStep(p, n + 1)
            /\ Chosen(fy, Typed("epoch")) = EpochsOfStep(p, n + 1)
        BY <3>1, <3>2, StepChooses
      <3>7. fz \in Seq(Frames)
        BY <3>4, <3>5, <3>6, ConcatProperties
      <3>8. \A D : Chosen(fz, D) = Chosen(fx, D) \o Chosen(fy, D)
        BY <3>4, <3>5, <3>6, ChosenOfConcat
      <3>9. InOrder(p, n + 1, Chosen(fz, Typed("batch")))
        <4>1. PICK t, u : t = Chosen(fx, Typed("batch")) /\ u = Chosen(fz, Typed("batch"))
          OBVIOUS
        <4>2. u = t \o BatchesOfStep(p, n + 1)
          BY <3>6, <3>8, <4>1
        <4>3. InOrder(p, n, t)
          BY <3>5, <4>1
        <4>4. InOrder(p, n + 1, t \o BatchesOfStep(p, n + 1))
          BY <3>1, <4>3, StepInOrder
        <4> QED BY <4>1, <4>2, <4>4
      <3>10. Len(Chosen(fz, Typed("epoch"))) = Cursor(p)[n + 1].epoch
        <4>1. PICK t, u, v, c, d :
                /\ t = Chosen(fx, Typed("epoch")) /\ u = Chosen(fz, Typed("epoch"))
                /\ v = Chosen(fy, Typed("epoch")) /\ c = Cursor(p)[n] /\ d = Cursor(p)[n + 1]
          OBVIOUS
        <4>2. u = t \o v
          BY <3>8, <4>1
        <4>3. t \in Seq(Frames) /\ v \in Seq(Frames)
          BY <3>5, <3>6, <4>1, ChosenRecursive
        <4>4. Len(u) = Len(t) + Len(v) /\ Len(t) = c.epoch
          BY <3>5, <4>1, <4>2, <4>3, ConcatProperties
        <4>5. v = IF c.batch + Window(p, c.batch) >= p.batches
                    THEN <<Progressing("epoch", c.epoch, Absent, Absent, n + 1)>> ELSE << >>
          BY <3>1, <3>6, <4>1 DEF EpochsOfStep
        <4>6. Len(v) = IF c.batch + Window(p, c.batch) >= p.batches THEN 1 ELSE 0
          BY <4>5
        <4>7. d = Turned(p, c) /\ c.epoch \in Nat
          BY <3>1, <4>1, CursorTurns
        <4>8. d.epoch = IF c.batch + Window(p, c.batch) >= p.batches THEN c.epoch + 1 ELSE c.epoch
          BY <4>7 DEF Turned
        <4>9. PICK lt, lv, e : lt = Len(t) /\ lv = Len(v) /\ e = c.epoch
          OBVIOUS
        <4>10. Len(u) = lt + lv /\ lt = e /\ e \in Nat
          BY <4>4, <4>7, <4>9
        <4>11. CASE c.batch + Window(p, c.batch) >= p.batches
          BY <4>1, <4>6, <4>8, <4>9, <4>10, <4>11
        <4>12. CASE ~(c.batch + Window(p, c.batch) >= p.batches)
          BY <4>1, <4>6, <4>8, <4>9, <4>10, <4>12
        <4> QED BY <4>11, <4>12
      <3> QED BY <3>2, <3>7, <3>9, <3>10
    <2> HIDE DEF P
    <2> QED BY <1>1, <2>1
  <1>4. Nat \subseteq T
    BY <1>2, <1>3, Induction
  <1> QED BY <1>0, <1>1, <1>4

\* The epochs that a plan completes are those that its steps end.
LEMMA EpochsOfPlan ==
  ASSUME NEW p, IsPlan(p)
  PROVE  EpochsCompletedAt(p, p.steps) = Cursor(p)[p.steps].epoch
  <1>1. PICK n, x, f : n = p.steps /\ x = Through(p, n) /\ f = FramesOf(x)
    OBVIOUS
  <1>2. n \in Nat /\ n \in 0 .. p.steps
    BY <1>1 DEF IsPlan
  <1>3. f \in Seq(Frames) /\ Len(Chosen(f, Typed("epoch"))) = Cursor(p)[n].epoch
    BY <1>1, <1>2, StepsTrain
  <1>4. x \in Seq(OwnedFrames) /\ \A i \in DOMAIN x : x[i].owner <= n
    BY <1>1, <1>2, ThroughRecursive, TakenIsThrough
  <1>5. ProgressFrames(p) = x
    BY <1>1 DEF ProgressFrames, Through
  <1>6. PICK k \in Nat : k = Len(x) /\ DOMAIN x = 1 .. k /\ Len(f) = k /\ DOMAIN f = 1 .. k
    BY <1>1, <1>3, <1>4, FramesOfProperties, LenProperties
  <1>7. \A i \in 1 .. k : f[i] = x[i].frame /\ f[i] \in Frames
    BY <1>1, <1>3, <1>4, <1>6, FramesOfProperties, ElementOfSeq
  <1>8. \A i \in 1 .. k : (x[i].frame.type = "epoch" /\ x[i].owner <= n) <=> f[i] \in Typed("epoch")
    BY <1>4, <1>6, <1>7 DEF Typed
  <1>9. { i \in DOMAIN x : x[i].frame.type = "epoch" /\ x[i].owner <= n }
          = { i \in DOMAIN f : f[i] \in Typed("epoch") }
    BY <1>6, <1>8
  <1>10. Len(Chosen(f, Typed("epoch"))) = Cardinality({ i \in DOMAIN f : f[i] \in Typed("epoch") })
    BY <1>3, ChosenCounts
  <1> QED BY <1>1, <1>3, <1>5, <1>9, <1>10 DEF EpochsCompletedAt

\* Under an epoch budget the steps of a plan are those of its epochs.
LEMMA EpochsEnd ==
  ASSUME NEW p, IsPlan(p), p.epochs # Absent
  PROVE  Position(p, p.steps) = p.epochs * p.batches
  <1>1. PICK w \in Nat \ {0} : w = CeilDiv(p.batches, p.accum)
    BY Ceiling DEF IsPlan
  <1>2. p.steps \in Nat /\ p.epochs \in Nat /\ p.steps = p.epochs * w /\ p.accum \in Nat
        /\ p.batches \in Nat
    BY <1>1 DEF IsPlan
  <1>3. Splits(p, p.steps, p.epochs, 0)
    BY <1>1, <1>2 DEF Splits
  <1>4. p.steps \in 0 .. p.steps
    BY <1>2
  <1>5. Cursor(p)[p.steps] = At(p, p.epochs, 0)
    BY <1>3, <1>4, CursorSplits
  <1>6. Cursor(p)[p.steps].epoch = p.epochs /\ Cursor(p)[p.steps].batch = 0
    BY <1>2, <1>5 DEF At
  <1> QED BY <1>2, <1>6 DEF Position

\* The quotient of a position is its epoch.
LEMMA EpochOfPosition ==
  ASSUME NEW e \in Nat, NEW m \in Nat \ {0}, NEW b \in 0 .. (m - 1)
  PROVE  (e * m + b) \div m = e
  <1>1. PICK x, q, r : x = e * m + b /\ q = x \div m /\ r = x % m
    OBVIOUS
  <1>2. x \in Nat
    BY <1>1
  <1>3. q \in Nat /\ r \in 0 .. (m - 1) /\ x = q * m + r
    BY <1>1, <1>2, Division
  <1>4. ~(e < q)
    <2>1. e < q => e * m + m <= q * m
      BY <1>3, Multiples
    <2> QED BY <1>1, <1>3, <2>1
  <1>5. ~(q < e)
    <2>1. q < e => q * m + m <= e * m
      BY <1>3, Multiples
    <2> QED BY <1>1, <1>3, <2>1
  <1> QED BY <1>1, <1>3, <1>4, <1>5

\* What a chain whose last execution completed has trained.
LEMMA ChainTrains ==
  ASSUME ChainInv, chain # << >>, Latest.final = "completed"
  PROVE  IsPlan(plan) /\ InOrder(plan, plan.steps, Trained)
  <1>1. IsPlan(plan)
    BY ChainHeaders
  <1>2. PICK p, n : p = plan /\ n = plan.steps /\ n \in Nat /\ n \in 0 .. n /\ IsPlan(p)
    BY <1>1 DEF IsPlan
  <1>3. Latest.completed = n
    <2>1. Len(chain) \in DOMAIN chain
      BY LenProperties, EmptySeq DEF ChainInv, EngineTypeOK
    <2>2. ValidHeader(plan, policy, Latest)
      BY <2>1 DEF ChainInv, Latest
    <2> QED BY <1>2, <2>2 DEF ValidHeader, Replays
  <1>4. PICK f : f = FramesOf(Through(p, n))
    OBVIOUS
  <1>5. ChainProgress = f
    <2>1. ChainProgress = Progress(p, 0, n)
      BY <1>2, <1>3, ChainsJoin
    <2>2. Progress(p, 0, n) = FramesOf(Taken(p, n, 0, n))
      BY <1>2 DEF Progress, ProgressFrames, Through, Taken
    <2>3. Taken(p, n, 0, n) = Through(p, n)
      BY <1>2, TakenIsThrough
    <2> QED BY <1>4, <2>1, <2>2, <2>3
  <1>6. f \in Seq(Frames) /\ InOrder(p, n, Chosen(f, Typed("batch")))
    BY <1>2, <1>4, StepsTrain
  <1>7. Trained = Chosen(f, Typed("batch"))
    <2>1. \A i \in DOMAIN f : f[i] \in Frames
      BY <1>6, LenProperties, ElementOfSeq
    <2>2. [i \in DOMAIN f |-> IF f[i].type = "batch" THEN <<f[i]>> ELSE << >>]
            = [i \in DOMAIN f |-> One(f[i], Typed("batch"))]
      BY <2>1 DEF One, Typed
    <2> QED BY <1>5, <2>2 DEF Trained, Chosen
  <1> QED BY <1>1, <1>2, <1>6, <1>7

\* In order, without a gap, and as long as the plan says.
LEMMA ChainTrainsInOrder == ChainInv => CompletedChainTrainsInOrder
  <1> SUFFICES ASSUME ChainInv, chain # << >>, Latest.final = "completed"
               PROVE  CompletedChainTrainsInOrder
    BY DEF CompletedChainTrainsInOrder
  <1>1. PICK p, n, y, k, m : /\ p = plan /\ n = plan.steps /\ y = Trained
                             /\ k = Position(p, n) /\ m = p.batches
    OBVIOUS
  <1>2. IsPlan(p) /\ InOrder(p, n, y)
    BY <1>1, ChainTrains
  <1>3. n \in Nat /\ n \in 0 .. p.steps /\ m \in Nat \ {0} /\ k \in Nat
    BY <1>1, <1>2, PositionGrows DEF IsPlan
  <1>4. /\ Len(y) = k /\ DOMAIN y = 1 .. k
        /\ \A i \in 1 .. k : y[i].epoch * m + y[i].batch = i - 1
        /\ \A s \in 1 .. n :
             { i \in 1 .. k : y[i].done = s - 1 } = (Position(p, s - 1) + 1) .. Position(p, s)
    BY <1>1, <1>2, LenProperties DEF InOrder
  <1>5. p.epochs # Absent => Len(y) = p.epochs * m
    BY <1>1, <1>2, <1>4, EpochsEnd
  <1>6. ASSUME NEW s \in 1 .. n
        PROVE  Cardinality({ i \in DOMAIN y : y[i].done = s - 1 }) \in 1 .. p.accum
    <2>1. s - 1 \in 0 .. (p.steps - 1) /\ s - 1 \in 0 .. p.steps /\ (s - 1) + 1 = s
      BY <1>1, <1>3
    <2>2. PICK a, w : a = Position(p, s - 1) /\ w = Window(p, Cursor(p)[s - 1].batch)
      OBVIOUS
    <2>3. a \in Nat /\ Position(p, s) = a + w /\ w \in 1 .. p.accum /\ w \in Nat
      BY <1>2, <2>1, <2>2, PositionGrows, CursorTurns
    <2>4. a + 1 \in Int /\ a + w \in Int /\ (a + w) - (a + 1) + 1 = w
      BY <2>3
    <2>5. Cardinality((a + 1) .. (a + w)) = w
      <3>1. Cardinality((a + 1) .. (a + w)) = IF a + 1 > a + w THEN 0 ELSE (a + w) - (a + 1) + 1
        BY <2>4, FS_Interval
      <3> QED BY <2>3, <2>4, <3>1
    <2>6. { i \in DOMAIN y : y[i].done = s - 1 } = (a + 1) .. (a + w)
      BY <1>4, <2>2, <2>3
    <2> QED BY <2>3, <2>5, <2>6
  <1>7. EpochsCompletedAt(p, n) = Len(y) \div m
    <2>1. PICK e, b : e = Cursor(p)[n].epoch /\ b = Cursor(p)[n].batch
      OBVIOUS
    <2>2. e \in Nat /\ b \in 0 .. (m - 1)
      BY <1>1, <1>2, <1>3, <2>1, CursorTurns
    <2>3. k = e * m + b
      BY <1>1, <2>1 DEF Position
    <2>4. k \div m = e
      BY <1>3, <2>2, <2>3, EpochOfPosition
    <2>5. EpochsCompletedAt(p, n) = e
      BY <1>1, <1>2, <2>1, EpochsOfPlan
    <2> QED BY <1>4, <2>4, <2>5
  <1> QED BY <1>1, <1>4, <1>5, <1>6, <1>7 DEF CompletedChainTrainsInOrder

-----------------------------------------------------------------------------
(* Sorting, and what a selection takes of each family and group            *)

\* Pairs are compared as a strict total order compares.
LEMMA BeforeIsOrder ==
  /\ \A a \in Int \X Int : ~Before(a, a)
  /\ \A a, b, c \in Int \X Int : Before(a, b) /\ Before(b, c) => Before(a, c)
  /\ \A a, b \in Int \X Int : a = b \/ Before(a, b) \/ Before(b, a)
  <1>1. \A a \in Int \X Int : a[1] \in Int /\ a[2] \in Int /\ a = <<a[1], a[2]>>
    OBVIOUS
  <1>2. \A a \in Int \X Int : ~Before(a, a)
    BY <1>1 DEF Before
  <1>3. \A a, b, c \in Int \X Int : Before(a, b) /\ Before(b, c) => Before(a, c)
    BY <1>1 DEF Before
  <1>4. ASSUME NEW a \in Int \X Int, NEW b \in Int \X Int, ~Before(a, b), ~Before(b, a)
        PROVE  a = b
    <2>1. a[1] = b[1] /\ a[2] = b[2]
      BY <1>1, <1>4 DEF Before
    <2> QED BY <1>1, <2>1
  <1> QED BY <1>2, <1>3, <1>4

\* What elements can be sorted by: they are finitely many, no two of them alike.
IsKey(key) ==
  /\ IsFiniteSet(DOMAIN key) /\ key \in [DOMAIN key -> Int \X Int] /\ IsInjective(key)

\* The number of elements before one.
Rank(key, x) == Cardinality({ y \in DOMAIN key : Before(key[y], key[x]) })

\* It tells the elements apart, in their order.
LEMMA RankGrows ==
  ASSUME NEW key, IsKey(key)
  PROVE  /\ Cardinality(DOMAIN key) \in Nat
         /\ \A x \in DOMAIN key : Rank(key, x) \in 0 .. (Cardinality(DOMAIN key) - 1)
         /\ \A x, y \in DOMAIN key : Before(key[x], key[y]) => Rank(key, x) < Rank(key, y)
         /\ \A x, y \in DOMAIN key : Rank(key, x) = Rank(key, y) => x = y
  <1>1. PICK S : S = DOMAIN key
    OBVIOUS
  <1>2. /\ IsFiniteSet(S) /\ Cardinality(S) \in Nat /\ \A x \in S : key[x] \in Int \X Int
        /\ \A x, y \in S : key[x] = key[y] => x = y
    BY <1>1, FS_CardinalityType DEF IsKey, IsInjective
  <1> DEFINE B(x) == { y \in S : Before(key[y], key[x]) }
  <1>3. \A x \in S : IsFiniteSet(B(x)) /\ Cardinality(B(x)) \in Nat /\ Rank(key, x) = Cardinality(B(x))
    BY <1>1, <1>2, FS_Subset, FS_CardinalityType DEF Rank
  <1>4. ASSUME NEW x \in S
        PROVE  Rank(key, x) < Cardinality(S)
    <2>1. x \notin B(x) /\ B(x) \subseteq S
      BY <1>2, BeforeIsOrder
    <2>2. Cardinality(B(x)) <= Cardinality(S) /\ Cardinality(B(x)) # Cardinality(S)
      BY <1>2, <2>1, FS_Subset
    <2> QED BY <1>2, <1>3, <2>2
  <1>5. ASSUME NEW x \in S, NEW y \in S, Before(key[x], key[y])
        PROVE  Rank(key, x) < Rank(key, y)
    <2>1. B(x) \subseteq B(y)
      BY <1>2, <1>5, BeforeIsOrder
    <2>2. x \in B(y) /\ x \notin B(x)
      BY <1>2, <1>5, BeforeIsOrder
    <2>3. Cardinality(B(x)) <= Cardinality(B(y)) /\ Cardinality(B(x)) # Cardinality(B(y))
      BY <1>3, <2>1, <2>2, FS_Subset
    <2>4. PICK b, c : b = Cardinality(B(x)) /\ c = Cardinality(B(y))
      OBVIOUS
    <2>5. b \in Nat /\ c \in Nat /\ b <= c /\ b # c /\ Rank(key, x) = b /\ Rank(key, y) = c
      BY <1>3, <2>3, <2>4
    <2> QED BY <2>5
  <1>6. ASSUME NEW x \in S, NEW y \in S, Rank(key, x) = Rank(key, y)
        PROVE  x = y
    <2>1. Rank(key, x) \in Nat
      BY <1>3
    <2>2. ~Before(key[x], key[y]) /\ ~Before(key[y], key[x])
      BY <1>5, <1>6, <2>1
    <2>3. key[x] = key[y]
      BY <1>2, <2>2, BeforeIsOrder
    <2> QED BY <1>2, <2>3
  <1>7. \A x \in S : Rank(key, x) \in 0 .. (Cardinality(S) - 1)
    <2>1. \A x \in S : Rank(key, x) \in Nat /\ Rank(key, x) < Cardinality(S)
      BY <1>3, <1>4
    <2> HIDE DEF B
    <2> QED BY <1>2, <2>1
  <1> HIDE DEF B
  <1> QED BY <1>1, <1>2, <1>5, <1>6, <1>7

\* There is an element for each rank.
LEMMA RanksAreTaken ==
  ASSUME NEW key, IsKey(key), NEW k \in 0 .. (Cardinality(DOMAIN key) - 1)
  PROVE  \E x \in DOMAIN key : Rank(key, x) = k
  <1>1. PICK S, n, T : S = DOMAIN key /\ n = Cardinality(S) /\ T = 0 .. (n - 1)
    OBVIOUS
  <1>2. n \in Nat /\ IsFiniteSet(S)
    BY <1>1, RankGrows DEF IsKey
  <1>3. IsFiniteSet(T) /\ Cardinality(T) = n
    BY <1>1, <1>2, FS_Interval
  <1>4. PICK f : f = [x \in S |-> Rank(key, x)]
    OBVIOUS
  <1>5. f \in [S -> T] /\ \A x, y \in S : f[x] = f[y] => x = y
    BY <1>1, <1>4, RankGrows
  <1>6. f \in Injection(S, T)
    BY <1>5 DEF Injection, IsInjective
  <1>7. f \in Surjection(S, T)
    BY <1>1, <1>3, <1>6, FS_Injection
  <1>8. k \in T
    BY <1>1
  <1>9. \E x \in S : f[x] = k
    BY <1>7, <1>8 DEF Surjection
  <1> QED BY <1>1, <1>4, <1>9

\* sorted(): each element once, in the order of the keys.
LEMMA SortedProperties ==
  ASSUME NEW key, IsKey(key)
  PROVE  LET s == SortedBy(key)
             n == Cardinality(DOMAIN key)
         IN /\ n \in Nat /\ s \in [1 .. n -> DOMAIN key] /\ Range(s) = DOMAIN key
            /\ \A i, j \in 1 .. n : s[i] = s[j] => i = j
            /\ \A i, j \in 1 .. n : Before(key[s[i]], key[s[j]]) => i < j
  <1>1. PICK S, n, s : S = DOMAIN key /\ n = Cardinality(S) /\ s = SortedBy(key)
    OBVIOUS
  <1>2. n \in Nat
    BY <1>1, RankGrows
  <1>3. s = [i \in 1 .. n |-> CHOOSE x \in S : Rank(key, x) = i - 1]
    BY <1>1 DEF SortedBy, Rank
  <1>4. ASSUME NEW i \in 1 .. n
        PROVE  s[i] \in S /\ Rank(key, s[i]) = i - 1
    <2>1. i - 1 \in 0 .. (n - 1)
      BY <1>2
    <2>2. \E x \in S : Rank(key, x) = i - 1
      BY <1>1, <2>1, RanksAreTaken
    <2> QED BY <1>3, <2>2
  <1>5. s \in [1 .. n -> S]
    BY <1>3, <1>4
  <1>6. \A i, j \in 1 .. n : s[i] = s[j] => i = j
    <2>1. ASSUME NEW i \in 1 .. n, NEW j \in 1 .. n, s[i] = s[j]
          PROVE  i = j
      <3>1. i - 1 = j - 1
        BY <1>4, <2>1
      <3> QED BY <1>2, <3>1
    <2> QED BY <2>1
  <1>7. ASSUME NEW x \in S
        PROVE  x \in Range(s)
    <2>1. PICK i : i = Rank(key, x) + 1 /\ i \in 1 .. n /\ i - 1 = Rank(key, x)
      BY <1>1, <1>2, RankGrows
    <2>2. s[i] = x
      BY <1>1, <1>4, <2>1, RankGrows
    <2> QED BY <1>5, <2>1, <2>2 DEF Range
  <1>8. Range(s) = S
    BY <1>4, <1>5, <1>7 DEF Range
  <1>9. ASSUME NEW i \in 1 .. n, NEW j \in 1 .. n, Before(key[s[i]], key[s[j]])
        PROVE  i < j
    <2>1. Rank(key, s[i]) < Rank(key, s[j])
      BY <1>1, <1>4, <1>9, RankGrows
    <2> QED BY <1>2, <1>4, <2>1
  <1> QED BY <1>1, <1>2, <1>5, <1>6, <1>8, <1>9

\* The interleave of lists has what the lists have.
LEMMA RoundRobinRange ==
  ASSUME NEW order, NEW m \in Nat, DOMAIN order = 1 .. m, NEW lists,
         \A f \in Range(order) : \E n \in Nat : DOMAIN lists[f] = 1 .. n
  PROVE  \A x : x \in Range(RoundRobin(order, lists))
                  <=> \E f \in Range(order) : x \in Range(lists[f])
  <1> DEFINE Row(k) == (DOMAIN lists[order[k]]) \X {k}
             places == UNION { Row(k) : k \in DOMAIN order }
             key == [place \in places |-> place]
             inTurn == SortedBy(key)
  <1>1. ASSUME NEW k \in 1 .. m
        PROVE  order[k] \in Range(order) /\ IsFiniteSet(Row(k)) /\ Row(k) \subseteq Nat \X Nat
    <2>1. order[k] \in Range(order)
      BY DEF Range
    <2>2. PICK n \in Nat : DOMAIN lists[order[k]] = 1 .. n
      BY <2>1
    <2>3. IsFiniteSet(1 .. n)
      BY FS_Interval
    <2>4. IsFiniteSet({k})
      BY FS_Singleton
    <2> QED BY <2>1, <2>2, <2>3, <2>4, FS_Product
  <1>2. IsFiniteSet(places)
    <2>1. PICK rows, g : rows = { Row(k) : k \in 1 .. m } /\ g = [k \in 1 .. m |-> Row(k)]
      OBVIOUS
    <2>2. g \in Surjection(1 .. m, rows)
      BY <2>1 DEF Surjection
    <2>3. IsFiniteSet(1 .. m)
      BY FS_Interval
    <2>4. IsFiniteSet(rows)
      BY <2>2, <2>3, FS_Surjection
    <2>5. \A r \in rows : IsFiniteSet(r)
      BY <1>1, <2>1
    <2> QED BY <2>1, <2>4, <2>5, FS_UNION
  <1>3. places \subseteq Nat \X Nat
    BY <1>1
  <1>4. IsKey(key)
    <2> HIDE DEF places
    <2> QED BY <1>2, <1>3 DEF IsKey, IsInjective
  <1>5. DOMAIN key = places
    OBVIOUS
  <1>6. PICK n \in Nat : inTurn \in [1 .. n -> places] /\ Range(inTurn) = places
    <2> HIDE DEF places
    <2>1. PICK k, t : k = key /\ t = inTurn /\ DOMAIN k = places /\ IsKey(k) /\ t = SortedBy(k)
      BY <1>4, <1>5
    <2> QED BY <2>1, SortedProperties
  <1>7. RoundRobin(order, lists) = [i \in 1 .. n |-> lists[order[inTurn[i][2]]][inTurn[i][1]]]
    <2>1. DOMAIN inTurn = 1 .. n
      BY <1>6
    <2>2. RoundRobin(order, lists) = [i \in DOMAIN inTurn |-> lists[order[inTurn[i][2]]][inTurn[i][1]]]
      BY DEF RoundRobin
    <2> HIDE DEF inTurn
    <2> QED BY <2>1, <2>2
  <1>8. ASSUME NEW x, x \in Range(RoundRobin(order, lists))
        PROVE  \E f \in Range(order) : x \in Range(lists[f])
    <2> HIDE DEF inTurn, places
    <2>1. PICK i \in 1 .. n : x = lists[order[inTurn[i][2]]][inTurn[i][1]]
      BY <1>7, <1>8 DEF Range
    <2>2. inTurn[i] \in places
      BY <1>6
    <2>3. PICK k \in 1 .. m : inTurn[i] \in Row(k)
      BY <2>2 DEF places
    <2>4. inTurn[i][2] = k /\ inTurn[i][1] \in DOMAIN lists[order[k]]
      BY <2>3
    <2> QED BY <1>1, <2>1, <2>4 DEF Range
  <1>9. ASSUME NEW x, NEW f \in Range(order), x \in Range(lists[f])
        PROVE  x \in Range(RoundRobin(order, lists))
    <2>1. PICK k \in 1 .. m : f = order[k]
      BY DEF Range
    <2>2. PICK j \in DOMAIN lists[f] : x = lists[f][j]
      BY <1>9 DEF Range
    <2>3. <<j, k>> \in places
      BY <2>1, <2>2
    <2> HIDE DEF inTurn, places
    <2>4. PICK i \in 1 .. n : inTurn[i] = <<j, k>>
      BY <1>6, <2>3 DEF Range
    <2>5. inTurn[i][1] = j /\ inTurn[i][2] = k
      BY <2>4
    <2> QED BY <1>7, <2>1, <2>2, <2>5 DEF Range
  <1> QED BY <1>8, <1>9

\* A prepared corpus, as far as the selection looks at it.
IsPrepared(rows) ==
  \E n \in Nat : DOMAIN rows = 1 .. n /\ \A i \in 1 .. n : rows[i].group \in Nat

\* The accepted training sources of a family.
LEMMA FamilyProperties ==
  ASSUME NEW rows, IsPrepared(rows), NEW f
  PROVE  /\ IsFiniteSet(OfFamily(rows, f)) /\ OfFamily(rows, f) \subseteq Nat
         /\ \A i \in OfFamily(rows, f) : rows[i].group \in Nat /\ rows[i].family = f
         /\ OfFamily(rows, f) \subseteq TrainSources(rows)
  <1>1. PICK n \in Nat : DOMAIN rows = 1 .. n /\ \A i \in 1 .. n : rows[i].group \in Nat
    BY DEF IsPrepared
  <1>2. OfFamily(rows, f) \subseteq 1 .. n
    BY <1>1 DEF OfFamily, TrainSources
  <1>3. IsFiniteSet(1 .. n)
    BY FS_Interval
  <1> QED BY <1>1, <1>2, <1>3, FS_Subset DEF OfFamily

\* The runs of the family and group of a run that come before it.
Earlier(rows, f, i) ==
  { j \in OfFamily(rows, f) : rows[j].group = rows[i].group /\ j < i }

\* The turn in which a run of its group is taken.
TurnOf(rows, f, i) == Cardinality(Earlier(rows, f, i))

\* No two runs of a group have the same turn, and the later run has the later.
LEMMA TurnGrows ==
  ASSUME NEW rows, IsPrepared(rows), NEW f
  PROVE  /\ \A i \in OfFamily(rows, f) : TurnOf(rows, f, i) \in Nat
         /\ \A i, j \in OfFamily(rows, f) :
              rows[i].group = rows[j].group /\ i < j => TurnOf(rows, f, i) < TurnOf(rows, f, j)
  <1>1. ASSUME NEW i \in OfFamily(rows, f)
        PROVE  IsFiniteSet(Earlier(rows, f, i)) /\ TurnOf(rows, f, i) \in Nat
    BY FamilyProperties, FS_Subset, FS_CardinalityType DEF Earlier, TurnOf
  <1>2. ASSUME NEW i \in OfFamily(rows, f), NEW j \in OfFamily(rows, f),
               rows[i].group = rows[j].group, i < j
        PROVE  TurnOf(rows, f, i) < TurnOf(rows, f, j)
    <2>1. PICK a, b : a = Earlier(rows, f, i) /\ b = Earlier(rows, f, j)
      OBVIOUS
    <2>2. a \subseteq b /\ i \in b /\ i \notin a
      BY <1>2, <2>1, FamilyProperties DEF Earlier
    <2>3. Cardinality(a) <= Cardinality(b) /\ Cardinality(a) # Cardinality(b)
      BY <1>1, <2>1, <2>2, FS_Subset
    <2>4. Cardinality(a) \in Nat /\ Cardinality(b) \in Nat
      BY <1>1, <2>1, FS_CardinalityType
    <2> QED BY <2>1, <2>3, <2>4 DEF TurnOf
  <1> QED BY <1>1, <1>2

\* The key by which a policy sorts the sources of a family.
FillKey(rows, p, f) ==
  IF p.fill = "prefix" THEN [i \in OfFamily(rows, f) |-> <<rows[i].group, i>>]
  ELSE [i \in OfFamily(rows, f) |-> <<TurnOf(rows, f, i), rows[i].group>>]

\* It is a key, and what is picked is the beginning of what it sorts.
LEMMA FillKeyIsKey ==
  ASSUME NEW rows, IsPrepared(rows), NEW p, NEW f
  PROVE  /\ IsKey(FillKey(rows, p, f)) /\ DOMAIN FillKey(rows, p, f) = OfFamily(rows, f)
         /\ Picked(rows, p, f) = SubSeq(SortedBy(FillKey(rows, p, f)), 1, p.quota[f])
  <1>1. PICK S : S = OfFamily(rows, f)
    OBVIOUS
  <1>2. /\ IsFiniteSet(S) /\ \A i \in S : i \in Nat /\ rows[i].group \in Nat
        /\ \A i \in S : TurnOf(rows, f, i) \in Nat
    BY <1>1, FamilyProperties, TurnGrows
  <1>3. CASE p.fill = "prefix"
    <2>1. FillKey(rows, p, f) = [i \in S |-> <<rows[i].group, i>>]
      BY <1>1, <1>3 DEF FillKey
    <2>2. IsKey([i \in S |-> <<rows[i].group, i>>])
      BY <1>2 DEF IsKey, IsInjective
    <2>3. Picked(rows, p, f) = SubSeq(SortedBy(FillKey(rows, p, f)), 1, p.quota[f])
      BY <1>1, <1>3, <2>1 DEF Picked, FamilyPrefix
    <2> QED BY <1>1, <2>1, <2>2, <2>3
  <1>4. CASE p.fill # "prefix"
    <2>1. FillKey(rows, p, f) = [i \in S |-> <<TurnOf(rows, f, i), rows[i].group>>]
      BY <1>1, <1>4 DEF FillKey
    <2>2. ASSUME NEW i \in S, NEW j \in S,
                 <<TurnOf(rows, f, i), rows[i].group>> = <<TurnOf(rows, f, j), rows[j].group>>
          PROVE  i = j
      <3>1. TurnOf(rows, f, i) = TurnOf(rows, f, j) /\ rows[i].group = rows[j].group
        BY <2>2
      <3>2. ~(i < j) /\ ~(j < i)
        BY <1>1, <1>2, <3>1, TurnGrows
      <3> QED BY <1>2, <3>2
    <2>3. IsKey([i \in S |-> <<TurnOf(rows, f, i), rows[i].group>>])
      BY <1>2, <2>2 DEF IsKey, IsInjective
    <2>4. Picked(rows, p, f) = SubSeq(SortedBy(FillKey(rows, p, f)), 1, p.quota[f])
      BY <1>1, <1>4, <2>1 DEF Picked, GroupRoundRobin, TurnOf, Earlier
    <2> QED BY <1>1, <2>1, <2>3, <2>4
  <1> QED BY <1>3, <1>4

\* The sources picked for a family: so many of its own, each once, and none before
\* which another one is left out.
LEMMA PickedProperties ==
  ASSUME NEW rows, IsPrepared(rows), NEW p, NEW f, p.quota[f] \in Nat,
         p.quota[f] <= Cardinality(OfFamily(rows, f))
  PROVE  LET picked == Picked(rows, p, f)
             key == FillKey(rows, p, f)
         IN /\ DOMAIN picked = 1 .. p.quota[f]
            /\ Range(picked) \subseteq OfFamily(rows, f)
            /\ IsFiniteSet(Range(picked)) /\ Cardinality(Range(picked)) = p.quota[f]
            /\ \A i \in Range(picked), j \in OfFamily(rows, f) :
                 Before(key[j], key[i]) => j \in Range(picked)
  <1>1. PICK S, q, key, s, x, n :
          /\ S = OfFamily(rows, f) /\ q = p.quota[f] /\ key = FillKey(rows, p, f)
          /\ s = SortedBy(key) /\ x = Picked(rows, p, f) /\ n = Cardinality(S)
    OBVIOUS
  <1>2. IsKey(key) /\ DOMAIN key = S /\ x = SubSeq(s, 1, q) /\ q \in Nat /\ q <= n
    BY <1>1, FillKeyIsKey
  <1>3. /\ n \in Nat /\ s \in [1 .. n -> S] /\ Range(s) = S
        /\ \A i, j \in 1 .. n : s[i] = s[j] => i = j
        /\ \A i, j \in 1 .. n : Before(key[s[i]], key[s[j]]) => i < j
    BY <1>1, <1>2, SortedProperties
  <1>4. s \in Seq(S) /\ Len(s) = n
    BY <1>3
  <1>5. DOMAIN x = 1 .. q /\ \A i \in 1 .. q : x[i] = s[i]
    BY <1>2, <1>3, <1>4, SubSeqProperties
  <1>6. \A i \in 1 .. q : i \in 1 .. n
    BY <1>2, <1>3
  <1>7. Range(x) \subseteq S
    BY <1>3, <1>5, <1>6 DEF Range
  <1>8. IsFiniteSet(Range(x)) /\ Cardinality(Range(x)) = q
    <2>1. x \in [1 .. q -> Range(x)]
      <3>1. x = [i \in 1 .. q |-> s[i]]
        BY <1>2, <1>3, <1>4, <1>5, SubSeqProperties
      <3> QED BY <1>5, <3>1 DEF Range
    <2>2. \A i, j \in 1 .. q : x[i] = x[j] => i = j
      BY <1>3, <1>5, <1>6
    <2>3. x \in Surjection(1 .. q, Range(x)) /\ x \in Injection(1 .. q, Range(x))
      BY <1>5, <2>1, <2>2 DEF Surjection, Injection, IsInjective, Range
    <2>4. IsFiniteSet(1 .. q) /\ Cardinality(1 .. q) = q
      BY <1>2, FS_Interval
    <2> QED BY <2>3, <2>4, FS_Surjection
  <1>9. ASSUME NEW i \in Range(x), NEW j \in S, Before(key[j], key[i])
        PROVE  j \in Range(x)
    <2>1. PICK a \in 1 .. q : i = s[a]
      BY <1>5 DEF Range
    <2>2. PICK b \in 1 .. n : j = s[b]
      BY <1>3 DEF Range
    <2>3. b < a
      BY <1>3, <1>6, <1>9, <2>1, <2>2
    <2>4. b \in 1 .. q
      BY <1>2, <1>3, <2>3
    <2> QED BY <1>5, <2>2, <2>4 DEF Range
  <1> QED BY <1>1, <1>5, <1>7, <1>8, <1>9

\* Naturals have a least one among them.
LEMMA LeastNatural ==
  ASSUME NEW X, X \subseteq Nat, X # {}
  PROVE  \E k \in X : \A j \in X : k <= j
  <1> SUFFICES ASSUME \A k \in X : \E j \in X : j < k
               PROVE  FALSE
    OBVIOUS
  <1>1. PICK T : T = { n \in Nat : \A j \in X : j > n }
    OBVIOUS
  <1>2. 0 \in T
    BY <1>1
  <1>3. ASSUME NEW n \in Nat, n \in T
        PROVE  n + 1 \in T
    <2>1. \A j \in X : j > n
      BY <1>1, <1>3
    <2>2. \A j \in X : j # n + 1
      BY <2>1
    <2> QED BY <1>1, <2>1, <2>2
  <1>4. Nat \subseteq T
    BY <1>2, <1>3, Induction
  <1>5. PICK k \in X : k \in T
    BY <1>4
  <1> QED BY <1>1, <1>5

\* A selection that select_family_balanced or select_group_balanced returns.
CanFill(rows, p) ==
  /\ IsPrepared(rows)
  /\ \E m \in Nat : DOMAIN p.order = 1 .. m
  /\ \A f \in Range(p.order) :
       p.quota[f] \in Nat /\ p.quota[f] <= Cardinality(OfFamily(rows, f))

\* The interleaved selection has of each family what was picked for it.
LEMMA SelectedOfFamily ==
  ASSUME NEW rows, NEW p, CanFill(rows, p)
  PROVE  /\ \A f \in Range(p.order) :
              Range(SelectedSources(rows, p)) \cap OfFamily(rows, f) = Range(Picked(rows, p, f))
         /\ Range(SelectedSources(rows, p)) \subseteq TrainSources(rows)
         /\ \A i \in Range(SelectedSources(rows, p)) : rows[i].family \in Range(p.order)
  <1>1. PICK lists : lists = [f \in Range(p.order) |-> Picked(rows, p, f)]
    OBVIOUS
  <1>2. ASSUME NEW f \in Range(p.order)
        PROVE  /\ lists[f] = Picked(rows, p, f) /\ Range(lists[f]) \subseteq OfFamily(rows, f)
               /\ \E n \in Nat : DOMAIN lists[f] = 1 .. n
    <2>1. lists[f] = Picked(rows, p, f)
      BY <1>1
    <2>2. /\ IsPrepared(rows) /\ p.quota[f] \in Nat
          /\ p.quota[f] <= Cardinality(OfFamily(rows, f))
      BY DEF CanFill
    <2>3. /\ DOMAIN Picked(rows, p, f) = 1 .. p.quota[f]
          /\ Range(Picked(rows, p, f)) \subseteq OfFamily(rows, f)
      BY <2>2, PickedProperties
    <2> QED BY <2>1, <2>2, <2>3
  <1>3. PICK m \in Nat : DOMAIN p.order = 1 .. m
    BY DEF CanFill
  <1>4. PICK selected : selected = RoundRobin(p.order, lists) /\ selected = SelectedSources(rows, p)
    BY <1>1 DEF SelectedSources
  <1>5. \A x : x \in Range(selected) <=> \E f \in Range(p.order) : x \in Range(lists[f])
    <2>1. \A f \in Range(p.order) : \E n \in Nat : DOMAIN lists[f] = 1 .. n
      BY <1>2
    <2>2. PICK order : order = p.order
      OBVIOUS
    <2>3. \A x : x \in Range(RoundRobin(order, lists))
                   <=> \E f \in Range(order) : x \in Range(lists[f])
      BY <1>3, <2>1, <2>2, RoundRobinRange
    <2> QED BY <1>4, <2>2, <2>3
  <1>6. \A f : \A i \in OfFamily(rows, f) : rows[i].family = f /\ i \in TrainSources(rows)
    BY DEF OfFamily
  <1>7. ASSUME NEW i \in Range(selected)
        PROVE  i \in TrainSources(rows) /\ rows[i].family \in Range(p.order)
    <2>1. PICK f \in Range(p.order) : i \in Range(lists[f])
      BY <1>5
    <2> QED BY <1>2, <1>6, <2>1
  <1>8. ASSUME NEW f \in Range(p.order)
        PROVE  Range(selected) \cap OfFamily(rows, f) = Range(Picked(rows, p, f))
    <2>1. ASSUME NEW i \in Range(selected), i \in OfFamily(rows, f)
          PROVE  i \in Range(lists[f])
      <3>1. PICK e \in Range(p.order) : i \in Range(lists[e])
        BY <1>5
      <3>2. i \in OfFamily(rows, e)
        BY <1>2, <3>1
      <3>3. e = f
        BY <1>6, <2>1, <3>2
      <3> QED BY <3>1, <3>3
    <2>2. Range(lists[f]) \subseteq Range(selected) /\ Range(lists[f]) \subseteq OfFamily(rows, f)
      BY <1>2, <1>5
    <2>3. lists[f] = Picked(rows, p, f)
      BY <1>2
    <2> QED BY <2>1, <2>2, <2>3
  <1> QED BY <1>4, <1>7, <1>8

\* The runs of a family that belong to a group.
OfGroup(rows, f, g) == { i \in OfFamily(rows, f) : rows[i].group = g }

\* A quota filled from the groups in turn takes two more of one group than of another
\* only when it has taken all of the other.
LEMMA TurnsSpread ==
  ASSUME NEW rows, IsPrepared(rows), NEW p, p.fill = "groups", NEW f, p.quota[f] \in Nat,
         p.quota[f] <= Cardinality(OfFamily(rows, f)), NEW g, NEW h,
         OfGroup(rows, f, h) \cap Range(Picked(rows, p, f)) # OfGroup(rows, f, h)
  PROVE  Cardinality(OfGroup(rows, f, g) \cap Range(Picked(rows, p, f)))
           <= Cardinality(OfGroup(rows, f, h) \cap Range(Picked(rows, p, f))) + 1
  <1>1. PICK S, P, G, H, n :
          /\ S = OfFamily(rows, f) /\ P = Range(Picked(rows, p, f))
          /\ G = OfGroup(rows, f, g) \cap P /\ H = OfGroup(rows, f, h) \cap P
          /\ n = Cardinality(H)
    OBVIOUS
  <1>2. /\ P \subseteq S /\ IsFiniteSet(P)
        /\ \A i \in P, j \in S :
             Before(FillKey(rows, p, f)[j], FillKey(rows, p, f)[i]) => j \in P
    BY <1>1, PickedProperties
  <1>3. \A i \in S : FillKey(rows, p, f)[i] = <<TurnOf(rows, f, i), rows[i].group>>
    BY <1>1 DEF FillKey
  <1>4. ASSUME NEW i \in P, NEW j \in S, TurnOf(rows, f, j) < TurnOf(rows, f, i)
        PROVE  j \in P
    <2>1. PICK a, b : a = FillKey(rows, p, f)[j] /\ b = FillKey(rows, p, f)[i]
      OBVIOUS
    <2>2. a[1] = TurnOf(rows, f, j) /\ b[1] = TurnOf(rows, f, i)
      BY <1>2, <1>3, <2>1
    <2>3. Before(a, b)
      BY <1>4, <2>2 DEF Before
    <2> QED BY <1>2, <2>1, <2>3
  <1>5. S \subseteq Nat /\ IsFiniteSet(H) /\ n \in Nat
    BY <1>1, <1>2, FamilyProperties, FS_Subset, FS_CardinalityType
  <1>6. PICK j \in S : /\ rows[j].group = h /\ j \notin P
                       /\ \A i \in S : rows[i].group = h /\ i \notin P => j <= i
    <2>1. PICK X : X = { i \in S : rows[i].group = h /\ i \notin P }
      OBVIOUS
    <2>2. X # {} /\ X \subseteq Nat
      BY <1>1, <1>5, <2>1 DEF OfGroup
    <2>3. PICK k \in X : \A i \in X : k <= i
      BY <2>2, LeastNatural
    <2> QED BY <2>1, <2>3
  <1>7. TurnOf(rows, f, j) \in Nat /\ TurnOf(rows, f, j) <= n
    <2>1. PICK E : E = Earlier(rows, f, j)
      OBVIOUS
    <2>2. E \subseteq H
      <3>1. \A i \in E : i \in S /\ rows[i].group = h /\ i \in Nat /\ j \in Nat /\ i < j
        BY <1>1, <1>5, <1>6, <2>1 DEF Earlier
      <3>2. \A i \in E : i \in P
        BY <1>6, <3>1
      <3> QED BY <1>1, <3>1, <3>2 DEF OfGroup
    <2>3. IsFiniteSet(E) /\ Cardinality(E) <= Cardinality(H)
      BY <1>5, <2>2, FS_Subset
    <2>4. TurnOf(rows, f, j) = Cardinality(E) /\ TurnOf(rows, f, j) \in Nat
      BY <1>1, <2>1, TurnGrows DEF TurnOf
    <2> QED BY <1>1, <2>3, <2>4
  <1>8. ASSUME NEW i \in G
        PROVE  TurnOf(rows, f, i) \in 0 .. n
    <2>1. i \in P /\ i \in S
      BY <1>1, <1>2
    <2>2. TurnOf(rows, f, i) \in Nat
      BY <1>1, <2>1, TurnGrows
    <2>3. ~(TurnOf(rows, f, j) < TurnOf(rows, f, i))
      BY <1>4, <1>6, <2>1
    <2> QED BY <1>5, <1>7, <2>2, <2>3
  <1>9. ASSUME NEW i \in G, NEW k \in G, TurnOf(rows, f, i) = TurnOf(rows, f, k)
        PROVE  i = k
    <2>1. i \in S /\ k \in S /\ rows[i].group = rows[k].group /\ i \in Nat /\ k \in Nat
      BY <1>1, <1>2, <1>5 DEF OfGroup
    <2>2. TurnOf(rows, f, i) \in Nat /\ TurnOf(rows, f, k) \in Nat
      BY <1>1, <2>1, TurnGrows
    <2>3. ~(i < k) /\ ~(k < i)
      BY <1>1, <1>9, <2>1, <2>2, TurnGrows
    <2> QED BY <2>1, <2>3
  <1>10. PICK turn, N : turn = [i \in G |-> TurnOf(rows, f, i)] /\ N = 0 .. n
    OBVIOUS
  <1>11. turn \in Injection(G, N)
    BY <1>8, <1>9, <1>10 DEF Injection, IsInjective
  <1>12. IsFiniteSet(N) /\ Cardinality(N) = n + 1
    <2>1. 0 \in Int /\ n \in Int /\ 0 <= n
      BY <1>5
    <2>2. IsFiniteSet(0 .. n) /\ Cardinality(0 .. n) = IF 0 > n THEN 0 ELSE n - 0 + 1
      BY <2>1, FS_Interval
    <2> QED BY <1>5, <1>10, <2>2
  <1>13. IsFiniteSet(G) /\ Cardinality(G) <= Cardinality(N)
    BY <1>11, <1>12, FS_Injection
  <1> QED BY <1>1, <1>12, <1>13

-----------------------------------------------------------------------------
(* The selection that a chain of executions trains                         *)

\* What stays true of the selection that a chain of executions trains: it is that of
\* its policy from the prepared corpus, and the plan counts its examples.
SelectionInv ==
  /\ CanFill(prepared, selection.policy)
  /\ selection.ids = SelectedSources(prepared, selection.policy)
  /\ batchSize \in Nat \ {0}
  /\ plan.batches = CeilDiv(Len(Corpus), batchSize)

\* A selection that the program makes is one.
LEMMA SelectionFills ==
  ASSUME NEW rows \in Sources, NEW p \in SelectionPolicies, CanSelect(rows, p)
  PROVE  CanFill(rows, p)
  <1>1. IsPrepared(rows)
    <2>1. PICK n \in Nat : n = Len(rows) /\ DOMAIN rows = 1 .. n
      BY SourcesAssumption, LenProperties
    <2>2. PICK E : E = [group : Nat, family : STRING, partition : STRING, kind : STRING]
      OBVIOUS
    <2>3. \A i \in 1 .. n : rows[i] \in E
      <3>1. rows \in Seq(E)
        BY <2>2, SourcesAssumption
      <3> QED BY <2>1, <3>1, ElementOfSeq
    <2>4. \A i \in 1 .. n : rows[i].group \in Nat
      BY <2>2, <2>3
    <2> QED BY <2>1, <2>4 DEF IsPrepared
  <1>2. \E m \in Nat : DOMAIN p.order = 1 .. m
    BY SelectionPoliciesAssumption, LenProperties
  <1>3. \A f \in Range(p.order) :
          p.quota[f] \in Nat /\ p.quota[f] <= Cardinality(OfFamily(rows, f))
    <2>1. ASSUME NEW f \in Range(p.order)
          PROVE  p.quota[f] \in Nat /\ p.quota[f] <= Cardinality(OfFamily(rows, f))
      <3>1. p.quota[f] \in Nat
        BY SelectionPoliciesAssumption
      <3>2. Cardinality(OfFamily(rows, f)) >= p.quota[f]
        BY DEF CanSelect
      <3>3. IsFiniteSet(OfFamily(rows, f))
        BY <1>1, FamilyProperties
      <3>4. PICK n : n = Cardinality(OfFamily(rows, f))
        OBVIOUS
      <3>5. n \in Nat
        BY <3>3, <3>4, FS_CardinalityType
      <3> QED BY <3>1, <3>2, <3>4, <3>5
    <2> QED BY <2>1
  <1> QED BY <1>1, <1>2, <1>3 DEF CanFill

\* Every initial state selects so, ...
LEMMA SelectionInvHoldsFirst == SelectedInit => SelectionInv
  <1> SUFFICES ASSUME SelectedInit PROVE SelectionInv
    OBVIOUS
  <1>1. PICK p \in SelectionPolicies : CanSelect(prepared, p) /\ selection = Selection(p, prepared)
    BY DEF SelectedInit
  <1>2. prepared \in Sources
    BY DEF SelectedInit
  <1>3. selection.policy = p /\ selection.ids = SelectedSources(prepared, p)
    BY <1>1 DEF Selection
  <1>4. CanFill(prepared, selection.policy)
    BY <1>1, <1>2, <1>3, SelectionFills
  <1>5. batchSize \in Nat \ {0}
    BY BatchesAssumption DEF SelectedInit
  <1>6. PICK n : n = Len(Corpus)
    OBVIOUS
  <1>7. plan.batches = CeilDiv(n, batchSize)
    <2>1. plan \in { EpochPlan(n, batchSize, g, m) : g \in Windows, m \in Epochs }
                  \cup { StepPlan(n, batchSize, g, s) : g \in Windows, s \in StepBudgets }
      BY <1>6 DEF SelectedInit
    <2> QED BY <2>1 DEF EpochPlan, StepPlan
  <1> QED BY <1>3, <1>4, <1>5, <1>6, <1>7 DEF SelectionInv

\* ... and no step of the engine changes it.
LEMMA SelectionInvIsKept == SelectionInv /\ [SelectedNext]_selectedVars => SelectionInv'
  <1> SUFFICES ASSUME SelectionInv, [SelectedNext]_selectedVars PROVE SelectionInv'
    OBVIOUS
  <1>1. UNCHANGED <<prepared, selection, batchSize, plan>>
    BY DEF SelectedNext, selectedVars, EngineNext, Execute, Resume, engineVars
  <1>2. Corpus' = Corpus
    BY <1>1 DEF Corpus
  <1> QED BY <1>1, <1>2 DEF SelectionInv

\* The selected runs of a group.
TakenOf(f, g) == OfGroup(prepared, f, g) \cap Range(selection.ids)

\* A corpus has each selected source once, and nothing else.
LEMMA CorpusProperties ==
  ASSUME SelectionInv
  PROVE  /\ Len(Corpus) \in Nat /\ Corpus \in [1 .. Len(Corpus) -> Range(selection.ids)]
         /\ Range(Corpus) = Range(selection.ids)
         /\ \A i, j \in 1 .. Len(Corpus) : Corpus[i] = Corpus[j] => i = j
  <1>1. PICK S, rows : S = Range(selection.ids) /\ rows = prepared
    OBVIOUS
  <1>2. IsPrepared(rows) /\ S \subseteq TrainSources(rows)
    BY <1>1, SelectedOfFamily DEF SelectionInv, CanFill
  <1>3. PICK k \in Nat : DOMAIN rows = 1 .. k
    BY <1>2 DEF IsPrepared
  <1>4. S \subseteq 1 .. k /\ IsFiniteSet(S) /\ S \subseteq Nat
    <2>1. S \subseteq 1 .. k
      BY <1>2, <1>3 DEF TrainSources
    <2>2. IsFiniteSet(1 .. k)
      BY <1>3, FS_Interval
    <2>3. IsFiniteSet(S)
      BY <2>1, <2>2, FS_Subset
    <2> QED BY <2>1, <2>3
  <1>5. PICK key, c, n : /\ key = [i \in S |-> <<i, 0>>] /\ c = SortedBy(key)
                         /\ n = Cardinality(DOMAIN key)
    OBVIOUS
  <1>6. IsKey(key) /\ DOMAIN key = S
    BY <1>4, <1>5 DEF IsKey, IsInjective
  <1>7. /\ n \in Nat /\ c \in [1 .. n -> S] /\ Range(c) = S
        /\ \A i, j \in 1 .. n : c[i] = c[j] => i = j
    <2>1. /\ n \in Nat /\ c \in [1 .. n -> DOMAIN key] /\ Range(c) = DOMAIN key
          /\ \A i, j \in 1 .. n : c[i] = c[j] => i = j
      <3>1. IsKey(key)
        BY <1>6
      <3>2. c = SortedBy(key) /\ n = Cardinality(DOMAIN key)
        BY <1>5
      <3> QED BY <3>1, <3>2, SortedProperties
    <2> QED BY <1>6, <2>1
  <1>8. Corpus = c
    BY <1>1, <1>5 DEF Corpus, EvidenceCorpus
  <1>9. Len(c) = n
    BY <1>7
  <1> QED BY <1>1, <1>7, <1>8, <1>9

\* An example is in the batch of its position.
LEMMA InBatch ==
  ASSUME SelectionInv, NEW i \in 1 .. Len(Corpus), NEW b \in Nat
  PROVE  Corpus[i] \in Batch(b) <=> b * batchSize < i /\ i <= (b + 1) * batchSize
  <1>1. PICK c, n, lo, hi : /\ c = Corpus /\ n = Len(Corpus)
                            /\ lo = b * batchSize /\ hi = (b + 1) * batchSize
    OBVIOUS
  <1>2. n \in Nat /\ i \in 1 .. n /\ \A j \in 1 .. n : c[i] = c[j] => i = j
    BY <1>1, CorpusProperties
  <1>3. lo \in Nat /\ hi \in Nat
    BY <1>1 DEF SelectionInv
  <1>4. \A j \in (lo + 1) .. n : j \in 1 .. n
    BY <1>2, <1>3
  <1>5. \A j \in (hi + 1) .. n : j \in 1 .. n
    BY <1>2, <1>3
  <1>6. c[i] \in { c[j] : j \in (lo + 1) .. n } <=> lo < i
    <2>1. i \in (lo + 1) .. n <=> lo < i
      BY <1>2, <1>3
    <2> QED BY <1>2, <1>4, <2>1
  <1>7. c[i] \in { c[j] : j \in (hi + 1) .. n } <=> hi < i
    <2>1. i \in (hi + 1) .. n <=> hi < i
      BY <1>2, <1>3
    <2> QED BY <1>2, <1>5, <2>1
  <1>8. Batch(b) = { c[j] : j \in (lo + 1) .. n } \ { c[j] : j \in (hi + 1) .. n }
    BY <1>1 DEF Batch
  <1>9. ~(hi < i) <=> i <= hi
    BY <1>2, <1>3
  <1> QED BY <1>1, <1>6, <1>7, <1>8, <1>9

\* Every position is in one of the counted batches ...
LEMMA BatchOfPosition ==
  ASSUME NEW n \in Nat, NEW size \in Nat \ {0}, NEW i \in 1 .. n
  PROVE  \E b \in 0 .. (CeilDiv(n, size) - 1) : b * size < i /\ i <= (b + 1) * size
  <1>1. PICK m : m = CeilDiv(n, size)
    OBVIOUS
  <1>2. n \in Nat \ {0}
    OBVIOUS
  <1>3. m \in Nat \ {0} /\ n <= m * size
    BY <1>1, <1>2, Ceiling
  <1>4. PICK x, b, r : x = i - 1 /\ b = x \div size /\ r = x % size
    OBVIOUS
  <1>5. x \in Nat
    BY <1>4
  <1>6. b \in Nat /\ r \in 0 .. (size - 1) /\ x = b * size + r
    BY <1>4, <1>5, Division
  <1>7. PICK low : low = b * size /\ low \in Nat /\ (b + 1) * size = low + size
    BY <1>6
  <1>8. low < i /\ i <= low + size
    BY <1>4, <1>6, <1>7
  <1>9. b < m
    <2>1. ~(b < m) => m * size <= b * size
      BY <1>3, <1>6, Multiples
    <2>2. PICK top : top = m * size /\ top \in Nat
      BY <1>3
    <2> QED BY <1>3, <1>7, <1>8, <2>1, <2>2
  <1> QED BY <1>1, <1>3, <1>6, <1>7, <1>8, <1>9

\* ... and in no other.
LEMMA OneBatch ==
  ASSUME NEW size \in Nat \ {0}, NEW i \in Nat, NEW b \in Nat, NEW c \in Nat,
         b * size < i, i <= (b + 1) * size, c * size < i, i <= (c + 1) * size
  PROVE  b = c
  <1>1. b < c => (b + 1) * size <= c * size
    <2>1. b * size + size = (b + 1) * size
      OBVIOUS
    <2> QED BY <2>1, Multiples
  <1>2. c < b => (c + 1) * size <= b * size
    <2>1. c * size + size = (c + 1) * size
      OBVIOUS
    <2> QED BY <2>1, Multiples
  <1>3. PICK v, w, x, y : v = b * size /\ w = c * size /\ x = (b + 1) * size /\ y = (c + 1) * size
    OBVIOUS
  <1>4. v \in Nat /\ w \in Nat /\ x \in Nat /\ y \in Nat
    BY <1>3
  <1> QED BY <1>1, <1>2, <1>3, <1>4

\* The selected examples of a family.
OfCorpus(f) == { x \in Range(Corpus) : prepared[x].family = f }

\* They are as many as the quota.
LEMMA QuotaInCorpus ==
  ASSUME SelectionInv, NEW f \in Range(selection.policy.order)
  PROVE  IsFiniteSet(OfCorpus(f)) /\ Cardinality(OfCorpus(f)) = selection.policy.quota[f]
  <1>1. PICK rows, p, S, P : /\ rows = prepared /\ p = selection.policy
                             /\ S = Range(selection.ids) /\ P = Range(Picked(rows, p, f))
    OBVIOUS
  <1>2. CanFill(rows, p) /\ S = Range(SelectedSources(rows, p))
    BY <1>1 DEF SelectionInv
  <1>3. S \cap OfFamily(rows, f) = P /\ S \subseteq TrainSources(rows)
    BY <1>1, <1>2, SelectedOfFamily
  <1>4. Range(Corpus) = S
    BY <1>1, CorpusProperties
  <1>5. OfCorpus(f) = P
    BY <1>1, <1>3, <1>4 DEF OfCorpus, OfFamily
  <1>6. /\ IsPrepared(rows) /\ p.quota[f] \in Nat
        /\ p.quota[f] <= Cardinality(OfFamily(rows, f))
    BY <1>1, <1>2 DEF CanFill
  <1>7. IsFiniteSet(P) /\ Cardinality(P) = p.quota[f]
    BY <1>1, <1>6, PickedProperties
  <1> QED BY <1>1, <1>5, <1>7

\* The batches of an epoch, each with the examples of a family that it has.
Trains(f, e) ==
  { t \in (DOMAIN Trained) \X OfCorpus(f) :
      Trained[t[1]].epoch = e /\ t[2] \in Batch(Trained[t[1]].batch) }

\* In an epoch of the budget every example is in one batch.
LEMMA EpochTrains ==
  ASSUME ChainInv, SelectionInv, chain # << >>, Latest.final = "completed",
         plan.epochs # Absent, NEW e \in 0 .. (plan.epochs - 1), NEW f
  PROVE  \A x \in OfCorpus(f) :
           /\ \E t \in DOMAIN Trained : <<t, x>> \in Trains(f, e)
           /\ \A t, u \in DOMAIN Trained : <<t, x>> \in Trains(f, e) /\ <<u, x>> \in Trains(f, e) => t = u
  <1>1. PICK y, k, m, n, size : /\ y = Trained /\ k = Position(plan, plan.steps) /\ m = plan.batches
                                /\ n = Len(Corpus) /\ size = batchSize
    OBVIOUS
  <1>2. IsPlan(plan) /\ InOrder(plan, plan.steps, y)
    BY <1>1, ChainTrains
  <1>3. /\ plan.epochs \in Nat \ {0} /\ m \in Nat \ {0} /\ k = plan.epochs * m /\ k \in Nat
        /\ size \in Nat \ {0} /\ m = CeilDiv(n, size) /\ n \in Nat /\ e \in Nat
    <2>1. plan.epochs \in Nat \ {0} /\ m \in Nat \ {0} /\ k = plan.epochs * m
      BY <1>1, <1>2, EpochsEnd DEF IsPlan
    <2>2. size \in Nat \ {0} /\ m = CeilDiv(n, size) /\ n \in Nat /\ e \in Nat
      BY <1>1, CorpusProperties DEF SelectionInv
    <2>3. plan.epochs * m \in Nat
      BY <2>1
    <2> QED BY <2>1, <2>2, <2>3
  <1>4. /\ DOMAIN y = 1 .. k
        /\ \A t \in 1 .. k : /\ y[t].epoch \in Nat /\ y[t].batch \in 0 .. (m - 1)
                             /\ y[t].epoch * m + y[t].batch = t - 1
    BY <1>1, <1>2, LenProperties DEF InOrder
  <1>5. ASSUME NEW t \in DOMAIN Trained, NEW x \in OfCorpus(f)
        PROVE  <<t, x>> \in Trains(f, e) <=> y[t].epoch = e /\ x \in Batch(y[t].batch)
    BY <1>1, <1>5 DEF Trains
  <1>6. ASSUME NEW x \in OfCorpus(f)
        PROVE  /\ \E t \in 1 .. k : y[t].epoch = e /\ x \in Batch(y[t].batch)
               /\ \A t, u \in 1 .. k :
                    y[t].epoch = e /\ x \in Batch(y[t].batch)
                    /\ y[u].epoch = e /\ x \in Batch(y[u].batch) => t = u
    <2>1. PICK i \in 1 .. n : x = Corpus[i]
      BY <1>1, CorpusProperties DEF OfCorpus, Range
    <2>2. \A b \in Nat : x \in Batch(b) <=> b * size < i /\ i <= (b + 1) * size
      BY <1>1, <2>1, InBatch
    <2>3. PICK b \in 0 .. (m - 1) : b * size < i /\ i <= (b + 1) * size
      BY <1>3, BatchOfPosition
    <2>4. b \in Nat /\ b < m /\ x \in Batch(b)
      BY <1>3, <2>2, <2>3
    <2>5. PICK em, t : em = e * m /\ em \in Nat /\ t = em + b + 1
      BY <1>3
    <2>6. t \in 1 .. k
      <3>1. e < plan.epochs
        BY <1>3
      <3>2. em + m <= k
        BY <1>3, <2>5, <3>1, Multiples
      <3>3. /\ b \in Nat /\ m \in Nat /\ b < m /\ em \in Nat /\ k \in Nat /\ t = em + b + 1
        BY <1>3, <2>4, <2>5
      <3> QED BY <3>2, <3>3
    <2>7. y[t].epoch = e /\ y[t].batch = b
      <3>1. PICK g, c : g = y[t].epoch /\ c = y[t].batch
        OBVIOUS
      <3>2. g \in Nat /\ c \in 0 .. (m - 1) /\ g * m + c = em + b
        BY <1>4, <2>4, <2>5, <2>6, <3>1
      <3>3. (g * m + c) \div m = g /\ (e * m + b) \div m = e
        BY <1>3, <2>3, <3>2, EpochOfPosition
      <3>4. g = e
        BY <2>5, <3>2, <3>3
      <3>5. c = b
        BY <1>3, <2>4, <2>5, <3>2, <3>4
      <3> QED BY <3>1, <3>4, <3>5
    <2>8. ASSUME NEW u \in 1 .. k, y[u].epoch = e, x \in Batch(y[u].batch)
          PROVE  u = t
      <3>0. PICK c : c = y[u].batch
        OBVIOUS
      <3>1. c \in Nat /\ em + c = u - 1
        <4>1. c \in 0 .. (m - 1) /\ e * m + c = u - 1
          BY <1>4, <2>8, <3>0
        <4> QED BY <2>5, <4>1
      <3>2. c * size < i /\ i <= (c + 1) * size
        BY <2>2, <2>8, <3>0, <3>1
      <3>3. c = b
        <4>1. i \in Nat /\ b * size < i /\ i <= (b + 1) * size
          BY <1>3, <2>3
        <4> QED BY <1>3, <2>4, <3>1, <3>2, <4>1, OneBatch
      <3>4. u \in Nat /\ em \in Nat /\ t = em + b + 1 /\ em + b = u - 1 /\ b \in Nat
        BY <1>3, <2>4, <2>5, <2>8, <3>1, <3>3
      <3> QED BY <3>4
    <2>9. \E v \in 1 .. k : y[v].epoch = e /\ x \in Batch(y[v].batch)
      BY <2>4, <2>6, <2>7
    <2>10. ASSUME NEW v \in 1 .. k, NEW u \in 1 .. k,
                  y[v].epoch = e, x \in Batch(y[v].batch), y[u].epoch = e, x \in Batch(y[u].batch)
           PROVE  v = u
      <3>1. v = t
        BY <2>8, <2>10
      <3>2. u = t
        BY <2>8, <2>10
      <3> QED BY <3>1, <3>2
    <2> QED BY <2>9, <2>10
  <1>7. DOMAIN Trained = 1 .. k
    BY <1>1, <1>4
  <1> HIDE DEF Trains
  <1> QED BY <1>5, <1>6, <1>7

\* The trained pairs of an epoch are as many as the quota.
LEMMA QuotaIsTrained ==
  ASSUME ChainInv, SelectionInv, chain # << >>, Latest.final = "completed",
         plan.epochs # Absent, NEW e \in 0 .. (plan.epochs - 1),
         NEW f \in Range(selection.policy.order)
  PROVE  Cardinality(Trains(f, e)) = selection.policy.quota[f]
  <1>1. PICK X, S, g : X = Trains(f, e) /\ S = OfCorpus(f) /\ g = [x \in X |-> x[2]]
    OBVIOUS
  <1>2. IsFiniteSet(S) /\ Cardinality(S) = selection.policy.quota[f]
    BY <1>1, QuotaInCorpus
  <1>3. \A x \in X : x \in (DOMAIN Trained) \X S
    BY <1>1 DEF Trains
  <1>4. g \in [X -> S]
    BY <1>1, <1>3
  <1>5. ASSUME NEW s \in S
        PROVE  \E x \in X : g[x] = s
    <2>1. PICK t \in DOMAIN Trained : <<t, s>> \in X
      BY <1>1, EpochTrains
    <2> QED BY <1>1, <2>1
  <1>6. ASSUME NEW x \in X, NEW y \in X, g[x] = g[y]
        PROVE  x = y
    <2>1. PICK t, u, s : t = x[1] /\ u = y[1] /\ s = x[2]
      OBVIOUS
    <2>2. /\ t \in DOMAIN Trained /\ u \in DOMAIN Trained /\ s \in S
          /\ x = <<t, s>> /\ y = <<u, s>>
      BY <1>1, <1>3, <1>6, <2>1
    <2>3. t = u
      BY <1>1, <2>2, EpochTrains
    <2> QED BY <2>2, <2>3
  <1>7. g \in Surjection(X, S) /\ g \in Injection(X, S)
    BY <1>4, <1>5, <1>6 DEF Surjection, Injection, IsInjective
  <1>8. IsFiniteSet(X)
    BY <1>2, <1>7, FS_Injection
  <1>9. Cardinality(X) = Cardinality(S)
    BY <1>7, <1>8, FS_Surjection
  <1> QED BY <1>1, <1>2, <1>9

-----------------------------------------------------------------------------
(* Theorems                                                                *)

\* The chain's type, and its retry numbers counting up from zero, for every plan
\* and every policy (engine.py:96, engine.py:151).
THEOREM EngineTypeCorrect == EngineSpec => []EngineTypeOK
  <1>1. ChainInv => EngineTypeOK
    BY DEF ChainInv
  <1> QED BY <1>1, ChainInvHoldsFirst, ChainInvIsKept, PTL DEF EngineSpec

\* Every execution that the engine builds or resumes passes the whole of its
\* validator (execution.py:497): the header checks, the replay of the loops, which
\* never run out of epochs (execution.py:370), and the check of every event of the
\* replayed log.
THEOREM OutputsAreValid == EngineSpec => []EngineOutputsAreValid
  <1>1. ChainInv => EngineOutputsAreValid
    <2> SUFFICES ASSUME ChainInv, NEW i \in DOMAIN chain
                 PROVE  Valid(plan, policy, chain[i])
      BY DEF EngineOutputsAreValid
    <2>1. IsPlan(plan) /\ IsHeader(plan, chain[i])
      BY ChainHeaders
    <2>2. \A f \in Range(Log(plan, chain[i])) : ValidEvent(f)
      BY <2>1, LogIsValid
    <2>3. ~Exhausts(plan)
      BY <2>1, Unexhausted
    <2>4. ValidHeader(plan, policy, chain[i])
      BY DEF ChainInv
    <2> QED BY <2>2, <2>3, <2>4 DEF Valid
  <1> QED BY <1>1, ChainInvHoldsFirst, ChainInvIsKept, PTL DEF EngineSpec

\* The log of the latest execution is one path from "planned" or "failed" to its
\* final state, its completed steps growing one at a time from the resume offset
\* (execution.py:409), although the validator never joins the transitions.
THEOREM LogsArePaths == EngineSpec => []LogsAreContinuous
  <1>1. ChainInv => LogsAreContinuous
    <2> SUFFICES ASSUME ChainInv, chain # << >>
                 PROVE  LogsAreContinuous
      BY DEF LogsAreContinuous
    <2>1. Len(chain) \in DOMAIN chain
      BY LenProperties, EmptySeq DEF ChainInv, EngineTypeOK
    <2>2. IsPlan(plan) /\ IsHeader(plan, Latest)
      BY <2>1, ChainHeaders DEF Latest
    <2>3. PICK log : log = Log(plan, Latest)
      OBVIOUS
    <2>4. PICK n, before : /\ n = Len(log) /\ n \in Nat
                           /\ before = IF Latest.retry = 0 THEN "planned" ELSE "failed"
      BY <2>2, <2>3, LogIsPath, LenProperties
    <2>5. Path(log, before, Latest.offset, Latest.final, Latest.completed)
      BY <2>2, <2>3, <2>4, LogIsPath
    <2>6. ASSUME NEW i \in 2 .. n
          PROVE  log[i].before = log[i - 1].after /\ log[i].done - log[i - 1].done \in {0, 1}
      <3>1. PICK j : j = i - 1 /\ j \in 1 .. (n - 1) /\ i = j + 1
        BY <2>4
      <3>2. log[j + 1].before = log[j].after /\ log[j + 1].done - log[j].done \in {0, 1}
        BY <2>4, <2>5, <3>1 DEF Path
      <3> QED BY <3>1, <3>2
    <2> QED BY <2>3, <2>4, <2>5, <2>6 DEF LogsAreContinuous, Path
  <1> QED BY <1>1, ChainInvHoldsFirst, ChainInvIsKept, PTL DEF EngineSpec

\* The progress of the executions of a chain, one after the other, is that of one
\* run that was never stopped, wherever and however often it was resumed
\* (execution.py:412, training-execution.md:111).
THEOREM ChainsAreUninterrupted == EngineSpec => []ChainIsUninterrupted
  <1>1. ChainInv => ChainIsUninterrupted
    BY ChainsJoin DEF ChainIsUninterrupted
  <1> QED BY <1>1, ChainInvHoldsFirst, ChainInvIsKept, PTL DEF EngineSpec

\* A completed chain has trained the corpus batch by batch and epoch by epoch, each
\* step no more batches than planned, and its completed epochs are those that were
\* trained to their end, for every plan and wherever the chain was stopped and
\* resumed (execution.py:323-348).
THEOREM CompletedChainsTrainInOrder == EngineSpec => []CompletedChainTrainsInOrder
  BY ChainTrainsInOrder, ChainInvHoldsFirst, ChainInvIsKept, PTL DEF EngineSpec

\* A chain has at most one execution more than the policy has retries
\* (engine.py:97).
THEOREM ChainIsBounded == EngineSpec => [](Len(chain) <= policy.maxRetries + 1)
  <1>1. ChainInv => Len(chain) <= policy.maxRetries + 1
    <2> SUFFICES ASSUME ChainInv, chain # <<>>
                 PROVE  Len(chain) <= policy.maxRetries + 1
      BY PoliciesAssumption DEF ChainInv, EngineTypeOK
    <2>1. Len(chain) \in DOMAIN chain /\ Len(chain) \in Nat
      BY DEF ChainInv, EngineTypeOK
    <2>2. /\ chain[Len(chain)].retry = Len(chain) - 1
          /\ chain[Len(chain)].retry <= policy.maxRetries
      BY <2>1 DEF ChainInv, EngineTypeOK, ValidHeader
    <2> QED BY <2>1, <2>2, PoliciesAssumption DEF ChainInv, EngineTypeOK
  <1> QED BY <1>1, ChainInvHoldsFirst, ChainInvIsKept, PTL DEF EngineSpec

\* Whatever corpus was selected and whatever plan counts its examples, the
\* executions are those of the engine: what is proved of it holds of them.
THEOREM SelectedRunsTheEngine == SelectedSpec => EngineSpec
  <1>1. SelectedInit => EngineInit
    BY DEF SelectedInit, EngineInit
  <1>2. [SelectedNext]_selectedVars => [EngineNext]_engineVars
    BY DEF SelectedNext, selectedVars
  <1> QED BY <1>1, <1>2, PTL DEF SelectedSpec, EngineSpec

\* Whatever corpus was prepared and whatever the policy, a selection that fills the
\* quotas from the groups in turn has two runs more of one group of a family than of
\* another only where it has all of the other (selection.py:378).
THEOREM SelectionSpreadsGroups == SelectedSpec => []GroupsAreSpread
  <1>1. SelectionInv => GroupsAreSpread
    <2>0. GroupsAreSpread <=>
            (selection.policy.fill = "groups" =>
               \A f \in Range(selection.policy.order) :
                 \A g, h \in GroupsOf(prepared, OfFamily(prepared, f)) :
                   Cardinality(TakenOf(f, g)) > Cardinality(TakenOf(f, h)) + 1
                     => TakenOf(f, h) = OfGroup(prepared, f, h))
      BY DEF GroupsAreSpread, OfGroup, TakenOf
    <2> SUFFICES ASSUME SelectionInv, selection.policy.fill = "groups",
                        NEW f \in Range(selection.policy.order)
                 PROVE  \A g, h : Cardinality(TakenOf(f, g)) > Cardinality(TakenOf(f, h)) + 1
                                    => TakenOf(f, h) = OfGroup(prepared, f, h)
      BY <2>0
    <2> TAKE g, h
    <2>1. PICK rows, p, P : /\ rows = prepared /\ p = selection.policy
                            /\ P = Range(Picked(rows, p, f))
      OBVIOUS
    <2>2. CanFill(rows, p) /\ Range(selection.ids) \cap OfFamily(rows, f) = P
      BY <2>1, SelectedOfFamily DEF SelectionInv
    <2>3. /\ IsPrepared(rows) /\ p.quota[f] \in Nat
          /\ p.quota[f] <= Cardinality(OfFamily(rows, f))
      BY <2>1, <2>2 DEF CanFill
    <2>4. \A k : OfGroup(rows, f, k) \cap Range(selection.ids) = OfGroup(rows, f, k) \cap P
      BY <2>2 DEF OfGroup
    <2>5. \A k : IsFiniteSet(OfGroup(rows, f, k) \cap P)
      <3>1. IsFiniteSet(OfFamily(rows, f))
        BY <2>3, FamilyProperties
      <3> QED BY <3>1, FS_Subset DEF OfGroup
    <2>6. PICK a, b : /\ a = Cardinality(OfGroup(rows, f, g) \cap P)
                      /\ b = Cardinality(OfGroup(rows, f, h) \cap P)
      OBVIOUS
    <2>7. a \in Nat /\ b \in Nat
      BY <2>5, <2>6, FS_CardinalityType
    <2>8. ASSUME OfGroup(rows, f, h) \cap P # OfGroup(rows, f, h)
          PROVE  a <= b + 1
      <3>1. p.fill = "groups"
        BY <2>1
      <3>2. OfGroup(rows, f, h) \cap Range(Picked(rows, p, f)) # OfGroup(rows, f, h)
        BY <2>1, <2>8
      <3> QED BY <2>1, <2>3, <2>6, <3>1, <3>2, TurnsSpread
    <2>9. a > b + 1 => OfGroup(rows, f, h) \cap P = OfGroup(rows, f, h)
      BY <2>7, <2>8
    <2>10. /\ TakenOf(f, g) = OfGroup(rows, f, g) \cap P
           /\ TakenOf(f, h) = OfGroup(rows, f, h) \cap P
      BY <2>1, <2>4 DEF TakenOf
    <2> QED BY <2>1, <2>6, <2>9, <2>10
  <1> QED BY <1>1, SelectionInvHoldsFirst, SelectionInvIsKept, PTL DEF SelectedSpec

\* Under an epoch budget a completed chain trains each family of the selection in
\* every epoch exactly as often as its policy says, whatever corpus was prepared,
\* however batches cut it, and wherever the chain was stopped and resumed
\* (evidence_corpus.py:151, engine.py:15).
THEOREM SelectionIsTrained == SelectedSpec => []CompletedChainTrainsTheSelection
  <1>1. ChainInv /\ SelectionInv => CompletedChainTrainsTheSelection
    <2>1. CompletedChainTrainsTheSelection <=>
            /\ CompletedChainTrainsInOrder
            /\ chain # << >> /\ Latest.final = "completed" /\ plan.epochs # Absent =>
                 \A f \in Range(selection.policy.order), e \in 0 .. (plan.epochs - 1) :
                   Cardinality(Trains(f, e)) = selection.policy.quota[f]
      BY DEF CompletedChainTrainsTheSelection, Trains, OfCorpus
    <2> QED BY <2>1, ChainTrainsInOrder, QuotaIsTrained
  <1>2. EngineSpec => []ChainInv
    BY ChainInvHoldsFirst, ChainInvIsKept, PTL DEF EngineSpec
  <1>3. SelectedSpec => []SelectionInv
    BY SelectionInvHoldsFirst, SelectionInvIsKept, PTL DEF SelectedSpec
  <1> QED BY <1>1, <1>2, <1>3, SelectedRunsTheEngine, PTL
=============================================================================
