--------------------------- MODULE TransferProofs ---------------------------
(***************************************************************************)
(* The texts a COPY line carries arrive as they were, whatever characters    *)
(* they are made of; a transfer never holds what its destination refused;    *)
(* and a collection copied to another MongoDB and synced is the same         *)
(* collection, for any number of documents, copies and changes.              *)
(***************************************************************************)
EXTENDS Transfer, FiniteSetTheorems, SequenceTheorems, TLAPS

-----------------------------------------------------------------------------
(* Induction over the natural numbers, by a set instead of an operator. *)

\* A set of natural numbers has a least one.
LEMMA Least ==
  ASSUME NEW S \in SUBSET Nat, S # {}
  PROVE  \E n \in S : \A m \in S : n <= m
<1> DEFINE below(n) == {k \in S : k < n}
           T == {below(n) : n \in S}
<1>0. \A n \in S : n \in Nat
  OBVIOUS
<1>1. T # {}
  OBVIOUS
<1>2. T \subseteq FiniteSubsetsOf(Nat)
  <2>1. ASSUME NEW n \in S PROVE IsFiniteSet(below(n))
    <3>1. n \in Nat /\ \A k \in below(n) : k \in Nat /\ k < n
      BY <1>0
    <3>2. \A k \in below(n) : k \in 0 .. (n - 1)
      BY <3>1
    <3>3. IsFiniteSet(0 .. (n - 1))
      BY <3>1, FS_Interval
    <3> HIDE DEF below
    <3> QED BY <3>2, <3>3, FS_Subset
  <2> QED BY <2>1 DEF FiniteSubsetsOf
<1>3. PICK x \in T : \A y \in T : <<y, x>> \notin StrictSubsetOrdering(Nat)
  <2> HIDE DEF T
  <2> QED BY <1>1, <1>2, FS_StrictSubsetOrderingWellFounded, WFMin
<1>4. PICK n \in S : x = below(n)
  BY <1>3
<1>5. ASSUME NEW m \in S, m < n PROVE FALSE
  <2>1. below(m) \subseteq below(n) /\ m \in below(n) /\ m \notin below(m)
    <3>1. m \in Nat /\ n \in Nat /\ ~(m < m)
      BY <1>0
    <3>2. ASSUME NEW k \in S, k < m PROVE k < n
      BY <1>0, <1>5, <3>1, <3>2
    <3> QED BY <1>5, <3>1, <3>2
  <2>2. below(m) \in SUBSET Nat /\ below(n) \in SUBSET Nat /\ below(m) \in T
    OBVIOUS
  <2>3. <<below(m), below(n)>> \in StrictSubsetOrdering(Nat)
    <3> HIDE DEF below
    <3> QED BY <2>1, <2>2 DEF StrictSubsetOrdering
  <2> QED BY <1>3, <1>4, <2>2, <2>3
<1> QED BY <1>0, <1>5

\* What holds of 0, and of n + 1 when it holds of n, holds of every number.
LEMMA Induction ==
  ASSUME NEW S, 0 \in S, \A n \in Nat : n \in S => n + 1 \in S
  PROVE  \A n \in Nat : n \in S
<1> SUFFICES ASSUME Nat \ S # {} PROVE FALSE
  OBVIOUS
<1>1. PICK n \in Nat \ S : \A m \in Nat \ S : n <= m
  <2>1. Nat \ S \in SUBSET Nat
    OBVIOUS
  <2> QED BY <2>1, Least
<1>2. n # 0 /\ n - 1 \in Nat /\ n - 1 < n
  BY <1>1
<1>3. n - 1 \in S
  BY <1>1, <1>2
<1> QED BY <1>1, <1>2, <1>3

-----------------------------------------------------------------------------
(* FlattenSeq. *)

\* The function FlattenSeq is made of.
Flat(g, seqs) == g = [i \in 1 .. Len(seqs) |-> IF i = 1 THEN seqs[i] ELSE g[i - 1] \o seqs[i]]

\* It exists, for any number of sequences,
LEMMA FlatExists ==
  ASSUME NEW C
  PROVE  \A n \in Nat : \A seqs \in Seq(Seq(C)) : Len(seqs) = n =>
           \E g \in [1 .. n -> Seq(C)] : Flat(g, seqs)
<1> DEFINE S == {n \in Nat : \A seqs \in Seq(Seq(C)) : Len(seqs) = n =>
                              \E g \in [1 .. n -> Seq(C)] : Flat(g, seqs)}
<1>1. 0 \in S
  <2> SUFFICES ASSUME NEW seqs \in Seq(Seq(C)), Len(seqs) = 0
               PROVE  \E g \in [1 .. 0 -> Seq(C)] : Flat(g, seqs)
    OBVIOUS
  <2> DEFINE g == [i \in 1 .. 0 |-> <<>>]
  <2>1. g \in [1 .. 0 -> Seq(C)] /\ Flat(g, seqs)
    BY DEF Flat
  <2> QED BY <2>1
<1>2. ASSUME NEW n \in Nat, n \in S PROVE n + 1 \in S
  <2> SUFFICES ASSUME NEW seqs \in Seq(Seq(C)), Len(seqs) = n + 1
               PROVE  \E g \in [1 .. (n + 1) -> Seq(C)] : Flat(g, seqs)
    OBVIOUS
  <2> DEFINE front == SubSeq(seqs, 1, n)
  <2>1. /\ front \in Seq(Seq(C)) /\ Len(front) = n /\ \A i \in 1 .. n : front[i] = seqs[i]
        /\ \A i \in 1 .. (n + 1) : seqs[i] \in Seq(C)
    OBVIOUS
  <2>2. PICK f \in [1 .. n -> Seq(C)] : Flat(f, front)
    <3> HIDE DEF front
    <3> QED BY <1>2, <2>1
  <2> DEFINE g == [i \in 1 .. (n + 1) |->
                     IF i <= n THEN f[i] ELSE IF n = 0 THEN seqs[1] ELSE f[n] \o seqs[n + 1]]
  <2>3. g \in [1 .. (n + 1) -> Seq(C)]
    <3> SUFFICES ASSUME NEW i \in 1 .. (n + 1) PROVE g[i] \in Seq(C)
      OBVIOUS
    <3>1. CASE i <= n
      BY <3>1
    <3>2. CASE n = 0
      BY <2>1, <3>2
    <3>3. CASE ~(i <= n) /\ n # 0
      <4>1. f[n] \in Seq(C) /\ seqs[n + 1] \in Seq(C)
        BY <2>1, <3>3
      <4> QED BY <3>3, <4>1
    <3> QED BY <3>1, <3>2, <3>3
  <2>4. Flat(g, seqs)
    <3> SUFFICES ASSUME NEW i \in 1 .. (n + 1)
                 PROVE  g[i] = IF i = 1 THEN seqs[i] ELSE g[i - 1] \o seqs[i]
      BY DEF Flat
    <3>1. CASE i <= n
      <4>1. f[i] = IF i = 1 THEN front[i] ELSE f[i - 1] \o front[i]
        <5> HIDE DEF front, g
        <5>1. i \in 1 .. Len(front)
          BY <2>1, <3>1
        <5> QED BY <2>2, <5>1 DEF Flat
      <4>2. i # 1 => i - 1 \in 1 .. n
        BY <3>1
      <4>3. g[i] = f[i] /\ (i # 1 => g[i - 1] = f[i - 1]) /\ front[i] = seqs[i]
        BY <2>1, <3>1, <4>2
      <4> HIDE DEF g, front
      <4> QED BY <4>1, <4>3
    <3>2. CASE i = n + 1
      BY <3>2
    <3> QED BY <3>1, <3>2
  <2> QED BY <2>3, <2>4
<1> HIDE DEF S
<1>3. \A n \in Nat : n \in S
  BY <1>1, <1>2, Induction
<1> QED BY <1>3 DEF S

\* and there is only one that far.
LEMMA FlatUnique ==
  ASSUME NEW seqs, NEW ts, NEW f, NEW g, Len(seqs) \in Nat, Len(ts) \in Nat,
         Flat(f, seqs), Flat(g, ts), Len(seqs) <= Len(ts),
         \A i \in 1 .. Len(seqs) : seqs[i] = ts[i]
  PROVE  \A i \in 1 .. Len(seqs) : f[i] = g[i]
<1> DEFINE S == {n \in Nat : n \in 1 .. Len(seqs) => f[n] = g[n]}
<1>1. 0 \in S
  OBVIOUS
<1>2. ASSUME NEW n \in Nat, n \in S PROVE n + 1 \in S
  <2> SUFFICES ASSUME n + 1 \in 1 .. Len(seqs) PROVE f[n + 1] = g[n + 1]
    OBVIOUS
  <2>1. n + 1 \in 1 .. Len(seqs) /\ n + 1 \in 1 .. Len(ts) /\ seqs[n + 1] = ts[n + 1]
    OBVIOUS
  <2>2. f[n + 1] = IF n + 1 = 1 THEN seqs[n + 1] ELSE f[(n + 1) - 1] \o seqs[n + 1]
    BY <2>1 DEF Flat
  <2>3. g[n + 1] = IF n + 1 = 1 THEN ts[n + 1] ELSE g[(n + 1) - 1] \o ts[n + 1]
    BY <2>1 DEF Flat
  <2>4. n + 1 # 1 => f[(n + 1) - 1] = g[(n + 1) - 1]
    BY <1>2
  <2> QED BY <2>1, <2>2, <2>3, <2>4
<1> HIDE DEF S
<1>3. \A n \in Nat : n \in S
  BY <1>1, <1>2, Induction
<1> QED BY <1>3 DEF S

\* What FlattenSeq returns,
LEMMA FlattenValue ==
  ASSUME NEW C, NEW seqs \in Seq(Seq(C)), seqs # <<>>
  PROVE  \E g \in [1 .. Len(seqs) -> Seq(C)] : Flat(g, seqs) /\ FlattenSeq(seqs) = g[Len(seqs)]
<1> DEFINE flatten == CHOOSE g : g = [i \in 1 .. Len(seqs) |->
                                       IF i = 1 THEN seqs[i] ELSE g[i - 1] \o seqs[i]]
<1>1. Len(seqs) \in Nat /\ Len(seqs) # 0
  OBVIOUS
<1>2. PICK f \in [1 .. Len(seqs) -> Seq(C)] : Flat(f, seqs)
  BY <1>1, FlatExists
<1>3. flatten = [i \in 1 .. Len(seqs) |-> IF i = 1 THEN seqs[i] ELSE flatten[i - 1] \o seqs[i]]
  BY <1>2 DEF Flat
<1>4. FlattenSeq(seqs) = flatten[Len(seqs)]
  BY <1>1 DEF FlattenSeq
<1> HIDE DEF flatten
<1>5. \A i \in 1 .. Len(seqs) : flatten[i] = f[i]
  <2>1. Flat(flatten, seqs)
    BY <1>3 DEF Flat
  <2> QED BY <1>1, <1>2, <2>1, FlatUnique
<1>6. flatten = f
  <2>1. flatten = [i \in 1 .. Len(seqs) |-> flatten[i]]
    BY <1>3
  <2>2. f = [i \in 1 .. Len(seqs) |-> f[i]]
    BY <1>2
  <2> QED BY <1>5, <2>1, <2>2
<1> QED BY <1>2, <1>4, <1>6

\* for no sequence and for one more.
LEMMA FlattenAppend ==
  ASSUME NEW C, NEW seqs \in Seq(Seq(C)), NEW t \in Seq(C)
  PROVE  /\ FlattenSeq(seqs) \in Seq(C)
         /\ FlattenSeq(Append(seqs, t)) = FlattenSeq(seqs) \o t
         /\ FlattenSeq(<<>>) = <<>>
<1>0. PICK more : more = Append(seqs, t)
  OBVIOUS
<1>1. /\ more \in Seq(Seq(C)) /\ more # <<>> /\ Len(more) = Len(seqs) + 1 /\ Len(seqs) \in Nat
      /\ more[Len(seqs) + 1] = t /\ \A i \in 1 .. Len(seqs) : more[i] = seqs[i]
  <2> DEFINE D == Seq(C)
  <2>1. seqs \in Seq(D) /\ t \in D
    OBVIOUS
  <2> HIDE DEF D
  <2>2. /\ more \in Seq(D) /\ Len(more) = Len(seqs) + 1 /\ Len(seqs) \in Nat
        /\ more[Len(seqs) + 1] = t /\ \A i \in 1 .. Len(seqs) : more[i] = seqs[i]
    BY <1>0, <2>1
  <2>3. more # <<>>
    BY <2>2
  <2> QED BY <2>2, <2>3 DEF D
<1>2. PICK g \in [1 .. Len(more) -> Seq(C)] : Flat(g, more) /\ FlattenSeq(more) = g[Len(more)]
  BY <1>1, FlattenValue
<1>3. g[Len(more)] = IF Len(more) = 1 THEN more[Len(more)] ELSE g[Len(more) - 1] \o more[Len(more)]
  <2>1. Len(more) \in 1 .. Len(more)
    BY <1>1
  <2> QED BY <1>2, <2>1 DEF Flat
<1>4. FlattenSeq(<<>>) = <<>>
  BY DEF FlattenSeq
<1>5. CASE seqs = <<>>
  <2>1. Len(seqs) = 0 /\ Len(more) = 1
    BY <1>1, <1>5
  <2>2. FlattenSeq(more) = t
    BY <1>1, <1>2, <1>3, <2>1
  <2>3. <<>> \o t = t /\ <<>> \in Seq(C)
    BY ConcatEmptySeq, EmptySeq
  <2> QED BY <1>0, <1>4, <1>5, <2>2, <2>3
<1>6. CASE seqs # <<>>
  <2>1. PICK f \in [1 .. Len(seqs) -> Seq(C)] : Flat(f, seqs) /\ FlattenSeq(seqs) = f[Len(seqs)]
    BY <1>6, FlattenValue
  <2>2. Len(seqs) # 0 /\ Len(seqs) \in 1 .. Len(seqs)
    BY <1>1, <1>6
  <2>3. \A i \in 1 .. Len(seqs) : g[i] = f[i]
    <3>1. Len(more) \in Nat /\ Len(seqs) <= Len(more) /\ \A i \in 1 .. Len(seqs) : seqs[i] = more[i]
      BY <1>1
    <3>2. Flat(f, seqs) /\ Flat(g, more) /\ Len(seqs) \in Nat
      BY <1>1, <1>2, <2>1
    <3>4. \A i \in 1 .. Len(seqs) : f[i] = g[i]
      BY <3>1, <3>2, FlatUnique, SMTT(30)
    <3> QED BY <3>4
  <2>4. g[Len(more)] = f[Len(seqs)] \o t
    <3>1. Len(more) # 1 /\ Len(more) - 1 = Len(seqs)
      BY <1>1, <2>2
    <3> QED BY <1>1, <1>3, <2>2, <2>3, <3>1
  <2> QED BY <1>0, <1>2, <1>4, <2>1, <2>2, <2>4
<1> QED BY <1>5, <1>6

-----------------------------------------------------------------------------
(* FoldLeft, which takes the greatest index off a set of indices. *)

LEMMA GreatestIndex ==
  ASSUME NEW n \in Nat, NEW T \in SUBSET (1 .. n), T # {}
  PROVE  Max(T) \in T /\ \A y \in T : Max(T) >= y
<1> DEFINE D == {n - x : x \in T}
<1>1. D \in SUBSET Nat /\ D # {}
  <2>1. ASSUME NEW x \in T PROVE n - x \in Nat
    OBVIOUS
  <2> QED BY <2>1
<1>2. PICK d \in D : \A e \in D : d <= e
  <2> HIDE DEF D
  <2> QED BY <1>1, Least
<1>3. PICK m \in T : d = n - m
  BY <1>2
<1>4. \A y \in T : m >= y
  <2> SUFFICES ASSUME NEW y \in T PROVE m >= y
    OBVIOUS
  <2>1. n - m <= n - y
    BY <1>2, <1>3
  <2> QED BY <2>1
<1> QED BY <1>4 DEF Max

\* The greatest index of a set that has n + 1, and of the first n + 1.
LEMMA GreatestOf ==
  ASSUME NEW n \in Nat, NEW T \in SUBSET (1 .. (n + 1)), n + 1 \in T
  PROVE  Max(T) = n + 1
<1>1. n + 1 \in Nat /\ T # {}
  OBVIOUS
<1>2. Max(T) \in T /\ Max(T) >= n + 1
  BY <1>1, GreatestIndex
<1>3. Max(T) \in 1 .. (n + 1)
  BY <1>2
<1> QED BY <1>1, <1>2, <1>3

\* The function a fold is made of, for a step F[i] of its own at every index.
Folds(g, base, F, n) ==
  g = [T \in SUBSET (1 .. n) |-> IF T = {} THEN base ELSE F[Max(T)][g[T \ {Max(T)}]]]

Foldable(A, base, F, n) == \E g \in [SUBSET (1 .. n) -> A] : Folds(g, base, F, n)

\* It exists.
LEMMA FoldExists ==
  ASSUME NEW A, NEW base \in A, NEW N \in Nat, NEW F \in [1 .. N -> [A -> A]]
  PROVE  Foldable(A, base, F, N)
<1> DEFINE S == {n \in Nat : n <= N => Foldable(A, base, F, n)}
<1>1. 0 \in S
  <2> DEFINE g == [T \in SUBSET (1 .. 0) |-> base]
  <2>1. 1 .. 0 = {}
    OBVIOUS
  <2>2. g \in [SUBSET (1 .. 0) -> A] /\ Folds(g, base, F, 0)
    BY <2>1 DEF Folds
  <2>3. Foldable(A, base, F, 0)
    BY <2>2 DEF Foldable
  <2> QED BY <2>3
<1>2. ASSUME NEW n \in Nat, n \in S PROVE n + 1 \in S
  <2> SUFFICES ASSUME n + 1 <= N PROVE Foldable(A, base, F, n + 1)
    OBVIOUS
  <2>0. Foldable(A, base, F, n)
    BY <1>2
  <2>1. PICK f \in [SUBSET (1 .. n) -> A] : Folds(f, base, F, n)
    BY <2>0 DEF Foldable
  <2> DEFINE g == [T \in SUBSET (1 .. (n + 1)) |->
                     IF n + 1 \in T THEN F[n + 1][f[T \ {n + 1}]] ELSE f[T]]
  <2>2. ASSUME NEW T \in SUBSET (1 .. (n + 1)) PROVE T \ {n + 1} \in SUBSET (1 .. n)
    OBVIOUS
  <2>3. F[n + 1] \in [A -> A]
    OBVIOUS
  <2>4. ASSUME NEW T \in SUBSET (1 .. (n + 1)) PROVE g[T] \in A
    <3>1. CASE n + 1 \in T
      <4>1. f[T \ {n + 1}] \in A
        BY <2>2
      <4> QED BY <2>3, <3>1, <4>1
    <3>2. CASE n + 1 \notin T
      BY <2>2, <3>2
    <3> QED BY <3>1, <3>2
  <2>5. ASSUME NEW T \in SUBSET (1 .. (n + 1))
        PROVE  g[T] = IF T = {} THEN base ELSE F[Max(T)][g[T \ {Max(T)}]]
    <3>1. CASE n + 1 \in T
      <4>1. Max(T) = n + 1
        BY <3>1, GreatestOf
      <4>2. g[T \ {n + 1}] = f[T \ {n + 1}]
        OBVIOUS
      <4>3. g[T] = F[n + 1][f[T \ {n + 1}]]
        BY <3>1
      <4> QED BY <3>1, <4>1, <4>2, <4>3
    <3>2. CASE n + 1 \notin T
      <4>1. T \in SUBSET (1 .. n) /\ T \ {Max(T)} \in SUBSET (1 .. n)
        BY <2>2, <3>2
      <4>2. f[T] = IF T = {} THEN base ELSE F[Max(T)][f[T \ {Max(T)}]]
        BY <2>1, <4>1 DEF Folds
      <4>3. n + 1 \notin T \ {Max(T)} /\ T \ {Max(T)} \in SUBSET (1 .. (n + 1))
        BY <3>2
      <4>4. g[T] = f[T] /\ g[T \ {Max(T)}] = f[T \ {Max(T)}]
        BY <3>2, <4>3
      <4> QED BY <4>2, <4>4
    <3> QED BY <3>1, <3>2
  <2>6. g \in [SUBSET (1 .. (n + 1)) -> A]
    BY <2>4
  <2>7. Folds(g, base, F, n + 1)
    BY <2>5 DEF Folds
  <2> QED BY <2>6, <2>7 DEF Foldable
<1> HIDE DEF S
<1>3. \A n \in Nat : n \in S
  BY <1>1, <1>2, Induction
<1> QED BY <1>3 DEF S

-----------------------------------------------------------------------------
(* COPY: how the characters of a line are read. *)

\* Any characters, the ones with a meaning to COPY among them.
Char == STRING \cup {BS, TAB, LF, CR, "t", "n", "r", "N"}

Reading == [out : Seq(Char), esc : BOOLEAN]
Unread == [out |-> <<>>, esc |-> FALSE]
Escaped == [t |-> TAB, n |-> LF, r |-> CR]
ReadNext(acc, c) ==
  IF acc.esc THEN [out |-> Append(acc.out, IF c \in DOMAIN Escaped THEN Escaped[c] ELSE c), esc |-> FALSE]
  ELSE IF c = BS THEN [acc EXCEPT !.esc = TRUE] ELSE [acc EXCEPT !.out = Append(@, c)]

\* What has been read after each character of s.
ReadsAs(h, s) ==
  /\ h[0] = Unread
  /\ \A n \in 0 .. (Len(s) - 1) : h[n + 1] = ReadNext(h[n], s[n + 1])
ReadTo(s, acc) == \E h \in [0 .. Len(s) -> Reading] : ReadsAs(h, s) /\ h[Len(s)] = acc

LEMMA ReadingTyped ==
  /\ Unread \in Reading
  /\ \A acc \in Reading, c \in Char : ReadNext(acc, c) \in Reading
<1>1. Unread \in Reading
  BY EmptySeq DEF Unread, Reading
<1>2. ASSUME NEW acc \in Reading, NEW c \in Char PROVE ReadNext(acc, c) \in Reading
  <2>1. acc.out \in Seq(Char) /\ acc.esc \in BOOLEAN
    BY DEF Reading
  <2>2. (IF c \in DOMAIN Escaped THEN Escaped[c] ELSE c) \in Char
    <3>1. DOMAIN Escaped = {"t", "n", "r"} /\ Escaped["t"] = TAB /\ Escaped["n"] = LF /\ Escaped["r"] = CR
      BY DEF Escaped
    <3>2. TAB \in Char /\ LF \in Char /\ CR \in Char
      BY DEF Char
    <3> QED BY <3>1, <3>2
  <2>3. CASE acc.esc
    <3> DEFINE x == IF c \in DOMAIN Escaped THEN Escaped[c] ELSE c
    <3>1. x \in Char
      BY <2>2
    <3> HIDE DEF x
    <3>2. [out |-> Append(acc.out, x), esc |-> FALSE] \in Reading
      BY <2>1, <3>1 DEF Reading
    <3> QED BY <2>3, <3>2 DEF ReadNext, x
  <2>4. CASE ~acc.esc /\ c = BS
    BY <2>4 DEF ReadNext, Reading
  <2>5. CASE ~acc.esc /\ c # BS
    <3>1. Append(acc.out, c) \in Seq(Char)
      BY <2>1
    <3> QED BY <2>5, <3>1 DEF ReadNext, Reading
  <2> QED BY <2>3, <2>4, <2>5
<1> QED BY <1>1, <1>2

\* Before the first character nothing has been read; one more character is one more step.
LEMMA ReadsEmpty == ReadTo(<<>>, Unread)
<1> DEFINE h == [n \in 0 .. 0 |-> Unread]
<1>1. Len(<<>>) = 0
  OBVIOUS
<1>2. h \in [0 .. 0 -> Reading] /\ h[0] = Unread
  BY ReadingTyped
<1>3. ReadsAs(h, <<>>)
  BY <1>1, <1>2 DEF ReadsAs
<1> HIDE DEF h
<1> QED BY <1>1, <1>2, <1>3 DEF ReadTo

LEMMA ReadsAppend ==
  ASSUME NEW s \in Seq(Char), NEW acc, NEW c \in Char, ReadTo(s, acc)
  PROVE  ReadTo(Append(s, c), ReadNext(acc, c))
<1>1. PICK h \in [0 .. Len(s) -> Reading] : ReadsAs(h, s) /\ h[Len(s)] = acc
  BY DEF ReadTo
<1>2. PICK more : more = Append(s, c)
  OBVIOUS
<1>3. /\ Len(s) \in Nat /\ Len(more) = Len(s) + 1 /\ more[Len(s) + 1] = c
      /\ \A n \in 0 .. (Len(s) - 1) : more[n + 1] = s[n + 1]
  BY <1>2
<1> DEFINE g == [n \in 0 .. (Len(s) + 1) |-> IF n <= Len(s) THEN h[n] ELSE ReadNext(acc, c)]
<1>4. acc \in Reading /\ ReadNext(acc, c) \in Reading
  <2>1. Len(s) \in 0 .. Len(s)
    BY <1>3
  <2> QED BY <1>1, <2>1, ReadingTyped
<1>5. g \in [0 .. (Len(s) + 1) -> Reading]
  <2> SUFFICES ASSUME NEW n \in 0 .. (Len(s) + 1) PROVE g[n] \in Reading
    OBVIOUS
  <2>1. n <= Len(s) => n \in 0 .. Len(s)
    BY <1>3
  <2> QED BY <1>1, <1>4, <2>1
<1>6. ReadsAs(g, more)
  <2>1. g[0] = Unread
    BY <1>1, <1>3 DEF ReadsAs
  <2>2. ASSUME NEW n \in 0 .. Len(s) PROVE g[n + 1] = ReadNext(g[n], more[n + 1])
    <3>1. CASE n = Len(s)
      <4>1. n <= Len(s) /\ ~(n + 1 <= Len(s)) /\ n + 1 \in 0 .. (Len(s) + 1) /\ n \in 0 .. (Len(s) + 1)
        BY <1>3, <3>1
      <4>2. g[n] = acc /\ g[n + 1] = ReadNext(acc, c)
        BY <1>1, <3>1, <4>1
      <4> QED BY <1>3, <3>1, <4>2
    <3>2. CASE n # Len(s)
      <4>1. n \in 0 .. (Len(s) - 1) /\ n + 1 \in 0 .. (Len(s) + 1) /\ n + 1 <= Len(s)
        BY <1>3, <3>2
      <4>2. h[n + 1] = ReadNext(h[n], s[n + 1])
        BY <1>1, <4>1 DEF ReadsAs
      <4> QED BY <1>3, <4>1, <4>2
    <3> QED BY <3>1, <3>2
  <2>3. 0 .. (Len(more) - 1) = 0 .. Len(s)
    BY <1>3
  <2> HIDE DEF g
  <2> QED BY <2>1, <2>2, <2>3 DEF ReadsAs
<1>7. g[Len(more)] = ReadNext(acc, c)
  <2>1. ~(Len(more) <= Len(s)) /\ Len(more) \in 0 .. (Len(s) + 1)
    BY <1>3
  <2> QED BY <2>1
<1> HIDE DEF g
<1> QED BY <1>2, <1>3, <1>5, <1>6, <1>7 DEF ReadTo

\* There is only one way to read the characters.
LEMMA ReadsUnique ==
  ASSUME NEW s \in Seq(Char), NEW g, NEW h, ReadsAs(g, s), ReadsAs(h, s)
  PROVE  g[Len(s)] = h[Len(s)]
<1> DEFINE S == {n \in Nat : n <= Len(s) => g[n] = h[n]}
<1>1. 0 \in S
  BY DEF ReadsAs
<1>2. ASSUME NEW n \in Nat, n \in S PROVE n + 1 \in S
  <2> SUFFICES ASSUME n + 1 <= Len(s) PROVE g[n + 1] = h[n + 1]
    OBVIOUS
  <2>1. n \in 0 .. (Len(s) - 1) /\ g[n] = h[n]
    BY <1>2
  <2> QED BY <2>1 DEF ReadsAs
<1> HIDE DEF S
<1>3. \A n \in Nat : n \in S
  BY <1>1, <1>2, Induction
<1>4. Len(s) \in Nat /\ Len(s) <= Len(s)
  OBVIOUS
<1> QED BY <1>3, <1>4 DEF S
\* The fold of Unescaped, and the characters of s read one by one.
LEMMA UnescapedReads ==
  ASSUME NEW s \in Seq(Char), NEW acc, ReadTo(s, acc), \A i \in DOMAIN s : s[i] \notin {TAB, LF, CR}
  PROVE  Unescaped(s) = acc.out
<1> DEFINE F == [i \in 1 .. Len(s) |-> [a \in Reading |-> ReadNext(a, s[i])]]
<1>1. Len(s) \in Nat /\ DOMAIN s = 1 .. Len(s) /\ \A i \in 1 .. Len(s) : s[i] \in Char
  OBVIOUS
<1>2. F \in [1 .. Len(s) -> [Reading -> Reading]]
  <2>1. ASSUME NEW i \in 1 .. Len(s) PROVE [a \in Reading |-> ReadNext(a, s[i])] \in [Reading -> Reading]
    BY <1>1, <2>1, ReadingTyped
  <2> QED BY <2>1
<1>3. PICK f \in [SUBSET (1 .. Len(s)) -> Reading] : Folds(f, Unread, F, Len(s))
  <2> HIDE DEF F
  <2>1. Foldable(Reading, Unread, F, Len(s))
    BY <1>1, <1>2, ReadingTyped, FoldExists
  <2> QED BY <2>1 DEF Foldable
<1> DEFINE Steps(g) == [T \in SUBSET DOMAIN s |-> IF T = {} THEN Unread ELSE ReadNext(g[T \ {Max(T)}], s[Max(T)])]
<1>4. f = Steps(f)
  <2>1. ASSUME NEW T \in SUBSET (1 .. Len(s)), T # {}
        PROVE  F[Max(T)][f[T \ {Max(T)}]] = ReadNext(f[T \ {Max(T)}], s[Max(T)])
    <3>1. Max(T) \in 1 .. Len(s)
      BY <1>1, <2>1, GreatestIndex
    <3>2. f[T \ {Max(T)}] \in Reading
      BY <1>3
    <3> QED BY <3>1, <3>2
  <2> HIDE DEF F
  <2>2. f = [T \in SUBSET (1 .. Len(s)) |-> IF T = {} THEN Unread ELSE F[Max(T)][f[T \ {Max(T)}]]]
    BY <1>3 DEF Folds
  <2>3. f = [T \in SUBSET (1 .. Len(s)) |-> IF T = {} THEN Unread ELSE ReadNext(f[T \ {Max(T)}], s[Max(T)])]
    BY <2>1, <2>2
  <2> QED BY <1>1, <2>3
<1> HIDE DEF F
<1>5. PICK g : g = Steps(g) /\ Unescaped(s) = g[DOMAIN s].out
  <2> DEFINE iter == CHOOSE g : g = [T \in SUBSET DOMAIN s |->
                       IF T = {} THEN [out |-> <<>>, esc |-> FALSE]
                       ELSE IF g[T \ {Max(T)}].esc
                            THEN [out |-> Append(g[T \ {Max(T)}].out,
                                    IF s[Max(T)] \in DOMAIN [t |-> TAB, n |-> LF, r |-> CR]
                                    THEN [t |-> TAB, n |-> LF, r |-> CR][s[Max(T)]] ELSE s[Max(T)]), esc |-> FALSE]
                            ELSE IF s[Max(T)] = BS THEN [g[T \ {Max(T)}] EXCEPT !.esc = TRUE]
                                 ELSE [g[T \ {Max(T)}] EXCEPT !.out = Append(@, s[Max(T)])]]
  <2>1. Unescaped(s) = iter[DOMAIN s].out
    BY DEF Unescaped, FoldLeft, MapThenFoldSet
  <2>2. iter = Steps(iter)
    BY <1>4 DEF ReadNext, Unread, Escaped
  <2> QED BY <2>1, <2>2
<1>6. ReadsAs([n \in 0 .. Len(s) |-> g[1 .. n]], s)
  <2>1. g[{}] = Unread
    BY <1>5
  <2>2. ASSUME NEW n \in 0 .. (Len(s) - 1) PROVE g[1 .. (n + 1)] = ReadNext(g[1 .. n], s[n + 1])
    <3>0. n \in Nat /\ n + 1 <= Len(s) /\ Len(s) \in Nat
      BY <1>1
    <3>1. 1 .. (n + 1) \in SUBSET (1 .. Len(s)) /\ 1 .. (n + 1) # {} /\ n \in Nat
      BY <3>0
    <3>2. Max(1 .. (n + 1)) = n + 1
      <4>1. 1 .. (n + 1) \in SUBSET (1 .. (n + 1)) /\ n + 1 \in 1 .. (n + 1)
        BY <3>1
      <4> QED BY <3>1, <4>1, GreatestOf
    <3>3. (1 .. (n + 1)) \ {n + 1} = 1 .. n
      BY <3>1
    <3> QED BY <1>1, <1>5, <3>1, <3>2, <3>3
  <2> QED BY <1>1, <2>1, <2>2 DEF ReadsAs
<1>7. PICK h \in [0 .. Len(s) -> Reading] : ReadsAs(h, s) /\ h[Len(s)] = acc
  BY DEF ReadTo
<1>8. g[1 .. Len(s)] = acc
  <2> DEFINE k == [n \in 0 .. Len(s) |-> g[1 .. n]]
  <2>1. k[Len(s)] = g[1 .. Len(s)]
    BY <1>1
  <2>2. ReadsAs(k, s)
    BY <1>6
  <2> HIDE DEF k
  <2> QED BY <1>7, <2>1, <2>2, ReadsUnique
<1> QED BY <1>1, <1>5, <1>8
-----------------------------------------------------------------------------
(* escapeCopyText: what it makes of one more character. *)

\* No two of the characters with a meaning are the same.
LEMMA CharsDiffer ==
  /\ BS # TAB /\ BS # LF /\ BS # CR /\ TAB # LF /\ TAB # CR /\ LF # CR
  /\ \A c \in {"t", "n", "r", "N"} : c # BS /\ c # TAB /\ c # LF /\ c # CR /\ c \in Char
<1>1. BS # TAB /\ BS # LF /\ BS # CR /\ TAB # LF /\ TAB # CR /\ LF # CR
  BY Zenon DEF BS, TAB, LF, CR
<1>2. "t" # BS /\ "t" # TAB /\ "t" # LF /\ "t" # CR
  BY Zenon DEF BS, TAB, LF, CR
<1>3. "n" # BS /\ "n" # TAB /\ "n" # LF /\ "n" # CR
  BY Zenon DEF BS, TAB, LF, CR
<1>4. "r" # BS /\ "r" # TAB /\ "r" # LF /\ "r" # CR
  BY Zenon DEF BS, TAB, LF, CR
<1>6. "N" # BS /\ "N" # TAB /\ "N" # LF /\ "N" # CR
  BY Zenon DEF BS, TAB, LF, CR
<1>5. {"t", "n", "r", "N"} \subseteq Char
  BY DEF Char
<1> QED BY <1>1, <1>2, <1>3, <1>4, <1>5, <1>6

\* One more character, two texts, two characters, and none, as the provers are not to take them apart.
Then(s, c) == Append(s, c)
Joined(s, t) == s \o t
Replaced(x, c, by) == IF x = c THEN by ELSE <<x>>
Pair(a, b) == <<a, b>>
Nothing == <<>>

LEMMA ReplaceAppend ==
  ASSUME NEW s \in Seq(Char), NEW x \in Char, NEW c, NEW by \in Seq(Char)
  PROVE  /\ Replace(<<>>, c, by) = <<>>
         /\ Replace(s, c, by) \in Seq(Char)
         /\ Replace(Then(s, x), c, by) = Joined(Replace(s, c, by), Replaced(x, c, by))
<1>1. PICK more : more = Append(s, x)
  OBVIOUS
<1>2. /\ Len(s) \in Nat /\ DOMAIN s = 1 .. Len(s) /\ DOMAIN more = 1 .. (Len(s) + 1)
      /\ more[Len(s) + 1] = x /\ \A i \in 1 .. Len(s) : more[i] = s[i] /\ s[i] \in Char
  BY <1>1
<1>3. PICK parts : parts = [i \in DOMAIN s |-> IF s[i] = c THEN by ELSE <<s[i]>>]
  OBVIOUS
<1>4. PICK last1 : last1 = IF x = c THEN by ELSE <<x>>
  OBVIOUS
<1>5. last1 \in Seq(Char)
  BY <1>4
<1>6. parts \in Seq(Seq(Char)) /\ Len(parts) = Len(s)
  <2> DEFINE D == Seq(Char)
  <2>1. \A i \in 1 .. Len(s) : (IF s[i] = c THEN by ELSE <<s[i]>>) \in D
    BY <1>2
  <2> HIDE DEF D
  <2>2. parts \in Seq(D) /\ Len(parts) = Len(s)
    BY <1>2, <1>3, <2>1
  <2> QED BY <2>2 DEF D
<1>7. [i \in DOMAIN more |-> IF more[i] = c THEN by ELSE <<more[i]>>] = Append(parts, last1)
  <2>1. PICK all : all = [i \in DOMAIN more |-> IF more[i] = c THEN by ELSE <<more[i]>>]
    OBVIOUS
  <2>2. PICK longer : longer = Append(parts, last1)
    OBVIOUS
  <2>3. /\ DOMAIN all = 1 .. (Len(s) + 1) /\ all[Len(s) + 1] = last1
        /\ \A i \in 1 .. Len(s) : all[i] = parts[i]
    BY <1>2, <1>3, <1>4, <2>1
  <2>4. /\ DOMAIN longer = 1 .. (Len(s) + 1) /\ longer[Len(s) + 1] = last1
        /\ \A i \in 1 .. Len(s) : longer[i] = parts[i]
    <3> DEFINE D == Seq(Char)
    <3>1. parts \in Seq(D) /\ last1 \in D
      BY <1>5, <1>6
    <3> HIDE DEF D
    <3> QED BY <1>2, <1>6, <2>2, <3>1
  <2>5. all = [i \in 1 .. (Len(s) + 1) |-> all[i]] /\ longer = [i \in 1 .. (Len(s) + 1) |-> longer[i]]
    <3> DEFINE D == Seq(Char)
    <3>1. parts \in Seq(D) /\ last1 \in D
      BY <1>5, <1>6
    <3> HIDE DEF D
    <3>2. longer \in Seq(D)
      BY <2>2, <3>1
    <3> QED BY <2>1, <2>3, <2>4, <3>2
  <2>6. \A i \in 1 .. (Len(s) + 1) : all[i] = longer[i]
    BY <1>2, <2>3, <2>4
  <2> QED BY <2>1, <2>2, <2>5, <2>6
<1>8. Replace(s, c, by) = FlattenSeq(parts)
  BY <1>3 DEF Replace
<1>9. Replace(more, c, by) = FlattenSeq(Append(parts, last1))
  BY <1>7 DEF Replace
<1>10. /\ FlattenSeq(parts) \in Seq(Char) /\ FlattenSeq(Append(parts, last1)) = FlattenSeq(parts) \o last1
  BY <1>5, <1>6, FlattenAppend
<1>11. Replace(<<>>, c, by) = <<>>
  <2>1. [i \in DOMAIN <<>> |-> IF <<>>[i] = c THEN by ELSE <<<<>>[i]>>] = <<>>
    OBVIOUS
  <2>2. FlattenSeq(<<>>) = <<>>
    BY DEF FlattenSeq
  <2> QED BY <2>1, <2>2 DEF Replace
<1> QED BY <1>1, <1>4, <1>8, <1>9, <1>10, <1>11 DEF Then, Joined, Replaced

\* What Replace makes of nothing, of a character that stays, and of one that is replaced by two.
LEMMA ReplaceThen ==
  ASSUME NEW s \in Seq(Char), NEW x \in Char, NEW c \in Char, NEW a \in Char, NEW b \in Char
  PROVE  /\ Replace(Nothing, c, Pair(a, b)) = Nothing
         /\ Replace(s, c, Pair(a, b)) \in Seq(Char)
         /\ Then(s, x) \in Seq(Char)
         /\ x # c => Replace(Then(s, x), c, Pair(a, b)) = Then(Replace(s, c, Pair(a, b)), x)
         /\ x = c => Replace(Then(s, x), c, Pair(a, b)) = Then(Then(Replace(s, c, Pair(a, b)), a), b)
<1>1. PICK by \in Seq(Char) : by = <<a, b>>
  <2>1. <<a, b>> \in Seq(Char)
    OBVIOUS
  <2> QED BY <2>1
<1>2. PICK r : r = Replace(s, c, by)
  OBVIOUS
<1>3. Replace(<<>>, c, by) = <<>> /\ r \in Seq(Char)
  BY ONLY <1>2, ReplaceAppend, s \in Seq(Char), x \in Char, by \in Seq(Char)
<1>4. Replace(Then(s, x), c, by) = Joined(r, Replaced(x, c, by))
  BY <1>2, ReplaceAppend
<1>5. x # c => Replaced(x, c, by) = <<x>>
  BY DEF Replaced
<1>7. x = c => Replaced(x, c, by) = by
  BY DEF Replaced
<1>6. Joined(r, <<x>>) = Then(r, x) /\ Joined(r, by) = Then(Then(r, a), b) /\ Then(s, x) \in Seq(Char)
  <2>1. r \o <<x>> = Append(r, x) /\ r \o <<a, b>> = Append(Append(r, a), b) /\ Append(s, x) \in Seq(Char)
    BY <1>3
  <2> QED BY <1>1, <2>1 DEF Then, Joined
<1> QED BY <1>1, <1>2, <1>3, <1>4, <1>5, <1>6, <1>7 DEF Pair, Nothing

\* The same of both characters of a pair.
LEMMA ReplacePair ==
  ASSUME NEW s \in Seq(Char), NEW y \in Char, NEW z \in Char, NEW c \in Char, NEW a \in Char, NEW b \in Char,
         y # c, z # c
  PROVE  Replace(Then(Then(s, y), z), c, Pair(a, b)) = Then(Then(Replace(s, c, Pair(a, b)), y), z)
<1>1. Then(s, y) \in Seq(Char) /\ Replace(Then(s, y), c, Pair(a, b)) = Then(Replace(s, c, Pair(a, b)), y)
  BY ReplaceThen
<1>2. Replace(Then(Then(s, y), z), c, Pair(a, b)) = Then(Replace(Then(s, y), c, Pair(a, b)), z)
  BY <1>1, ReplaceThen
<1> QED BY <1>1, <1>2

\* The letter after the backslash.
Letter(x) == IF x = BS THEN BS ELSE IF x = TAB THEN "t" ELSE IF x = LF THEN "n" ELSE "r"

\* What escapeCopyText makes of nothing, and of one more character.
LEMMA EscapeThen ==
  ASSUME NEW s \in Seq(Char), NEW x \in Char
  PROVE  /\ escapeCopyText(Nothing) = Nothing
         /\ escapeCopyText(s) \in Seq(Char)
         /\ escapeCopyText(Then(s, x)) =
              IF x \in {BS, TAB, LF, CR} THEN Then(Then(escapeCopyText(s), BS), Letter(x))
              ELSE Then(escapeCopyText(s), x)
<1>0. BS \in Char /\ TAB \in Char /\ LF \in Char /\ CR \in Char /\ "t" \in Char /\ "n" \in Char /\ "r" \in Char
  BY DEF Char
<1>1. PICK bs, t, n, r \in Char : bs = BS /\ t = "t" /\ n = "n" /\ r = "r"
  BY <1>0
<1>2. \A u : escapeCopyText(u) =
        Replace(Replace(Replace(Replace(u, BS, Pair(bs, bs)), TAB, Pair(bs, t)), LF, Pair(bs, n)), CR, Pair(bs, r))
  BY <1>1 DEF escapeCopyText, Pair
<1>3. /\ BS # TAB /\ BS # LF /\ BS # CR /\ TAB # LF /\ TAB # CR /\ LF # CR /\ bs = BS
      /\ t # LF /\ t # CR /\ n # CR
  BY <1>1, CharsDiffer
<1>4. PICK s1, s2, s3, s4 :
        /\ s1 = Replace(s, BS, Pair(bs, bs)) /\ s2 = Replace(s1, TAB, Pair(bs, t))
        /\ s3 = Replace(s2, LF, Pair(bs, n)) /\ s4 = Replace(s3, CR, Pair(bs, r))
  OBVIOUS
<1>5. s1 \in Seq(Char) /\ s2 \in Seq(Char) /\ s3 \in Seq(Char) /\ s4 \in Seq(Char)
  <2>1. s1 \in Seq(Char)
    BY <1>0, <1>4, ReplaceThen
  <2>2. s2 \in Seq(Char)
    BY <1>0, <1>4, <2>1, ReplaceThen
  <2>3. s3 \in Seq(Char)
    BY <1>0, <1>4, <2>2, ReplaceThen
  <2> QED BY <1>0, <1>4, <2>1, <2>2, <2>3, ReplaceThen
<1>6. escapeCopyText(s) = s4 /\ escapeCopyText(Nothing) = Nothing
  <2>1. \A c, a, b \in Char : Replace(Nothing, c, Pair(a, b)) = Nothing
    BY ReplaceThen
  <2> QED BY <1>0, <1>2, <1>4, <2>1
<1>7. \A u \in Seq(Char), y, c, a, b \in Char :
        /\ y # c => Replace(Then(u, y), c, Pair(a, b)) = Then(Replace(u, c, Pair(a, b)), y)
        /\ y = c => Replace(Then(u, y), c, Pair(a, b)) = Then(Then(Replace(u, c, Pair(a, b)), a), b)
  BY ReplaceThen
<1>8. \A u \in Seq(Char) :
        /\ Replace(Then(Then(u, bs), bs), TAB, Pair(bs, t)) = Then(Then(Replace(u, TAB, Pair(bs, t)), bs), bs)
        /\ Replace(Then(Then(u, bs), bs), LF, Pair(bs, n)) = Then(Then(Replace(u, LF, Pair(bs, n)), bs), bs)
        /\ Replace(Then(Then(u, bs), bs), CR, Pair(bs, r)) = Then(Then(Replace(u, CR, Pair(bs, r)), bs), bs)
        /\ Replace(Then(Then(u, bs), t), LF, Pair(bs, n)) = Then(Then(Replace(u, LF, Pair(bs, n)), bs), t)
        /\ Replace(Then(Then(u, bs), t), CR, Pair(bs, r)) = Then(Then(Replace(u, CR, Pair(bs, r)), bs), t)
        /\ Replace(Then(Then(u, bs), n), CR, Pair(bs, r)) = Then(Then(Replace(u, CR, Pair(bs, r)), bs), n)
  <2> SUFFICES ASSUME NEW u \in Seq(Char)
               PROVE  /\ Replace(Then(Then(u, bs), bs), TAB, Pair(bs, t)) = Then(Then(Replace(u, TAB, Pair(bs, t)), bs), bs)
                      /\ Replace(Then(Then(u, bs), bs), LF, Pair(bs, n)) = Then(Then(Replace(u, LF, Pair(bs, n)), bs), bs)
                      /\ Replace(Then(Then(u, bs), bs), CR, Pair(bs, r)) = Then(Then(Replace(u, CR, Pair(bs, r)), bs), bs)
                      /\ Replace(Then(Then(u, bs), t), LF, Pair(bs, n)) = Then(Then(Replace(u, LF, Pair(bs, n)), bs), t)
                      /\ Replace(Then(Then(u, bs), t), CR, Pair(bs, r)) = Then(Then(Replace(u, CR, Pair(bs, r)), bs), t)
                      /\ Replace(Then(Then(u, bs), n), CR, Pair(bs, r)) = Then(Then(Replace(u, CR, Pair(bs, r)), bs), n)
    OBVIOUS
  <2>1. Replace(Then(Then(u, bs), bs), TAB, Pair(bs, t)) = Then(Then(Replace(u, TAB, Pair(bs, t)), bs), bs)
    BY ONLY <1>0, <1>1, <1>3, ReplacePair, u \in Seq(Char)
  <2>2. Replace(Then(Then(u, bs), bs), LF, Pair(bs, n)) = Then(Then(Replace(u, LF, Pair(bs, n)), bs), bs)
    BY ONLY <1>0, <1>1, <1>3, ReplacePair, u \in Seq(Char)
  <2>3. Replace(Then(Then(u, bs), bs), CR, Pair(bs, r)) = Then(Then(Replace(u, CR, Pair(bs, r)), bs), bs)
    BY ONLY <1>0, <1>1, <1>3, ReplacePair, u \in Seq(Char)
  <2>4. Replace(Then(Then(u, bs), t), LF, Pair(bs, n)) = Then(Then(Replace(u, LF, Pair(bs, n)), bs), t)
    BY ONLY <1>0, <1>1, <1>3, ReplacePair, u \in Seq(Char)
  <2>5. Replace(Then(Then(u, bs), t), CR, Pair(bs, r)) = Then(Then(Replace(u, CR, Pair(bs, r)), bs), t)
    BY ONLY <1>0, <1>1, <1>3, ReplacePair, u \in Seq(Char)
  <2>6. Replace(Then(Then(u, bs), n), CR, Pair(bs, r)) = Then(Then(Replace(u, CR, Pair(bs, r)), bs), n)
    BY ONLY <1>0, <1>1, <1>3, ReplacePair, u \in Seq(Char)
  <2> QED BY ONLY <2>1, <2>2, <2>3, <2>4, <2>5, <2>6
<1>9. CASE x = BS
  <2>1. Replace(Then(s, x), BS, Pair(bs, bs)) = Then(Then(s1, bs), bs)
    BY <1>0, <1>4, <1>7, <1>9
  <2>2. Replace(Then(Then(s1, bs), bs), TAB, Pair(bs, t)) = Then(Then(s2, bs), bs)
    BY ONLY <1>4, <1>5, <1>8
  <2>3. Replace(Then(Then(s2, bs), bs), LF, Pair(bs, n)) = Then(Then(s3, bs), bs)
    BY ONLY <1>4, <1>5, <1>8
  <2>4. Replace(Then(Then(s3, bs), bs), CR, Pair(bs, r)) = Then(Then(s4, bs), bs)
    BY ONLY <1>4, <1>5, <1>8
  <2>5. escapeCopyText(Then(s, x)) = Then(Then(s4, bs), bs)
    BY <1>2, <2>1, <2>2, <2>3, <2>4
  <2> QED BY <1>1, <1>5, <1>6, <1>9, <2>5 DEF Letter
<1>10. CASE x = TAB
  <2>1. Replace(Then(s, x), BS, Pair(bs, bs)) = Then(s1, x)
    BY <1>0, <1>3, <1>4, <1>7, <1>10
  <2>2. Replace(Then(s1, x), TAB, Pair(bs, t)) = Then(Then(s2, bs), t)
    BY <1>0, <1>4, <1>5, <1>7, <1>10
  <2>3. Replace(Then(Then(s2, bs), t), LF, Pair(bs, n)) = Then(Then(s3, bs), t)
    BY ONLY <1>4, <1>5, <1>8
  <2>4. Replace(Then(Then(s3, bs), t), CR, Pair(bs, r)) = Then(Then(s4, bs), t)
    BY ONLY <1>4, <1>5, <1>8
  <2>5. escapeCopyText(Then(s, x)) = Then(Then(s4, bs), t)
    BY <1>2, <2>1, <2>2, <2>3, <2>4
  <2> QED BY <1>1, <1>3, <1>5, <1>6, <1>10, <2>5 DEF Letter
<1>11. CASE x = LF
  <2>1. Replace(Then(s, x), BS, Pair(bs, bs)) = Then(s1, x)
    BY <1>0, <1>3, <1>4, <1>7, <1>11
  <2>2. Replace(Then(s1, x), TAB, Pair(bs, t)) = Then(s2, x)
    BY <1>0, <1>3, <1>4, <1>5, <1>7, <1>11
  <2>3. Replace(Then(s2, x), LF, Pair(bs, n)) = Then(Then(s3, bs), n)
    BY <1>0, <1>4, <1>5, <1>7, <1>11
  <2>4. Replace(Then(Then(s3, bs), n), CR, Pair(bs, r)) = Then(Then(s4, bs), n)
    BY ONLY <1>4, <1>5, <1>8
  <2>5. escapeCopyText(Then(s, x)) = Then(Then(s4, bs), n)
    BY <1>2, <2>1, <2>2, <2>3, <2>4
  <2> QED BY <1>1, <1>3, <1>5, <1>6, <1>11, <2>5 DEF Letter
<1>12. CASE x \notin {BS, TAB, LF}
  <2>1. Replace(Then(s, x), BS, Pair(bs, bs)) = Then(s1, x)
    BY <1>0, <1>4, <1>7, <1>12
  <2>2. Replace(Then(s1, x), TAB, Pair(bs, t)) = Then(s2, x)
    BY <1>0, <1>4, <1>5, <1>7, <1>12
  <2>3. Replace(Then(s2, x), LF, Pair(bs, n)) = Then(s3, x)
    BY <1>0, <1>4, <1>5, <1>7, <1>12
  <2>4. CASE x = CR
    <3>1. Replace(Then(s3, x), CR, Pair(bs, r)) = Then(Then(s4, bs), r)
      BY <1>0, <1>4, <1>5, <1>7, <2>4
    <3>2. escapeCopyText(Then(s, x)) = Then(Then(s4, bs), r)
      BY <1>2, <2>1, <2>2, <2>3, <3>1
    <3> QED BY <1>1, <1>3, <1>5, <1>6, <2>4, <3>2 DEF Letter
  <2>5. CASE x # CR
    <3>1. Replace(Then(s3, x), CR, Pair(bs, r)) = Then(s4, x)
      BY <1>0, <1>4, <1>5, <1>7, <2>5
    <3>2. escapeCopyText(Then(s, x)) = Then(s4, x)
      BY <1>2, <2>1, <2>2, <2>3, <3>1
    <3> QED BY <1>5, <1>6, <1>12, <2>5, <3>2
  <2> QED BY <2>4, <2>5
<1> QED BY <1>9, <1>10, <1>11, <1>12

LEMMA EscapeAppend ==
  ASSUME NEW s \in Seq(Char), NEW x \in Char
  PROVE  /\ escapeCopyText(<<>>) = <<>>
         /\ escapeCopyText(s) \in Seq(Char)
         /\ escapeCopyText(Append(s, x)) =
              IF x \in {BS, TAB, LF, CR} THEN Append(Append(escapeCopyText(s), BS), Letter(x))
              ELSE Append(escapeCopyText(s), x)
BY EscapeThen DEF Then, Nothing

-----------------------------------------------------------------------------
(* What an escaped text stands for. *)

Unbroken(s) == \A i \in DOMAIN s : s[i] \notin {TAB, LF, CR}
ReadBack(s) ==
  LET e == escapeCopyText(s) IN ReadTo(e, [out |-> s, esc |-> FALSE]) /\ Unbroken(e)

LEMMA PlainAppend ==
  ASSUME NEW e \in Seq(Char), Unbroken(e), NEW c \in Char, c \notin {TAB, LF, CR}
  PROVE  Unbroken(Append(e, c))
<1>1. PICK more : more = Append(e, c)
  OBVIOUS
<1>2. /\ Len(e) \in Nat /\ DOMAIN e = 1 .. Len(e) /\ DOMAIN more = 1 .. (Len(e) + 1)
      /\ more[Len(e) + 1] = c /\ \A i \in 1 .. Len(e) : more[i] = e[i]
  BY <1>1
<1>3. ASSUME NEW i \in 1 .. (Len(e) + 1) PROVE more[i] \notin {TAB, LF, CR}
  <2>1. CASE i = Len(e) + 1
    BY <1>2, <2>1
  <2>2. CASE i # Len(e) + 1
    <3>1. i \in 1 .. Len(e)
      BY <1>2, <2>2
    <3> QED BY <1>2, <3>1 DEF Unbroken
  <2> QED BY <2>1, <2>2
<1> QED BY <1>1, <1>2, <1>3 DEF Unbroken

\* One more character is read back as it was.
LEMMA ReadBackAppend ==
  ASSUME NEW s \in Seq(Char), NEW x \in Char, ReadBack(s)
  PROVE  ReadBack(Append(s, x))
<1>1. PICK e : e = escapeCopyText(s)
  OBVIOUS
<1>2. e \in Seq(Char) /\ ReadTo(e, [out |-> s, esc |-> FALSE]) /\ Unbroken(e)
  BY <1>1, EscapeAppend DEF ReadBack
<1>3. PICK y : y = escapeCopyText(Append(s, x))
  OBVIOUS
<1>4. y = IF x \in {BS, TAB, LF, CR} THEN Append(Append(e, BS), Letter(x)) ELSE Append(e, x)
  BY <1>1, <1>3, EscapeAppend
<1>5. CASE x \in {BS, TAB, LF, CR}
  <2>1. BS \in Char /\ "t" \in Char /\ "n" \in Char /\ "r" \in Char
    BY DEF Char
  <2>2. PICK z : z = Append(e, BS)
    OBVIOUS
  <2>3. /\ Letter(x) \in Char /\ Letter(x) \notin {TAB, LF, CR} /\ BS \notin {TAB, LF, CR}
        /\ (IF Letter(x) \in DOMAIN Escaped THEN Escaped[Letter(x)] ELSE Letter(x)) = x
    <3>1. DOMAIN Escaped = {"t", "n", "r"} /\ Escaped["t"] = TAB /\ Escaped["n"] = LF /\ Escaped["r"] = CR
      BY DEF Escaped
    <3>2. Letter(BS) = BS /\ Letter(TAB) = "t" /\ Letter(LF) = "n" /\ Letter(CR) = "r"
      BY CharsDiffer DEF Letter
    <3>3. CASE x = BS
      BY <2>1, <3>1, <3>2, <3>3, CharsDiffer
    <3>4. CASE x = TAB
      BY <2>1, <3>1, <3>2, <3>4, CharsDiffer
    <3>5. CASE x = LF
      BY <2>1, <3>1, <3>2, <3>5, CharsDiffer
    <3>6. CASE x = CR
      BY <2>1, <3>1, <3>2, <3>6, CharsDiffer
    <3> QED BY <1>5, <3>3, <3>4, <3>5, <3>6
  <2>4. z \in Seq(Char) /\ Unbroken(z) /\ ReadTo(z, [out |-> s, esc |-> TRUE])
    <3>1. ReadNext([out |-> s, esc |-> FALSE], BS) = [out |-> s, esc |-> TRUE]
      BY DEF ReadNext
    <3>2. ReadTo(z, ReadNext([out |-> s, esc |-> FALSE], BS))
      BY <1>2, <2>1, <2>2, ReadsAppend
    <3>3. Unbroken(z)
      BY <1>2, <2>1, <2>2, <2>3, PlainAppend
    <3> QED BY <1>2, <2>1, <2>2, <3>1, <3>2, <3>3
  <2>5. Unbroken(y)
    BY <1>4, <1>5, <2>2, <2>3, <2>4, PlainAppend
  <2>6. ReadNext([out |-> s, esc |-> TRUE], Letter(x)) = [out |-> Append(s, x), esc |-> FALSE]
    BY <2>3 DEF ReadNext
  <2>7. ReadTo(y, ReadNext([out |-> s, esc |-> TRUE], Letter(x)))
    BY <1>4, <1>5, <2>2, <2>3, <2>4, ReadsAppend
  <2> QED BY <1>3, <2>5, <2>6, <2>7 DEF ReadBack
<1>6. CASE x \notin {BS, TAB, LF, CR}
  <2>1. y = Append(e, x) /\ Unbroken(y)
    BY <1>2, <1>4, <1>6, PlainAppend
  <2>2. ReadNext([out |-> s, esc |-> FALSE], x) = [out |-> Append(s, x), esc |-> FALSE]
    BY <1>6 DEF ReadNext
  <2>3. ReadTo(y, ReadNext([out |-> s, esc |-> FALSE], x))
    BY <1>2, <2>1, ReadsAppend
  <2> QED BY <1>3, <2>1, <2>2, <2>3 DEF ReadBack
<1> QED BY <1>5, <1>6

\* Every text is.
LEMMA ReadBackAll == \A s \in Seq(Char) : ReadBack(s)
<1> DEFINE S == {n \in Nat : \A s \in Seq(Char) : Len(s) = n => ReadBack(s)}
<1>1. 0 \in S
  <2> SUFFICES ASSUME NEW s \in Seq(Char), Len(s) = 0 PROVE ReadBack(s)
    OBVIOUS
  <2>1. s = <<>>
    OBVIOUS
  <2>2. BS \in Char
    BY DEF Char
  <2>3. escapeCopyText(s) = <<>>
    BY <2>1, <2>2, EscapeAppend
  <2>4. ReadTo(<<>>, [out |-> s, esc |-> FALSE])
    BY <2>1, ReadsEmpty DEF Unread
  <2>5. Unbroken(<<>>)
    BY DEF Unbroken
  <2> QED BY <2>3, <2>4, <2>5 DEF ReadBack
<1>2. ASSUME NEW n \in Nat, n \in S PROVE n + 1 \in S
  <2> SUFFICES ASSUME NEW s \in Seq(Char), Len(s) = n + 1 PROVE ReadBack(s)
    OBVIOUS
  <2>1. PICK front : front = SubSeq(s, 1, n)
    OBVIOUS
  <2>2. front \in Seq(Char) /\ Len(front) = n /\ s[n + 1] \in Char
    BY <2>1
  <2>3. s = Append(front, s[n + 1])
    BY <2>1, <2>2
  <2>4. ReadBack(front)
    BY <1>2, <2>2
  <2> QED BY <2>2, <2>3, <2>4, ReadBackAppend
<1> HIDE DEF S
<1>3. \A n \in Nat : n \in S
  BY <1>1, <1>2, Induction
<1> QED BY <1>3 DEF S

(* A text that a COPY line carries (PostgresWriter's escapeCopyText, and what *)
(* Postgres makes of the line) arrives as it was, however long it is and      *)
(* whatever it is made of: backslashes, tabs and line breaks among the rest.  *)
THEOREM CopyRoundTrip == \A s \in Seq(Char) : Unescaped(escapeCopyText(s)) = s
<1> SUFFICES ASSUME NEW s \in Seq(Char) PROVE Unescaped(escapeCopyText(s)) = s
  OBVIOUS
<1>1. PICK e : e = escapeCopyText(s)
  OBVIOUS
<1>2. e \in Seq(Char)
  <2>1. BS \in Char
    BY DEF Char
  <2> QED BY <1>1, <2>1, EscapeAppend
<1>3. ReadTo(e, [out |-> s, esc |-> FALSE]) /\ \A i \in DOMAIN e : e[i] \notin {TAB, LF, CR}
  BY <1>1, ReadBackAll DEF ReadBack, Unbroken
<1>4. Unescaped(e) = [out |-> s, esc |-> FALSE].out
  BY <1>2, <1>3, UnescapedReads
<1> QED BY <1>1, <1>4

(* No text is written as the NULL of a COPY line, a backslash and an N: what *)
(* encodeField writes for null is read for nothing else.                     *)
THEOREM NoTextIsNull == \A s \in Seq(Char) : escapeCopyText(s) # <<BS, "N">>
<1> SUFFICES ASSUME NEW s \in Seq(Char), escapeCopyText(s) = <<BS, "N">> PROVE FALSE
  OBVIOUS
<1>1. BS \in Char /\ "N" \in Char /\ "N" \notin {BS, TAB, LF, CR} /\ BS \notin {TAB, LF, CR}
  BY CharsDiffer DEF Char
<1>2. PICK null : null = <<BS, "N">>
  OBVIOUS
<1>3. PICK one \in Seq(Char) : one = <<BS>>
  <2>1. <<BS>> \in Seq(Char)
    BY <1>1
  <2> QED BY <2>1
<1>4. <<>> \in Seq(Char) /\ one = Append(<<>>, BS) /\ null = Append(one, "N") /\ null \in Seq(Char)
  BY <1>1, <1>2, <1>3
<1>5. Unescaped(null) = <<"N">>
  <2>1. ReadTo(<<>>, Unread)
    BY ReadsEmpty
  <2>2. ReadNext(Unread, BS) = [out |-> <<>>, esc |-> TRUE]
    BY DEF ReadNext, Unread
  <2>3. ReadTo(one, [out |-> <<>>, esc |-> TRUE])
    BY <1>1, <1>4, <2>1, <2>2, ReadsAppend
  <2>4. "N" \notin DOMAIN Escaped
    BY DEF Escaped
  <2>5. ReadNext([out |-> <<>>, esc |-> TRUE], "N") = [out |-> <<"N">>, esc |-> FALSE]
    BY <2>4 DEF ReadNext
  <2>6. ReadTo(null, [out |-> <<"N">>, esc |-> FALSE])
    BY <1>1, <1>3, <1>4, <2>3, <2>5, ReadsAppend
  <2>7. \A i \in DOMAIN null : null[i] \notin {TAB, LF, CR}
    BY <1>1, <1>2
  <2>8. Unescaped(null) = [out |-> <<"N">>, esc |-> FALSE].out
    BY <1>4, <2>6, <2>7, UnescapedReads
  <2> QED BY <2>8
<1>6. s = <<"N">>
  BY <1>2, <1>5, CopyRoundTrip
<1>7. escapeCopyText(s) = <<"N">>
  <2>1. escapeCopyText(<<>>) = <<>> /\ escapeCopyText(Append(<<>>, "N")) = Append(escapeCopyText(<<>>), "N")
    BY <1>1, <1>4, EscapeAppend
  <2>2. Append(<<>>, "N") = <<"N">>
    OBVIOUS
  <2> QED BY <1>6, <2>1, <2>2
<1>8. Len(<<"N">>) # Len(<<BS, "N">>)
  OBVIOUS
<1> QED BY <1>7, <1>8

(* Whatever engine a text comes from, it is in a text column of Postgres as   *)
(* the source had it: the mapper's coercion, the COPY line and the column     *)
(* change none of it.  <<"?">> is what the model reads a broken line as.      *)
THEOREM TextCarried ==
  \A from \in Engine, t \in Text, v \in Seq(Char) \ {<<"?">>}, east \in BOOLEAN :
    Store("postgres", t, CoerceTo(from, "postgres", t, J("string", v)), east) = J("stored", v)
<1> SUFFICES ASSUME NEW from \in Engine, NEW t \in Text, NEW v \in Seq(Char) \ {<<"?">>}, NEW east \in BOOLEAN
             PROVE  Store("postgres", t, CoerceTo(from, "postgres", t, J("string", v)), east) = J("stored", v)
  OBVIOUS
<1>1. PICK x : x = J("string", v)
  OBVIOUS
<1>2. x.is = "string" /\ x.v = v
  BY <1>1 DEF J
<1>3. CoerceTo(from, "postgres", t, x) = x
  <2>1. mongoToPgCoerce(t, x) = x
    BY <1>2 DEF mongoToPgCoerce, IsText, Text, Json
  <2>2. mysqlToPgCoerce(t, x) = x
    BY <1>2 DEF mysqlToPgCoerce, AsString, IsText, IsObject, Text, Json
  <2> QED BY <2>1, <2>2 DEF CoerceTo, Engine
<1>4. encodeField(x) = J("string", escapeCopyText(v))
  BY <1>2 DEF encodeField, IsObject
<1>5. PICK f : f = encodeField(x)
  OBVIOUS
<1>6. f.is = "string" /\ Unescaped(f.v) = v
  BY <1>4, <1>5, CopyRoundTrip DEF J
<1>7. canonicalToPgType(t) = "TEXT"
  BY DEF canonicalToPgType, Text, Json
<1>8. v # <<"?">>
  OBVIOUS
<1>9. StorePostgres(canonicalToPgType(t), f, east) = J("stored", v)
  BY <1>6, <1>7, <1>8 DEF StorePostgres
<1>10. Store("postgres", t, x, east) = StorePostgres(canonicalToPgType(t), f, east)
  BY <1>5 DEF Store
<1> QED BY <1>1, <1>3, <1>9, <1>10

-----------------------------------------------------------------------------
(* Values that are not refused. *)

Sound(x) == x = J(x.is, x.v) /\ x.is # "rejected"
AllSound(f) == \A n \in DOMAIN f : Sound(f[n])

LEMMA SoundMade == \A is, v : is # "rejected" => Sound(J(is, v))
BY DEF Sound, J

LEMMA SoundKept ==
  ASSUME NEW x, Sound(x)
  PROVE  x # Rejected /\ \A v : Sound([x EXCEPT !.v = v]) /\ [x EXCEPT !.v = v].v = v
<1>1. PICK is, v : x = [is |-> is, v |-> v] /\ is # "rejected"
  BY DEF Sound, J
<1>2. x.is = is
  BY <1>1
<1>3. Rejected.is = "rejected"
  BY DEF Rejected, J
<1>4. ASSUME NEW w PROVE [x EXCEPT !.v = w] = J(is, w)
  BY <1>1 DEF J
<1>5. \A w : J(is, w).v = w
  BY DEF J
<1> QED BY <1>1, <1>2, <1>3, <1>4, <1>5, SoundMade

LEMMA FieldHas == \A n, x : DOMAIN Field(n, x) = {n} /\ Field(n, x)[n] = x
BY DEF Field

LEMMA OverHas ==
  ASSUME NEW f, NEW g
  PROVE  /\ DOMAIN Over(f, g) = DOMAIN f \cup DOMAIN g
         /\ \A n \in DOMAIN f : Over(f, g)[n] = f[n]
         /\ \A n \in DOMAIN g \ DOMAIN f : Over(f, g)[n] = g[n]
BY DEF Over

LEMMA OverSound ==
  ASSUME NEW f, NEW g, AllSound(f), AllSound(g)
  PROVE  AllSound(Over(f, g))
<1>1. PICK h : h = Over(f, g)
  OBVIOUS
<1>2. /\ DOMAIN h = DOMAIN f \cup DOMAIN g /\ \A n \in DOMAIN f : h[n] = f[n]
      /\ \A n \in DOMAIN g \ DOMAIN f : h[n] = g[n]
  BY <1>1 DEF Over
<1> QED BY <1>1, <1>2 DEF AllSound

LEMMA FieldSound ==
  ASSUME NEW n, NEW x, Sound(x)
  PROVE  AllSound(Field(n, x))
<1>1. PICK h : h = Field(n, x)
  OBVIOUS
<1>2. DOMAIN h = {n} /\ h[n] = x
  BY <1>1, FieldHas
<1> QED BY <1>1, <1>2 DEF AllSound

\* No driver returns such a value,
LEMMA DriversSound ==
  ASSUME NEW t, NEW v
  PROVE  Sound(Null) /\ Sound(ReadPostgres(t, v)) /\ Sound(ReadMysql(t, v))
<1>1. Sound(Null)
  BY SoundMade DEF Null
<1>2. Sound(ReadPostgres(t, v))
  BY SoundMade DEF ReadPostgres
<1>3. Sound(ReadMysql(t, v))
  BY SoundMade DEF ReadMysql
<1> QED BY <1>1, <1>2, <1>3

\* and no mapper to MongoDB makes one.
LEMMA CoercedSound ==
  ASSUME NEW from \in Engine, NEW t, NEW x, Sound(x)
  PROVE  Sound(AsString(x)) /\ Sound(CoerceTo(from, "mongodb", t, x))
<1>1. Sound(AsString(x)) /\ Sound(AsNumber(x)) /\ Sound(AsBoolean(x)) /\ Sound(AsDate(x)) /\ Sound(AsBuffer(x)) /\ Sound(Null)
  BY SoundMade DEF AsString, AsNumber, AsBoolean, AsDate, AsBuffer, Null
<1>2. Sound(mysqlToMongoCoerce(t, x))
  BY <1>1, SoundMade DEF mysqlToMongoCoerce
<1>3. Sound(pgToMongoCoerce(t, x))
  BY <1>1, SoundMade DEF pgToMongoCoerce
<1>4. from = "mongodb" \/ from = "mysql" \/ from = "postgres"
  BY DEF Engine
<1> QED BY <1>1, <1>2, <1>3, <1>4 DEF CoerceTo

-----------------------------------------------------------------------------
(* The destination's rows. *)

DocOK(e) ==
  /\ e = [row |-> e.row, fields |-> e.fields] /\ e.row \in RowId
  /\ \A n \in DOMAIN e.fields : e.fields[n] # Rejected
  /\ case.to = "mongodb" => ID \in DOMAIN e.fields
DocsOK(s) == \E D : s \in Seq(D) /\ \A e \in D : DocOK(e)

LEMMA DocMade ==
  ASSUME NEW r \in RowId, NEW f, \A n \in DOMAIN f : f[n] # Rejected, case.to = "mongodb" => ID \in DOMAIN f
  PROVE  DocOK([row |-> r, fields |-> f])
BY DEF DocOK

LEMMA DocsEach ==
  ASSUME NEW s, DocsOK(s)
  PROVE  Len(s) \in Nat /\ DOMAIN s = 1 .. Len(s) /\ \A i \in DOMAIN s : DocOK(s[i])
<1>1. PICK D : s \in Seq(D) /\ \A e \in D : DocOK(e)
  BY DEF DocsOK
<1>2. Len(s) \in Nat /\ DOMAIN s = 1 .. Len(s) /\ \A i \in DOMAIN s : s[i] \in D
  BY <1>1
<1> QED BY <1>1, <1>2

LEMMA DocsNone == DocsOK(<<>>)
<1>1. PICK D : D = {}
  OBVIOUS
<1>2. <<>> \in Seq(D)
  BY EmptySeq
<1>3. \A e \in D : DocOK(e)
  BY <1>1
<1> QED BY <1>2, <1>3 DEF DocsOK

LEMMA DocsAppend ==
  ASSUME NEW s, DocsOK(s), NEW e, DocOK(e)
  PROVE  DocsOK(Append(s, e))
<1>1. PICK D : s \in Seq(D) /\ \A d \in D : DocOK(d)
  BY DEF DocsOK
<1>2. PICK C : C = D \cup {e}
  OBVIOUS
<1>3. s \in Seq(C) /\ e \in C
  BY <1>1, <1>2
<1>4. Append(s, e) \in Seq(C)
  BY <1>3
<1>5. \A d \in C : DocOK(d)
  BY <1>1, <1>2
<1> QED BY <1>4, <1>5 DEF DocsOK

LEMMA DocsConcat ==
  ASSUME NEW s, NEW t, DocsOK(s), DocsOK(t)
  PROVE  DocsOK(s \o t)
<1>1. PICK D : s \in Seq(D) /\ \A d \in D : DocOK(d)
  BY DEF DocsOK
<1>2. PICK E : t \in Seq(E) /\ \A d \in E : DocOK(d)
  BY DEF DocsOK
<1>3. PICK C : C = D \cup E
  OBVIOUS
<1>4. s \in Seq(C) /\ t \in Seq(C)
  BY <1>1, <1>2, <1>3
<1>5. s \o t \in Seq(C)
  BY <1>4
<1>6. \A d \in C : DocOK(d)
  BY <1>1, <1>2, <1>3
<1> QED BY <1>5, <1>6 DEF DocsOK

LEMMA DocsExcept ==
  ASSUME NEW s, DocsOK(s), NEW i \in DOMAIN s, NEW e, DocOK(e)
  PROVE  DocsOK([s EXCEPT ![i] = e])
<1>1. PICK D : s \in Seq(D) /\ \A d \in D : DocOK(d)
  BY DEF DocsOK
<1>2. PICK C : C = D \cup {e}
  OBVIOUS
<1>3. s \in Seq(C) /\ e \in C
  BY <1>1, <1>2
<1>4. [s EXCEPT ![i] = e] \in Seq(C)
  BY <1>3
<1>5. \A d \in C : DocOK(d)
  BY <1>1, <1>2
<1> QED BY <1>4, <1>5 DEF DocsOK

LEMMA DocsRemove ==
  ASSUME NEW s, DocsOK(s), NEW i \in DOMAIN s
  PROVE  DocsOK(RemoveAt(s, i))
<1>1. PICK D : s \in Seq(D) /\ \A d \in D : DocOK(d)
  BY DEF DocsOK
<1>2. Len(s) \in Nat /\ i \in 1 .. Len(s)
  BY <1>1
<1>3. SubSeq(s, 1, i - 1) \in Seq(D)
  BY <1>1, <1>2
<1>4. SubSeq(s, i + 1, Len(s)) \in Seq(D)
  BY <1>1, <1>2
<1>5. RemoveAt(s, i) \in Seq(D)
  BY <1>3, <1>4 DEF RemoveAt
<1> QED BY <1>1, <1>5 DEF DocsOK

LEMMA FirstFound ==
  ASSUME NEW S \in SUBSET Nat, S # {}
  PROVE  First(S) \in S
BY Least DEF First

-----------------------------------------------------------------------------
(* InsertMany, which takes the documents one by one. *)

\* All the elements of a finite set.
LEMMA SetInOrder ==
  ASSUME NEW S, IsFiniteSet(S)
  PROVE  \E n \in Nat : /\ SetToSeq(S) \in [1 .. n -> S]
                        /\ \A x \in S : \E i \in 1 .. n : SetToSeq(S)[i] = x
<1>1. PICK n : n = Cardinality(S)
  OBVIOUS
<1>2. n \in Nat /\ ExistsBijection(1 .. n, S)
  BY <1>1, FS_CardinalityType
<1>3. \E f \in [1 .. n -> S] : IsInjective(f)
  BY <1>2 DEF ExistsBijection, Bijection, Injection
<1>4. PICK f : f = SetToSeq(S)
  OBVIOUS
<1>5. f \in [1 .. n -> S] /\ IsInjective(f)
  BY <1>1, <1>3, <1>4 DEF SetToSeq
<1>6. f \in Injection(1 .. n, S)
  BY <1>5 DEF Injection
<1>7. IsFiniteSet(1 .. n) /\ Cardinality(1 .. n) = n
  BY <1>2, FS_Interval
<1>8. f \in Surjection(1 .. n, S)
  BY <1>1, <1>6, <1>7, FS_Injection
<1>9. \A x \in S : \E i \in 1 .. n : f[i] = x
  BY <1>8 DEF Surjection
<1> QED BY <1>2, <1>4, <1>5, <1>9

DocFor(r) == [row |-> r, fields |-> Document(MapRecord(rows[r]))]
Insertion(acc, r) == IF Duplicate(acc, Document(MapRecord(rows[r]))) THEN acc ELSE Append(acc, DocFor(r))

\* The destination after each of n insertions of rows, in that order.
Insertions(D, docs, n, order, h) ==
  /\ n \in Nat /\ order \in [1 .. n -> DOMAIN rows] /\ h \in [0 .. n -> Seq(D)]
  /\ \A r \in DOMAIN rows : \E i \in 1 .. n : order[i] = r
  /\ h[0] = docs /\ h[n] = InsertMany(docs)
  /\ \A i \in 0 .. (n - 1) : h[i + 1] = Insertion(h[i], order[i + 1])

LEMMA InsertManyFolds ==
  ASSUME NEW D, NEW docs \in Seq(D), IsFiniteSet(DOMAIN rows), \A r \in DOMAIN rows : DocFor(r) \in D
  PROVE  \E n, order, h : Insertions(D, docs, n, order, h)
<1>1. PICK order : order = SetToSeq(DOMAIN rows)
  OBVIOUS
<1>2. PICK n \in Nat : order \in [1 .. n -> DOMAIN rows] /\ \A r \in DOMAIN rows : \E i \in 1 .. n : order[i] = r
  <2>2. PICK n \in Nat : /\ SetToSeq(DOMAIN rows) \in [1 .. n -> DOMAIN rows]
                         /\ \A x \in DOMAIN rows : \E i \in 1 .. n : SetToSeq(DOMAIN rows)[i] = x
    BY SetInOrder
  <2>3. order \in [1 .. n -> DOMAIN rows] /\ \A r \in DOMAIN rows : \E i \in 1 .. n : order[i] = r
    BY <1>1, <2>2
  <2> QED BY <2>3
<1>3. DOMAIN order = 1 .. n
  BY <1>2
<1>4. PICK A : A = Seq(D)
  OBVIOUS
<1>5. \A a \in A, r \in DOMAIN rows : Insertion(a, r) \in A
  BY <1>4 DEF Insertion
<1> DEFINE F == [i \in 1 .. n |-> [a \in A |-> Insertion(a, order[i])]]
           Steps(g) == [T \in SUBSET DOMAIN order |-> IF T = {} THEN docs ELSE Insertion(g[T \ {Max(T)}], order[Max(T)])]
<1>6. F \in [1 .. n -> [A -> A]]
  <2>1. ASSUME NEW i \in 1 .. n PROVE [a \in A |-> Insertion(a, order[i])] \in [A -> A]
    BY <1>2, <1>5
  <2> QED BY <2>1
<1>7. PICK f \in [SUBSET (1 .. n) -> A] : Folds(f, docs, F, n)
  <2> HIDE DEF F
  <2>1. Foldable(A, docs, F, n)
    BY <1>2, <1>4, <1>6, FoldExists
  <2> QED BY <2>1 DEF Foldable
<1>8. f = Steps(f)
  <2>1. ASSUME NEW T \in SUBSET (1 .. n), T # {}
        PROVE  F[Max(T)][f[T \ {Max(T)}]] = Insertion(f[T \ {Max(T)}], order[Max(T)])
    <3>1. Max(T) \in 1 .. n
      BY <1>2, <2>1, GreatestIndex
    <3>2. f[T \ {Max(T)}] \in A
      BY <1>7
    <3> QED BY <3>1, <3>2
  <2> HIDE DEF F
  <2>2. f = [T \in SUBSET (1 .. n) |-> IF T = {} THEN docs ELSE F[Max(T)][f[T \ {Max(T)}]]]
    BY <1>7 DEF Folds
  <2>3. f = [T \in SUBSET (1 .. n) |-> IF T = {} THEN docs ELSE Insertion(f[T \ {Max(T)}], order[Max(T)])]
    BY <2>1, <2>2
  <2> QED BY <1>3, <2>3
<1> HIDE DEF F
<1>9. PICK g : g = Steps(g) /\ InsertMany(docs) = g[DOMAIN order]
  <2> DEFINE iter == CHOOSE g : g = [T \in SUBSET DOMAIN order |->
                       IF T = {} THEN docs
                       ELSE IF Duplicate(g[T \ {Max(T)}], Document(MapRecord(rows[order[Max(T)]]))) THEN g[T \ {Max(T)}]
                            ELSE Append(g[T \ {Max(T)}],
                                        [row |-> order[Max(T)], fields |-> Document(MapRecord(rows[order[Max(T)]]))])]
  <2>1. InsertMany(docs) = iter[DOMAIN order]
    BY <1>1 DEF InsertMany, FoldLeft, MapThenFoldSet
  <2>2. iter = Steps(iter)
    BY <1>8 DEF Insertion, DocFor
  <2> QED BY <2>1, <2>2
<1>10. g[{}] = docs
  BY <1>9
<1>11. ASSUME NEW i \in 0 .. (n - 1) PROVE g[1 .. (i + 1)] = Insertion(g[1 .. i], order[i + 1])
  <2>1. i \in Nat /\ i + 1 <= n /\ n \in Nat
    BY <1>2
  <2>2. 1 .. (i + 1) \in SUBSET (1 .. n) /\ 1 .. (i + 1) # {}
    <3>1. i + 1 \in 1 .. (i + 1) /\ \A k \in 1 .. (i + 1) : k \in 1 .. n
      BY <2>1
    <3> QED BY <3>1
  <2>3. Max(1 .. (i + 1)) = i + 1
    <3>1. 1 .. (i + 1) \in SUBSET (1 .. (i + 1)) /\ i + 1 \in 1 .. (i + 1)
      BY <2>1
    <3> QED BY <2>1, <3>1, GreatestOf
  <2>4. (1 .. (i + 1)) \ {i + 1} = 1 .. i
    BY <2>1
  <2> QED BY <1>3, <1>9, <2>2, <2>3, <2>4
<1>12. \A i \in Nat : i <= n => g[1 .. i] \in A
  <2> DEFINE S == {i \in Nat : i <= n => g[1 .. i] \in A}
  <2>1. 0 \in S
    <3>1. 1 .. 0 = {}
      OBVIOUS
    <3> QED BY <1>4, <1>10, <3>1
  <2>2. ASSUME NEW i \in Nat, i \in S PROVE i + 1 \in S
    <3> SUFFICES ASSUME i + 1 <= n PROVE g[1 .. (i + 1)] \in A
      OBVIOUS
    <3>1. i \in 0 .. (n - 1) /\ i + 1 \in 1 .. n /\ g[1 .. i] \in A
      BY <2>2
    <3> QED BY <1>2, <1>5, <1>11, <3>1
  <2> HIDE DEF S
  <2>3. \A i \in Nat : i \in S
    BY <2>1, <2>2, Induction
  <2> QED BY <2>3 DEF S
<1>13. PICK h : h = [i \in 0 .. n |-> g[1 .. i]]
  OBVIOUS
<1>14. h \in [0 .. n -> Seq(D)]
  BY <1>2, <1>4, <1>12, <1>13
<1>15. h[0] = docs /\ h[n] = InsertMany(docs)
  <2>1. 1 .. 0 = {} /\ 0 \in 0 .. n /\ n \in 0 .. n
    BY <1>2
  <2> QED BY <1>3, <1>9, <1>10, <1>13, <2>1
<1>16. \A i \in 0 .. (n - 1) : h[i + 1] = Insertion(h[i], order[i + 1])
  <2>1. \A i \in 0 .. (n - 1) : i \in 0 .. n /\ i + 1 \in 0 .. n
    BY <1>2
  <2> QED BY <1>11, <1>13, <2>1
<1>17. Insertions(D, docs, n, order, h)
  BY <1>2, <1>14, <1>15, <1>16 DEF Insertions
<1> QED BY <1>17

-----------------------------------------------------------------------------
(* The types of a transfer. *)

\* A row of the source has its columns.
ColumnSet == {cols[i].name : i \in DOMAIN cols}
RecordOK(rec) == DOMAIN rec = ColumnSet /\ rec = [n \in ColumnSet |-> rec[n]] /\ AllSound(rec)
RowsOK(f) ==
  DOMAIN f \subseteq DOMAIN case.rows /\ f = [r \in DOMAIN f |-> f[r]] /\ \A r \in DOMAIN f : RecordOK(f[r])
\* A change of the source, as an event names it.
ChangeOK(e) == e.row \in RowId /\ RecordOK(e.doc)

TransferInv ==
  /\ case \in Case
  /\ RowsOK(rows)
  /\ created \in {"no", "yes", "failed"} /\ (created # "yes" => dest = <<>> /\ copies = 0)
  /\ DocsOK(dest)
  /\ copies \in 0 .. MaxCopies /\ changes \in 0 .. MaxChanges
  /\ last.op \in {"none", "insert", "update", "delete"}
  /\ last.op # "none" => copies > 0 /\ ChangeOK(last)

LEMMA CaseTyped ==
  ASSUME case \in Case
  PROVE  /\ DOMAIN case.rows \subseteq RowId /\ IsFiniteSet(DOMAIN case.rows)
         /\ case.from \in Engine /\ case.to \in Engine
         /\ case.from = "mongodb" =>
              /\ ID \in ColumnSet
              /\ \A r \in DOMAIN case.rows, i \in DOMAIN cols : Sound(case.rows[r][i])
<1>1. CaseOK(case) /\ IsFiniteSet(RowId)
  BY TransferAssumption
<1>2. DOMAIN case.rows \subseteq RowId /\ case.from \in Engine /\ case.to \in Engine
  BY <1>1 DEF CaseOK
<1>3. IsFiniteSet(DOMAIN case.rows)
  BY <1>1, <1>2, FS_Subset
<1>4. ASSUME case.from = "mongodb" PROVE ID \in ColumnSet
  BY <1>1, <1>4 DEF CaseOK, ColumnSet, cols
<1>5. ASSUME case.from = "mongodb", NEW r \in DOMAIN case.rows, NEW i \in DOMAIN cols PROVE Sound(case.rows[r][i])
  BY <1>1, <1>5 DEF CaseOK, cols, Sound
<1> QED BY <1>2, <1>3, <1>4, <1>5

\* What the driver returns has the columns of the source.
LEMMA ReadOK ==
  ASSUME case \in Case, NEW r \in DOMAIN case.rows
  PROVE  RecordOK(Read(case, r))
<1>1. PICK rec : rec = Read(case, r)
  OBVIOUS
<1>2. DOMAIN rec = ColumnSet /\ rec = [n \in ColumnSet |-> rec[n]]
  BY <1>1 DEF Read, ColumnSet, cols
<1>3. ASSUME NEW n \in ColumnSet PROVE Sound(rec[n])
  <2> DEFINE At == CHOOSE i \in DOMAIN case.cols : case.cols[i].name = n
  <2>0. rec[n] = IF case.from = "mongodb" THEN case.rows[r][At]
                 ELSE IF case.rows[r][At] = <<>> THEN Null
                 ELSE IF case.from = "postgres" THEN ReadPostgres(case.cols[At].type, case.rows[r][At])
                 ELSE ReadMysql(case.cols[At].type, case.rows[r][At])
    BY <1>1 DEF Read, ColumnSet, cols
  <2>1. PICK i : i = At
    OBVIOUS
  <2>2. i \in DOMAIN case.cols
    BY <2>1 DEF ColumnSet, cols
  <2>3. rec[n] = IF case.from = "mongodb" THEN case.rows[r][i]
                 ELSE IF case.rows[r][i] = <<>> THEN Null
                 ELSE IF case.from = "postgres" THEN ReadPostgres(case.cols[i].type, case.rows[r][i])
                 ELSE ReadMysql(case.cols[i].type, case.rows[r][i])
    BY <2>0, <2>1
  <2>4. case.from = "mongodb" => Sound(case.rows[r][i])
    BY <2>2, CaseTyped DEF cols
  <2> QED BY <2>3, <2>4, DriversSound
<1> QED BY <1>1, <1>2, <1>3 DEF RecordOK, AllSound

\* What the mappers to MongoDB make of it.
LEMMA MapRecordOK ==
  ASSUME case \in Case, case.to = "mongodb", NEW rec, RecordOK(rec)
  PROVE  AllSound(MapRecord(rec)) /\ ID \in DOMAIN MapRecord(rec)
<1>1. \A i \in DOMAIN cols : Sound(rec[cols[i].name]) /\ Sound(Coerced(i, rec))
  <2> SUFFICES ASSUME NEW i \in DOMAIN cols PROVE Sound(rec[cols[i].name]) /\ Sound(Coerced(i, rec))
    OBVIOUS
  <2>1. cols[i].name \in DOMAIN rec
    BY DEF RecordOK, ColumnSet
  <2>2. Sound(rec[cols[i].name])
    BY <2>1 DEF RecordOK, AllSound
  <2>3. case.from \in Engine
    BY CaseTyped
  <2> QED BY <2>2, <2>3, CoercedSound DEF Coerced
<1>2. CASE case.from = case.to
  <2>1. MapRecord(rec) = rec
    BY <1>2 DEF MapRecord
  <2>2. ID \in ColumnSet
    BY <1>2, CaseTyped
  <2> QED BY <2>1, <2>2 DEF RecordOK
<1>3. CASE case.from # case.to
  <2>1. MapRecord(rec) = Over(By(names, rec, Body), KeyFields(rec))
    BY <1>3 DEF MapRecord
  <2>2. AllSound(By(names, rec, Body))
    <3>1. PICK b : b = By(names, rec, Body)
      OBVIOUS
    <3>2. Body \subseteq DOMAIN cols
      BY DEF Body
    <3>3. ASSUME NEW n \in DOMAIN b PROVE Sound(b[n])
      <4>1. PICK i : i = CHOOSE k \in Body : names[k] = n
        OBVIOUS
      <4>2. n \in {names[j] : j \in Body} /\ b[n] = Coerced(i, rec)
        BY <3>1, <4>1 DEF By
      <4>3. i \in DOMAIN cols
        BY <3>2, <4>1, <4>2
      <4> QED BY <1>1, <4>2, <4>3
    <3> QED BY <3>1, <3>3 DEF AllSound
  <2>3. AllSound(KeyFields(rec)) /\ ID \in DOMAIN KeyFields(rec)
    <3>1. Sound(Generated) /\ Sound(PkOf(rec))
      BY SoundMade DEF Generated, PkOf
    <3>2. CASE Cardinality(Pk) > 1
      <4>1. KeyFields(rec) = Over(Field(ID, Generated), Field(PK, PkOf(rec)))
        BY <3>2 DEF KeyFields
      <4>2. AllSound(Field(ID, Generated)) /\ AllSound(Field(PK, PkOf(rec)))
        BY <3>1, FieldSound
      <4>3. ID \in DOMAIN Field(ID, Generated)
        BY FieldHas
      <4>4. PICK f, g : f = Field(ID, Generated) /\ g = Field(PK, PkOf(rec))
        OBVIOUS
      <4>5. AllSound(Over(f, g))
        BY <4>2, <4>4, OverSound
      <4>6. ID \in DOMAIN Over(f, g)
        BY <4>3, <4>4 DEF Over
      <4> QED BY <4>1, <4>4, <4>5, <4>6
    <3>3. CASE ~(Cardinality(Pk) > 1)
      <4>1. \E x : Sound(x) /\ KeyFields(rec) = Field(ID, x)
        <5>1. CASE Cardinality(Pk) = 1
          <6>1. Pk # {}
            BY <5>1, FS_EmptySet
          <6>2. PICK i : i = CHOOSE k \in Pk : TRUE
            OBVIOUS
          <6>3. i \in DOMAIN cols
            BY <6>1, <6>2 DEF Pk
          <6>4. Sound(Coerced(i, rec)) /\ Sound(AsString(rec[cols[i].name]))
            <7>1. Sound(rec[cols[i].name]) /\ case.from \in Engine
              BY <1>1, <6>3, CaseTyped
            <7> QED BY <1>1, <6>3, <7>1, CoercedSound
          <6>5. \/ KeyFields(rec) = Field(ID, Coerced(i, rec))
                \/ KeyFields(rec) = Field(ID, AsString(rec[cols[i].name]))
            BY <3>3, <5>1, <6>2 DEF KeyFields
          <6> QED BY <6>4, <6>5
        <5>2. CASE Cardinality(Pk) # 1
          BY <3>1, <3>3, <5>2 DEF KeyFields
        <5> QED BY <5>1, <5>2
      <4> QED BY <4>1, FieldHas, FieldSound
    <3> QED BY <3>2, <3>3
  <2>4. ID \in DOMAIN Over(By(names, rec, Body), KeyFields(rec))
    BY <2>3, OverHas
  <2> QED BY <2>1, <2>2, <2>3, <2>4, OverSound
<1> QED BY <1>2, <1>3

\* A document whose fields are sound is one the destination may hold.
LEMMA SoundDoc ==
  ASSUME NEW r \in RowId, NEW f, AllSound(f), case.to = "mongodb" => ID \in DOMAIN f
  PROVE  DocOK([row |-> r, fields |-> f])
<1>1. \A n \in DOMAIN f : f[n] # Rejected
  BY SoundKept DEF AllSound
<1> QED BY <1>1, DocMade

\* As BSON its values are as sound, and one from MongoDB is as it was.
LEMMA DocumentOK ==
  ASSUME NEW out, AllSound(out)
  PROVE  /\ AllSound(Document(out)) /\ DOMAIN Document(out) = DOMAIN out
         /\ case.from = "mongodb" => Document(out) = out
<1>1. CASE case.from = "mongodb"
  BY <1>1 DEF Document
<1>2. CASE case.from # "mongodb"
  <2>1. PICK doc : doc = Document(out)
    OBVIOUS
  <2>2. DOMAIN doc = DOMAIN out /\ \A n \in DOMAIN out : doc[n] = StoreMongo(out[n], case.east)
    BY <1>2, <2>1 DEF Document
  <2>3. \A x : Sound(x) => Sound(StoreMongo(x, case.east))
    BY SoundMade DEF StoreMongo
  <2>4. AllSound(doc)
    BY <2>2, <2>3 DEF AllSound
  <2> QED BY <1>2, <2>1, <2>2, <2>4
<1> QED BY <1>1, <1>2

LEMMA InsertManyOK ==
  ASSUME TransferInv, case.to = "mongodb"
  PROVE  DocsOK(InsertMany(dest))
<1>1. DocsOK(dest) /\ case \in Case /\ DOMAIN rows \subseteq DOMAIN case.rows /\ \A r \in DOMAIN rows : RecordOK(rows[r])
  BY DEF TransferInv, RowsOK
<1>2. DOMAIN rows \subseteq RowId /\ IsFiniteSet(DOMAIN rows)
  BY <1>1, CaseTyped, FS_Subset
<1>3. ASSUME NEW r \in DOMAIN rows PROVE DocOK(DocFor(r))
  <2>1. AllSound(MapRecord(rows[r])) /\ ID \in DOMAIN MapRecord(rows[r])
    BY <1>1, MapRecordOK
  <2>2. PICK out : out = MapRecord(rows[r])
    OBVIOUS
  <2>3. AllSound(Document(out)) /\ ID \in DOMAIN Document(out)
    BY <2>1, <2>2, DocumentOK
  <2> QED BY <1>2, <2>2, <2>3, SoundDoc DEF DocFor
<1>4. PICK D : dest \in Seq(D) /\ \A e \in D : DocOK(e)
  BY <1>1 DEF DocsOK
<1>5. PICK C : C = D \cup {DocFor(r) : r \in DOMAIN rows}
  OBVIOUS
<1>6. dest \in Seq(C) /\ \A r \in DOMAIN rows : DocFor(r) \in C
  BY <1>4, <1>5
<1>7. \A e \in C : DocOK(e)
  BY <1>3, <1>4, <1>5
<1>8. InsertMany(dest) \in Seq(C)
  <2>1. PICK n, order, h : Insertions(C, dest, n, order, h)
    BY <1>2, <1>6, InsertManyFolds
  <2>2. n \in Nat /\ h \in [0 .. n -> Seq(C)] /\ h[n] = InsertMany(dest)
    BY <2>1 DEF Insertions
  <2>3. n \in 0 .. n
    BY <2>2
  <2> QED BY <2>2, <2>3
<1> QED BY <1>7, <1>8 DEF DocsOK

LEMMA InsertRowsOK ==
  ASSUME TransferInv, case.to # "mongodb"
  PROVE  DocsOK(InsertRows(dest))
<1>1. DocsOK(dest) /\ case \in Case /\ DOMAIN rows \subseteq DOMAIN case.rows
  BY DEF TransferInv, RowsOK
<1>2. DOMAIN rows \subseteq RowId /\ IsFiniteSet(DOMAIN rows)
  BY <1>1, CaseTyped, FS_Subset
<1>3. PICK order : order = SetToSeq(DOMAIN rows)
  OBVIOUS
<1>4. PICK n \in Nat : order \in [1 .. n -> DOMAIN rows]
  BY <1>2, <1>3, SetInOrder
<1>5. PICK new : new = [i \in DOMAIN order |-> [row |-> order[i], fields |-> SqlRow(MapRecord(rows[order[i]]))]]
  OBVIOUS
<1>6. InsertRows(dest) = dest \/ (/\ InsertRows(dest) = dest \o new
                                  /\ \A i \in DOMAIN new : \A m \in DOMAIN new[i].fields : new[i].fields[m] # Rejected)
  BY <1>3, <1>5 DEF InsertRows
<1>7. ASSUME \A i \in DOMAIN new : \A m \in DOMAIN new[i].fields : new[i].fields[m] # Rejected
      PROVE  DocsOK(new)
  <2>1. PICK D : D = {new[i] : i \in 1 .. n}
    OBVIOUS
  <2>2. DOMAIN new = 1 .. n /\ new = [i \in 1 .. n |-> new[i]]
    BY <1>4, <1>5
  <2>3. new \in [1 .. n -> D]
    BY <2>1, <2>2
  <2>4. new \in Seq(D)
    BY <2>3
  <2>5. ASSUME NEW i \in 1 .. n PROVE DocOK(new[i])
    <3>1. PICK f : f = SqlRow(MapRecord(rows[order[i]]))
      OBVIOUS
    <3>2. new[i] = [row |-> order[i], fields |-> f] /\ order[i] \in RowId /\ i \in DOMAIN new
      BY <1>2, <1>4, <1>5, <3>1
    <3>3. \A m \in DOMAIN f : f[m] # Rejected
      BY <1>7, <3>2
    <3> QED BY <3>2, <3>3, DocMade
  <2> QED BY <2>1, <2>4, <2>5 DEF DocsOK
<1>8. CASE InsertRows(dest) = dest
  BY <1>1, <1>8
<1>9. CASE InsertRows(dest) = dest \o new /\ \A i \in DOMAIN new : \A m \in DOMAIN new[i].fields : new[i].fields[m] # Rejected
  BY <1>1, <1>7, <1>9, DocsConcat
<1> QED BY <1>6, <1>8, <1>9

LEMMA ApplyMongoOK ==
  ASSUME DocsOK(dest), case.to = "mongodb", NEW e, ChangeOK(e)
  PROVE  DocsOK(ApplyMongo(e))
<1>0. PICK doc : doc = Document(e.doc)
  OBVIOUS
<1>1. PICK fresh : fresh = Over(doc, Field(ID, Generated))
  OBVIOUS
<1>2. AllSound(doc) /\ Sound(Generated)
  BY <1>0, DocumentOK, SoundMade DEF ChangeOK, RecordOK, Generated
<1>3. DocOK([row |-> e.row, fields |-> fresh])
  <2>1. PICK g : g = Field(ID, Generated)
    OBVIOUS
  <2>2. AllSound(g) /\ ID \in DOMAIN g
    BY <1>2, <2>1, FieldSound, FieldHas
  <2>3. AllSound(fresh)
    BY <1>1, <1>2, <2>1, <2>2, OverSound
  <2>4. ID \in DOMAIN fresh
    BY <1>1, <2>1, <2>2 DEF Over
  <2> QED BY <2>3, <2>4, SoundDoc DEF ChangeOK
<1>4. PICK found : found = {i \in DOMAIN dest : \A n \in DOMAIN KeyOf(doc) : FieldOf(dest[i].fields, n).v = KeyOf(doc)[n].v}
  OBVIOUS
<1>5. found \in SUBSET Nat /\ found \subseteq DOMAIN dest
  BY <1>4, DocsEach
<1>6. \/ ApplyMongo(e) = dest
      \/ found # {} /\ ApplyMongo(e) = RemoveAt(dest, First(found))
      \/ ApplyMongo(e) = Append(dest, [row |-> e.row, fields |-> fresh])
      \/ found # {} /\ ApplyMongo(e) = [dest EXCEPT ![First(found)] =
                                         [row |-> e.row, fields |-> Over(doc, Field(ID, @.fields[ID]))]]
  BY <1>0, <1>1, <1>4 DEF ApplyMongo
<1>7. ASSUME found # {} PROVE First(found) \in DOMAIN dest
  BY <1>5, <1>7, FirstFound
<1>8. CASE found # {} /\ ApplyMongo(e) = RemoveAt(dest, First(found))
  BY <1>7, <1>8, DocsRemove
<1>9. CASE found # {} /\ ApplyMongo(e) = [dest EXCEPT ![First(found)] =
                                         [row |-> e.row, fields |-> Over(doc, Field(ID, @.fields[ID]))]]
  <2>1. PICK i : i = First(found)
    OBVIOUS
  <2>2. i \in DOMAIN dest
    BY <1>7, <1>9, <2>1
  <2>3. PICK g : g = Field(ID, dest[i].fields[ID])
    OBVIOUS
  <2>4. DocOK([row |-> e.row, fields |-> Over(doc, g)])
    <3>1. DOMAIN g = {ID} /\ g[ID] = dest[i].fields[ID]
      BY <2>3, FieldHas
    <3>2. DocOK(dest[i])
      BY <2>2, DocsEach
    <3>3. g[ID] # Rejected
      BY <3>1, <3>2 DEF DocOK
    <3>4. \A n \in DOMAIN doc : doc[n] # Rejected
      BY <1>2, SoundKept DEF AllSound
    <3>5. PICK h : h = Over(doc, g)
      OBVIOUS
    <3>6. /\ DOMAIN h = DOMAIN doc \cup {ID}
          /\ \A n \in DOMAIN doc : h[n] = doc[n]
          /\ \A n \in {ID} \ DOMAIN doc : h[n] = g[n]
      BY <3>1, <3>5 DEF Over
    <3>7. \A n \in DOMAIN h : h[n] # Rejected
      BY <3>3, <3>4, <3>6
    <3> QED BY <3>5, <3>6, <3>7, DocMade DEF ChangeOK
  <2>5. PICK d : d = [row |-> e.row, fields |-> Over(doc, g)]
    OBVIOUS
  <2>6. ApplyMongo(e) = [dest EXCEPT ![i] = d]
    BY <1>9, <2>1, <2>3, <2>5
  <2>7. DocsOK([dest EXCEPT ![i] = d])
    BY <2>2, <2>4, <2>5, DocsExcept
  <2> QED BY <2>6, <2>7
<1> QED BY <1>3, <1>6, <1>8, <1>9, DocsAppend

LEMMA ApplySqlOK ==
  ASSUME DocsOK(dest), case.to # "mongodb", NEW e, ChangeOK(e)
  PROVE  DocsOK(ApplySql(e))
<1> DEFINE known == /\ TableFound
                    /\ \A n \in DOMAIN e.doc : \E i \in DOMAIN cols : Known(case.to, list[i]) = Known(case.to, n)
           found == {d \in DOMAIN dest : \A i \in Pk : dest[d].fields[list[i]] = StoredFields(e)[cols[i].name]}
<1>1. ApplySql(e) =
        IF ~known \/ Unkeyed(e) THEN dest
        ELSE IF e.op = "delete" THEN IF found = {} THEN dest ELSE RemoveAt(dest, First(found))
        ELSE IF \E n \in DOMAIN e.doc : StoredFields(e)[n] = Rejected THEN dest
        ELSE IF Pk # {} /\ found # {} THEN [dest EXCEPT ![First(found)].fields = Assigned(e, @)]
        ELSE Append(dest, [row |-> e.row, fields |-> Assigned(e, <<>>)])
  BY DEF ApplySql
<1>2. found \in SUBSET DOMAIN dest
  OBVIOUS
<1> HIDE DEF known, found
<1>3. ASSUME NEW old, NEW n \in DOMAIN Assigned(e, old)
      PROVE  \/ Assigned(e, old)[n] = FieldOf(old, n)
             \/ \E m \in DOMAIN e.doc : Assigned(e, old)[n] = StoredFields(e)[m]
  <2>1. Assigned(e, old)[n] = IF Given(e, n) = {} THEN FieldOf(old, n) ELSE StoredFields(e)[CHOOSE m \in Given(e, n) : TRUE]
    BY DEF Assigned
  <2>2. Given(e, n) # {} => (CHOOSE m \in Given(e, n) : TRUE) \in DOMAIN e.doc
    BY DEF Given
  <2> QED BY <2>1, <2>2
<1>4. \/ ApplySql(e) = dest
      \/ found # {} /\ ApplySql(e) = RemoveAt(dest, First(found))
      \/ /\ \A n \in DOMAIN e.doc : StoredFields(e)[n] # Rejected
         /\ \/ found # {} /\ ApplySql(e) = [dest EXCEPT ![First(found)].fields = Assigned(e, @)]
            \/ ApplySql(e) = Append(dest, [row |-> e.row, fields |-> Assigned(e, <<>>)])
  BY <1>1
<1>5. found \in SUBSET Nat /\ found \subseteq DOMAIN dest
  BY <1>2, DocsEach
<1>6. ASSUME found # {} PROVE First(found) \in DOMAIN dest
  BY <1>5, <1>6, FirstFound
<1>7. ASSUME \A n \in DOMAIN e.doc : StoredFields(e)[n] # Rejected, NEW old, \A n \in DOMAIN old : old[n] # Rejected
      PROVE  \A n \in DOMAIN Assigned(e, old) : Assigned(e, old)[n] # Rejected
  <2> SUFFICES ASSUME NEW n \in DOMAIN Assigned(e, old) PROVE Assigned(e, old)[n] # Rejected
    OBVIOUS
  <2>1. FieldOf(old, n) # Rejected
    BY <1>7 DEF FieldOf, Null, Rejected, J
  <2> QED BY <1>3, <1>7, <2>1
<1>8. CASE found # {} /\ ApplySql(e) = RemoveAt(dest, First(found))
  BY <1>6, <1>8, DocsRemove
<1>9. CASE /\ \A n \in DOMAIN e.doc : StoredFields(e)[n] # Rejected
           /\ ApplySql(e) = Append(dest, [row |-> e.row, fields |-> Assigned(e, <<>>)])
  <2>1. PICK new : new = Assigned(e, <<>>)
    OBVIOUS
  <2>2. \A n \in DOMAIN new : new[n] # Rejected
    <3>1. \A n \in DOMAIN <<>> : <<>>[n] # Rejected
      OBVIOUS
    <3> QED BY <1>7, <1>9, <2>1, <3>1
  <2>3. DocOK([row |-> e.row, fields |-> new])
    BY <2>2, DocMade DEF ChangeOK
  <2> QED BY <1>9, <2>1, <2>3, DocsAppend
<1>10. CASE /\ \A n \in DOMAIN e.doc : StoredFields(e)[n] # Rejected
            /\ found # {} /\ ApplySql(e) = [dest EXCEPT ![First(found)].fields = Assigned(e, @)]
  <2>1. PICK i : i = First(found)
    OBVIOUS
  <2>2. i \in DOMAIN dest /\ DocOK(dest[i])
    BY <1>6, <1>10, <2>1, DocsEach
  <2>3. PICK new : new = Assigned(e, dest[i].fields)
    OBVIOUS
  <2>4. [dest[i] EXCEPT !.fields = new] = [row |-> dest[i].row, fields |-> new] /\ dest[i].row \in RowId
    BY <2>2 DEF DocOK
  <2>5. PICK d : d = [row |-> dest[i].row, fields |-> new]
    OBVIOUS
  <2>6. DocOK(d) /\ ApplySql(e) = [dest EXCEPT ![i] = d]
    <3>1. \A n \in DOMAIN dest[i].fields : dest[i].fields[n] # Rejected
      BY <2>2 DEF DocOK
    <3>2. \A n \in DOMAIN new : new[n] # Rejected
      BY <1>7, <1>10, <2>3, <3>1
    <3>3. DocOK(d)
      BY <2>4, <2>5, <3>2, DocMade
    <3>4. ApplySql(e) = [dest EXCEPT ![i] = d]
      BY <1>10, <2>1, <2>3, <2>4, <2>5
    <3> QED BY <3>3, <3>4
  <2>7. DocsOK([dest EXCEPT ![i] = d])
    BY <2>2, <2>6, DocsExcept
  <2> QED BY <2>6, <2>7
<1> QED BY <1>4, <1>8, <1>9, <1>10

LEMMA TransferInvIs ==
  ASSUME TransferInv, case' = case, RowsOK(rows'), created' \in {"no", "yes", "failed"},
         created' # "yes" => dest' = <<>> /\ copies' = 0, DocsOK(dest'),
         copies' \in 0 .. MaxCopies, changes' \in 0 .. MaxChanges,
         last'.op \in {"none", "insert", "update", "delete"},
         last'.op # "none" => copies' > 0 /\ ChangeOK(last')
  PROVE  TransferInv'
<1>1. case' \in Case
  BY DEF TransferInv
<1>2. \A rec : RecordOK(rec)' <=> RecordOK(rec)
  BY DEF RecordOK, AllSound, Sound, ColumnSet, cols, J
<1>3. RowsOK(rows)'
  BY <1>2 DEF RowsOK
<1>4. DocsOK(dest)'
  BY DEF DocsOK, DocOK
<1>5. ChangeOK(last') => ChangeOK(last)'
  BY <1>2 DEF ChangeOK
<1> QED BY <1>1, <1>3, <1>4, <1>5 DEF TransferInv

LEMMA TransferStart == TransferInit => TransferInv
<1> SUFFICES ASSUME TransferInit PROVE TransferInv
  OBVIOUS
<1>1. case \in Case /\ rows = [r \in DOMAIN case.rows |-> Read(case, r)]
  BY DEF TransferInit
<1>2. RowsOK(rows)
  <2>1. \A r \in DOMAIN case.rows : RecordOK(Read(case, r))
    BY <1>1, ReadOK
  <2> QED BY <1>1, <2>1 DEF RowsOK
<1>3. /\ created = "no" /\ dest = <<>> /\ copies = 0 /\ changes = 0 /\ last.op = "none"
      /\ MaxCopies \in Nat /\ MaxChanges \in Nat
  BY TransferAssumption DEF TransferInit, NoChange
<1> QED BY <1>1, <1>2, <1>3, DocsNone DEF TransferInv

\* An insert, an update or a delete leaves rows with the source's columns.
LEMMA ChangedRows ==
  ASSUME TransferInv, NEW op \in {"insert", "update", "delete"}, NEW r \in DOMAIN case.rows, Change(op, r)
  PROVE  RowsOK(rows') /\ RecordOK(last'.doc)
<1>1. case \in Case /\ RowsOK(rows)
  BY DEF TransferInv
<1>2. last'.doc = IF op = "delete" THEN rows[r] ELSE rows'[r]
  BY DEF Change
<1>3. CASE op = "insert"
  <2>1. PICK f, x : f = Field(r, x) /\ x = Read(case, r)
    OBVIOUS
  <2>2. rows' = Over(f, rows)
    BY <1>3, <2>1 DEF Change
  <2>3. DOMAIN f = {r} /\ f[r] = x
    BY <2>1, FieldHas
  <2>4. RecordOK(x)
    BY <1>1, <2>1, ReadOK
  <2>5. PICK g : g = Over(f, rows)
    OBVIOUS
  <2>6. /\ DOMAIN g = {r} \cup DOMAIN rows /\ g[r] = x /\ g = [q \in DOMAIN g |-> g[q]]
        /\ \A q \in DOMAIN rows \ {r} : g[q] = rows[q]
    BY <2>3, <2>5 DEF Over
  <2>7. RowsOK(g)
    BY <1>1, <2>4, <2>6 DEF RowsOK
  <2> QED BY <1>2, <1>3, <2>2, <2>4, <2>5, <2>6, <2>7
<1>4. CASE op = "update"
  <2>1. PICK i \in DOMAIN cols \ Pk :
          rows' = [rows EXCEPT ![r][cols[i].name].v = IF @ = <<"0">> THEN <<"1">> ELSE <<"0">>]
    BY <1>4 DEF Change
  <2>2. r \in DOMAIN rows
    BY <1>4 DEF Change
  <2>3. PICK n, rec, x : n = cols[i].name /\ rec = rows[r] /\ x = rows[r][n]
    OBVIOUS
  <2>4. RecordOK(rec) /\ n \in ColumnSet
    BY <1>1, <2>2, <2>3 DEF RowsOK, ColumnSet
  <2>5. Sound(x)
    BY <2>3, <2>4 DEF RecordOK, AllSound
  <2>6. PICK y : y = [x EXCEPT !.v = IF @ = <<"0">> THEN <<"1">> ELSE <<"0">>]
    OBVIOUS
  <2>7. Sound(y)
    BY <2>5, <2>6, SoundKept
  <2>8. PICK new : new = [rec EXCEPT ![n] = y]
    OBVIOUS
  <2>9. RecordOK(new)
    BY <2>4, <2>7, <2>8 DEF RecordOK, AllSound
  <2>10. rows' = [rows EXCEPT ![r] = new]
    BY <2>1, <2>3, <2>6, <2>8
  <2>11. RowsOK(rows') /\ rows'[r] = new
    BY <1>1, <2>2, <2>9, <2>10 DEF RowsOK
  <2> QED BY <1>2, <1>4, <2>9, <2>11
<1>5. CASE op = "delete"
  <2>1. r \in DOMAIN rows /\ rows' = [q \in DOMAIN rows \ {r} |-> rows[q]]
    BY <1>5 DEF Change
  <2> QED BY <1>1, <1>2, <1>5, <2>1 DEF RowsOK
<1> QED BY <1>3, <1>4, <1>5

LEMMA ApplyChangeOK ==
  ASSUME DocsOK(dest), NEW e, ChangeOK(e)
  PROVE  DocsOK(IF case.to = "mongodb" THEN ApplyMongo(e) ELSE ApplySql(e))
BY ApplyMongoOK, ApplySqlOK

LEMMA TransferStep == TransferInv /\ [TransferNext]_transferVars => TransferInv'
<1> SUFFICES ASSUME TransferInv, [TransferNext]_transferVars PROVE TransferInv'
  OBVIOUS
<1>1. /\ case \in Case /\ RowsOK(rows) /\ DocsOK(dest)
      /\ created \in {"no", "yes", "failed"} /\ (created # "yes" => dest = <<>> /\ copies = 0)
      /\ copies \in 0 .. MaxCopies /\ changes \in 0 .. MaxChanges
      /\ last.op \in {"none", "insert", "update", "delete"}
      /\ last.op # "none" => copies > 0 /\ ChangeOK(last)
      /\ MaxCopies \in Nat /\ MaxChanges \in Nat
  BY TransferAssumption DEF TransferInv
<1>2. CASE InitDestination
  <2>1. /\ created = "no" /\ created' \in {"yes", "failed"}
        /\ case' = case /\ rows' = rows /\ copies' = copies /\ changes' = changes /\ last' = last /\ dest' = dest
    BY <1>2 DEF InitDestination, vars1
  <2> QED BY <1>1, <2>1, TransferInvIs
<1>3. CASE WriteBatch
  <2>1. /\ created = "yes" /\ created' = "yes" /\ copies < MaxCopies /\ copies' = copies + 1
        /\ case' = case /\ rows' = rows /\ changes' = changes /\ last' = last
        /\ dest' = IF case.to = "mongodb" THEN InsertMany(dest) ELSE InsertRows(dest)
    BY <1>3 DEF WriteBatch
  <2>2. DocsOK(dest')
    BY <2>1, InsertManyOK, InsertRowsOK
  <2>3. copies' \in 0 .. MaxCopies /\ (copies > 0 => copies' > 0)
    BY <1>1, <2>1
  <2> QED BY <1>1, <2>1, <2>2, <2>3, TransferInvIs
<1>4. CASE Redeliver
  <2>1. /\ last.op # "none" /\ changes < MaxChanges /\ changes' = changes + 1
        /\ case' = case /\ rows' = rows /\ created' = created /\ copies' = copies /\ last' = last
        /\ dest' = IF case.to = "mongodb" THEN ApplyMongo(last) ELSE ApplySql(last)
    BY <1>4 DEF Redeliver, ApplyChange
  <2>2. PICK e : e = last
    OBVIOUS
  <2>3. DocsOK(IF case.to = "mongodb" THEN ApplyMongo(e) ELSE ApplySql(e))
    BY <1>1, <2>1, <2>2, ApplyChangeOK
  <2>4. changes' \in 0 .. MaxChanges /\ created = "yes"
    BY <1>1, <2>1
  <2> QED BY <1>1, <2>1, <2>2, <2>3, <2>4, TransferInvIs
<1>5. ASSUME NEW op \in {"insert", "update", "delete"}, NEW r \in RowId, r \in DOMAIN case.rows, Change(op, r)
      PROVE  TransferInv'
  <2>1. /\ copies > 0 /\ changes < MaxChanges /\ changes' = changes + 1
        /\ case' = case /\ created' = created /\ copies' = copies
        /\ last'.op = op /\ last'.row = r
        /\ dest' = IF case.to = "mongodb" THEN ApplyMongo(last') ELSE ApplySql(last')
    BY <1>5 DEF Change, ApplyChange
  <2>2. RowsOK(rows') /\ RecordOK(last'.doc)
    BY <1>5, ChangedRows
  <2>3. PICK e : e = last'
    OBVIOUS
  <2>4. ChangeOK(e)
    BY <2>1, <2>2, <2>3 DEF ChangeOK
  <2>5. DocsOK(IF case.to = "mongodb" THEN ApplyMongo(e) ELSE ApplySql(e))
    BY <1>1, <2>4, ApplyChangeOK
  <2>6. changes' \in 0 .. MaxChanges /\ created = "yes"
    BY <1>1, <2>1
  <2> QED BY <1>1, <2>1, <2>2, <2>3, <2>4, <2>5, <2>6, TransferInvIs
<1>6. CASE UNCHANGED transferVars
  <2>1. case' = case /\ rows' = rows /\ created' = created /\ dest' = dest /\ copies' = copies /\ changes' = changes /\ last' = last
    BY <1>6 DEF transferVars
  <2> QED BY <1>1, <2>1, TransferInvIs
<1> QED BY <1>2, <1>3, <1>4, <1>5, <1>6 DEF TransferNext

\* The strengthened invariant holds throughout, and says what the type invariant says.
LEMMA TransferAlways == TransferSpec => []TransferInv
BY TransferStart, TransferStep, PTL DEF TransferSpec

(* Whatever is copied, in whatever order, and however often: no row of the    *)
(* destination holds a value the destination refused, and a destination that  *)
(* could not be created holds nothing (the writers' writeBatch and applyChange). *)
THEOREM TransferTypeCorrect == TransferSpec => []TransferTypeOK
<1>1. TransferInv => TransferTypeOK
  <2> SUFFICES ASSUME TransferInv PROVE TransferTypeOK
    OBVIOUS
  <2>1. DOMAIN rows \subseteq RowId
    BY CaseTyped DEF TransferInv, RowsOK
  <2>2. \A i \in DOMAIN dest : dest[i].row \in RowId /\ \A n \in DOMAIN dest[i].fields : dest[i].fields[n] # Rejected
    BY DocsEach DEF TransferInv, DocOK
  <2> QED BY <2>1, <2>2 DEF TransferInv, TransferTypeOK
<1> QED BY <1>1, TransferAlways, PTL

-----------------------------------------------------------------------------
(* A collection and its copy: no mapper, and the _id is what the rows are known by. *)

Replicates == case.from = "mongodb" /\ case.to = "mongodb"
KeyOfRow(r) == Read(case, r)[ID]
KeysKept(f) == \A r \in DOMAIN f : f[r][ID] = KeyOfRow(r)

\* The documents are rows of f as they are, none of them twice; and all of them.
HoldsOnly(docs, f) ==
  /\ \A i \in DOMAIN docs : docs[i].row \in DOMAIN f /\ docs[i].fields = f[docs[i].row]
  /\ \A i, j \in DOMAIN docs : docs[i].row = docs[j].row => i = j
HasRow(docs, r) == \E i \in DOMAIN docs : docs[i].row = r
HoldsAll(docs, f) == \A r \in DOMAIN f : HasRow(docs, r)

\* The event e has been applied to the rows f.
Reflected(e, f) ==
  /\ e.row \in DOMAIN case.rows /\ e.doc[ID] = KeyOfRow(e.row)
  /\ IF e.op = "delete" THEN e.row \notin DOMAIN f ELSE e.row \in DOMAIN f /\ f[e.row] = e.doc

MirrorInv ==
  Replicates =>
    /\ KeysKept(rows) /\ HoldsOnly(dest, rows) /\ (copies > 0 => HoldsAll(dest, rows))
    /\ last.op # "none" => Reflected(last, rows)

\* A sequence without one of its elements.
LEMMA Removed ==
  ASSUME NEW S, NEW s \in Seq(S), NEW i \in 1 .. Len(s)
  PROVE  /\ RemoveAt(s, i) \in Seq(S) /\ Len(RemoveAt(s, i)) = Len(s) - 1
         /\ \A k \in 1 .. Len(s) - 1 : RemoveAt(s, i)[k] = (IF k < i THEN s[k] ELSE s[k + 1])
<1> DEFINE a == SubSeq(s, 1, i - 1)
           b == SubSeq(s, i + 1, Len(s))
           t == a \o b
<1>1. Len(s) \in Nat /\ i \in Int /\ i - 1 \in Nat /\ Len(s) - i \in Nat /\ (i - 1) + (Len(s) - i) = Len(s) - 1
  OBVIOUS
<1>2. \A k \in 1 .. i - 1 : a[k] = s[k]
  OBVIOUS
<1>3. \A k \in 1 .. Len(s) - i : b[k] = s[i + k]
  OBVIOUS
<1>4. a \in Seq(S) /\ b \in Seq(S)
  OBVIOUS
<1>5. Len(a) = i - 1 /\ Len(b) = Len(s) - i
  OBVIOUS
<1>6. SUFFICES /\ t \in Seq(S) /\ Len(t) = Len(s) - 1
               /\ \A k \in 1 .. Len(s) - 1 : t[k] = (IF k < i THEN s[k] ELSE s[k + 1])
  BY Zenon DEF RemoveAt
<1> HIDE DEF a, b
<1>7. Len(a) + Len(b) = Len(s) - 1
  BY <1>1, <1>5
<1>8. /\ t \in Seq(S) /\ Len(t) = Len(a) + Len(b)
       /\ \A k \in 1 .. Len(a) + Len(b) : t[k] = (IF k <= Len(a) THEN a[k] ELSE b[k - Len(a)])
  BY <1>4, ConcatProperties
<1> HIDE DEF t
<1>9. \A k \in 1 .. Len(s) - 1 : t[k] = (IF k <= i - 1 THEN a[k] ELSE b[k - (i - 1)])
  BY <1>5, <1>7, <1>8
<1>10. ASSUME NEW k \in 1 .. Len(s) - 1 PROVE t[k] = (IF k < i THEN s[k] ELSE s[k + 1])
  <2>1. t[k] = (IF k <= i - 1 THEN a[k] ELSE b[k - (i - 1)])
    BY <1>1, <1>9
  <2>2. CASE k < i
    <3>1. k \in 1 .. i - 1 /\ k <= i - 1
      BY <1>1, <2>2
    <3> QED BY <1>2, <2>1, <2>2, <3>1
  <2>3. CASE ~(k < i)
    <3>1. k - (i - 1) \in 1 .. Len(s) - i /\ i + (k - (i - 1)) = k + 1 /\ ~(k <= i - 1)
      BY <1>1, <2>3
    <3>2. b[k - (i - 1)] = s[i + (k - (i - 1))]
      BY <1>3, <3>1
    <3> QED BY <2>1, <2>3, <3>1, <3>2
  <2> QED BY <2>2, <2>3
<1> QED BY <1>10, <1>7, <1>8

\* Every document has an _id of its own, and the _id is the key.
LEMMA KeysApart ==
  ASSUME case \in Case, Replicates
  PROVE  /\ {cols[i].name : i \in Pk} = {ID}
         /\ \A i \in DOMAIN cols \ Pk : cols[i].name # ID
         /\ \A r \in DOMAIN case.rows : KeyOfRow(r) # Generated
         /\ \A q, r \in DOMAIN case.rows : KeyOfRow(q).v = KeyOfRow(r).v => q = r
<1>1. CaseOK(case) /\ case.from = "mongodb"
  BY TransferAssumption DEF Replicates
<1>2. PICK k \in DOMAIN cols : cols[k].name = ID
  BY <1>1 DEF CaseOK, cols
<1>3. \A i \in DOMAIN cols : (cols[i].pk <=> cols[i].name = ID) /\ (cols[i].name = ID => i = k)
  BY <1>1, <1>2 DEF CaseOK, cols
<1>4. {cols[i].name : i \in Pk} = {ID} /\ \A i \in DOMAIN cols \ Pk : cols[i].name # ID
  BY <1>2, <1>3 DEF Pk
<1>5. ASSUME NEW r \in DOMAIN case.rows PROVE KeyOfRow(r) = case.rows[r][k]
  <2> DEFINE At == CHOOSE i \in DOMAIN case.cols : case.cols[i].name = ID
  <2>1. At = k
    BY <1>2, <1>3 DEF cols
  <2>2. ID \in {case.cols[i].name : i \in DOMAIN case.cols}
    BY <1>2 DEF cols
  <2>3. Read(case, r)[ID] = case.rows[r][At]
    BY <1>1, <2>2 DEF Read
  <2> HIDE DEF At
  <2> QED BY <2>1, <2>3 DEF KeyOfRow
<1>6. \A r \in DOMAIN case.rows : case.rows[r][k] # Generated
  BY <1>1, <1>2 DEF CaseOK, cols
<1>7. \A q, r \in DOMAIN case.rows : case.rows[q][k].v = case.rows[r][k].v => q = r
  BY <1>1, <1>2 DEF CaseOK, cols
<1> QED BY <1>4, <1>5, <1>6, <1>7

\* A document of the destination has an _id, and only the row it was written for has it.
LEMMA IdFinds ==
  ASSUME case \in Case, Replicates, NEW f, RowsOK(f), KeysKept(f), NEW docs, HoldsOnly(docs, f),
         NEW i \in DOMAIN docs, NEW r \in DOMAIN case.rows
  PROVE  /\ ID \in DOMAIN docs[i].fields
         /\ docs[i].fields[ID].v = KeyOfRow(r).v <=> docs[i].row = r
<1>1. docs[i].row \in DOMAIN f /\ docs[i].fields = f[docs[i].row]
  BY DEF HoldsOnly
<1>2. docs[i].row \in DOMAIN case.rows /\ RecordOK(f[docs[i].row])
  BY <1>1 DEF RowsOK
<1>3. docs[i].fields[ID] = KeyOfRow(docs[i].row)
  BY <1>1 DEF KeysKept
<1>4. ID \in ColumnSet
  BY CaseTyped DEF Replicates
<1> QED BY <1>1, <1>2, <1>3, <1>4, KeysApart DEF RecordOK

\* E11000 comes for a row whose document is there.
LEMMA DuplicateFinds ==
  ASSUME case \in Case, Replicates, NEW f, RowsOK(f), KeysKept(f), NEW docs, HoldsOnly(docs, f),
         NEW r \in DOMAIN case.rows, NEW x, x[ID] = KeyOfRow(r)
  PROVE  Duplicate(docs, x) <=> HasRow(docs, r)
<1>1. ~UniqueIndex
  BY DEF UniqueIndex, KeyColumnsNamed, Replicates
<1>2. x[ID] # Generated
  BY KeysApart
<1>3. \A i \in DOMAIN docs : docs[i].fields[ID].v = x[ID].v <=> docs[i].row = r
  BY IdFinds
<1> QED BY <1>1, <1>2, <1>3 DEF Duplicate, HasRow

\* A further document, for a row that has none.
LEMMA OneMore ==
  ASSUME NEW D, NEW docs \in Seq(D), NEW f, HoldsOnly(docs, f), NEW r \in DOMAIN f, NEW e,
         e.row = r, e.fields = f[r], ~HasRow(docs, r)
  PROVE  /\ HoldsOnly(Append(docs, e), f) /\ HasRow(Append(docs, e), r)
         /\ \A q : HasRow(docs, q) => HasRow(Append(docs, e), q)
<1>1. PICK t : t = Append(docs, e)
  OBVIOUS
<1>2. PICK n \in Nat : n = Len(docs)
  OBVIOUS
<1>3. /\ DOMAIN docs = 1 .. n /\ DOMAIN t = 1 .. (n + 1) /\ t[n + 1] = e
      /\ \A i \in 1 .. n : t[i] = docs[i]
  BY <1>1, <1>2
<1>4. \A i \in 1 .. (n + 1) : i = n + 1 \/ i \in 1 .. n
  OBVIOUS
<1>5. n + 1 \in DOMAIN t /\ \A i \in DOMAIN docs : i \in DOMAIN t
  BY <1>3
<1>6. HoldsOnly(t, f)
  <2>1. ASSUME NEW i \in DOMAIN t PROVE t[i].row \in DOMAIN f /\ t[i].fields = f[t[i].row]
    BY <1>3, <1>4 DEF HoldsOnly
  <2>2. ASSUME NEW i \in DOMAIN t, NEW j \in DOMAIN t, t[i].row = t[j].row PROVE i = j
    BY <1>3, <1>4, <2>2 DEF HoldsOnly, HasRow
  <2> QED BY <2>1, <2>2 DEF HoldsOnly
<1>7. HasRow(t, r) /\ \A q : HasRow(docs, q) => HasRow(t, q)
  BY <1>3, <1>5 DEF HasRow
<1> QED BY <1>1, <1>6, <1>7

\* One insertion, of those that make InsertMany.
LEMMA InsertionHolds ==
  ASSUME TransferInv, Replicates, KeysKept(rows), NEW D, NEW docs \in Seq(D), HoldsOnly(docs, rows), NEW r \in DOMAIN rows
  PROVE  /\ HoldsOnly(Insertion(docs, r), rows) /\ HasRow(Insertion(docs, r), r)
         /\ \A q : HasRow(docs, q) => HasRow(Insertion(docs, r), q)
<1>1. case \in Case /\ RowsOK(rows) /\ r \in DOMAIN case.rows
  BY DEF TransferInv, RowsOK
<1>2. Document(MapRecord(rows[r])) = rows[r]
  BY DEF MapRecord, Document, Replicates
<1>3. Duplicate(docs, rows[r]) <=> HasRow(docs, r)
  <2>1. PICK x : x = rows[r]
    OBVIOUS
  <2>2. x[ID] = KeyOfRow(r)
    BY <2>1 DEF KeysKept
  <2> QED BY <1>1, <2>1, <2>2, DuplicateFinds
<1>4. PICK e : e = DocFor(r)
  OBVIOUS
<1>5. e.row = r /\ e.fields = rows[r]
  BY <1>2, <1>4 DEF DocFor
<1>6. Insertion(docs, r) = IF Duplicate(docs, rows[r]) THEN docs ELSE Append(docs, e)
  BY <1>2, <1>4 DEF Insertion
<1>7. CASE Duplicate(docs, rows[r])
  BY <1>3, <1>6, <1>7
<1>8. CASE ~Duplicate(docs, rows[r])
  BY <1>3, <1>5, <1>6, <1>8, OneMore
<1> QED BY <1>7, <1>8

\* However often it is done, insertMany leaves one document for each row.
LEMMA InsertManyHolds ==
  ASSUME TransferInv, Replicates, KeysKept(rows), HoldsOnly(dest, rows)
  PROVE  HoldsOnly(InsertMany(dest), rows) /\ HoldsAll(InsertMany(dest), rows)
<1>1. IsFiniteSet(DOMAIN rows)
  BY CaseTyped, FS_Subset DEF TransferInv, RowsOK
<1>2. PICK C : dest \in Seq(C) /\ \A r \in DOMAIN rows : DocFor(r) \in C
  <2>1. PICK D : dest \in Seq(D)
    BY DEF TransferInv, DocsOK
  <2>2. PICK C : C = D \cup {DocFor(r) : r \in DOMAIN rows}
    OBVIOUS
  <2>3. dest \in Seq(C) /\ \A r \in DOMAIN rows : DocFor(r) \in C
    BY <2>1, <2>2
  <2> QED BY <2>3
<1>3. PICK n, order, h : Insertions(C, dest, n, order, h)
  BY <1>1, <1>2, InsertManyFolds
<1>4. /\ n \in Nat /\ order \in [1 .. n -> DOMAIN rows] /\ h \in [0 .. n -> Seq(C)]
      /\ \A r \in DOMAIN rows : \E i \in 1 .. n : order[i] = r
      /\ h[0] = dest /\ h[n] = InsertMany(dest)
      /\ \A i \in 0 .. (n - 1) : h[i + 1] = Insertion(h[i], order[i + 1])
  BY <1>3 DEF Insertions
<1> DEFINE S == {i \in Nat : i <= n => HoldsOnly(h[i], rows) /\ \A k \in 1 .. i : HasRow(h[i], order[k])}
<1>5. 0 \in S
  BY <1>4
<1>6. ASSUME NEW i \in Nat, i \in S PROVE i + 1 \in S
  <2> SUFFICES ASSUME i + 1 <= n
               PROVE  HoldsOnly(h[i + 1], rows) /\ \A k \in 1 .. (i + 1) : HasRow(h[i + 1], order[k])
    OBVIOUS
  <2>1. i \in 0 .. (n - 1) /\ i \in 0 .. n /\ i + 1 \in 1 .. n /\ i <= n
    BY <1>4
  <2>2. HoldsOnly(h[i], rows) /\ \A k \in 1 .. i : HasRow(h[i], order[k])
    BY <1>6, <2>1
  <2>3. PICK docs, next, r : docs = h[i] /\ next = h[i + 1] /\ r = order[i + 1]
    OBVIOUS
  <2>4. docs \in Seq(C) /\ r \in DOMAIN rows /\ next = Insertion(docs, r) /\ HoldsOnly(docs, rows)
    BY <1>4, <2>1, <2>2, <2>3
  <2>5. HoldsOnly(next, rows) /\ HasRow(next, r) /\ \A q : HasRow(docs, q) => HasRow(next, q)
    <3>1. /\ HoldsOnly(Insertion(docs, r), rows) /\ HasRow(Insertion(docs, r), r)
          /\ \A q : HasRow(docs, q) => HasRow(Insertion(docs, r), q)
      BY <2>4, InsertionHolds
    <3> QED BY <2>4, <3>1
  <2>6. \A k \in 1 .. (i + 1) : k = i + 1 \/ k \in 1 .. i
    OBVIOUS
  <2> QED BY <2>2, <2>3, <2>5, <2>6
<1> HIDE DEF S
<1>7. \A i \in Nat : i \in S
  BY <1>5, <1>6, Induction
<1>8. HoldsOnly(h[n], rows) /\ \A k \in 1 .. n : HasRow(h[n], order[k])
  <2>1. n \in S /\ n <= n
    BY <1>4, <1>7
  <2> QED BY <2>1 DEF S
<1>9. \A r \in DOMAIN rows : HasRow(h[n], r)
  BY <1>4, <1>8
<1> QED BY <1>4, <1>8, <1>9 DEF HoldsAll

\* What the rows f become when the event e has happened: its row is gone, or is the event's document.
Happened(e, f, g) ==
  /\ \A q \in DOMAIN f \ {e.row} : q \in DOMAIN g /\ g[q] = f[q]
  /\ DOMAIN g = IF e.op = "delete" THEN DOMAIN f \ {e.row} ELSE DOMAIN f \cup {e.row}
  /\ e.op # "delete" => g[e.row] = e.doc

\* An event's deleteOne or replaceOne finds the document of its row, and no other.
LEMMA ApplyMongoHolds ==
  ASSUME case \in Case, Replicates, NEW f, RowsOK(f), KeysKept(f), DocsOK(dest), HoldsOnly(dest, f), HoldsAll(dest, f),
         NEW e, e.row \in DOMAIN case.rows, RecordOK(e.doc), e.doc[ID] = KeyOfRow(e.row), NEW g, Happened(e, f, g)
  PROVE  HoldsOnly(ApplyMongo(e), g) /\ HoldsAll(ApplyMongo(e), g)
<1>1. PICK D, n : dest \in Seq(D) /\ n \in Nat /\ n = Len(dest)
  <2>1. PICK D : dest \in Seq(D)
    BY DEF DocsOK
  <2>2. Len(dest) \in Nat
    BY <2>1
  <2> QED BY <2>1, <2>2
<1>2. DOMAIN dest = 1 .. n
  BY <1>1
<1>3. PICK r, doc : r = e.row /\ doc = e.doc /\ Document(e.doc) = doc
  BY DEF Document, Replicates
<1>4. ID \in DOMAIN doc /\ doc[ID] = KeyOfRow(r) /\ r \in DOMAIN case.rows
  BY <1>3, CaseTyped DEF Replicates, RecordOK
<1>5. \A x : Over(doc, Field(ID, x)) = doc
  <2> SUFFICES ASSUME NEW x PROVE Over(doc, Field(ID, x)) = doc
    OBVIOUS
  <2>1. PICK k : k = Field(ID, x)
    OBVIOUS
  <2>2. DOMAIN k = {ID}
    BY <2>1, FieldHas
  <2>3. DOMAIN doc \cup DOMAIN k = DOMAIN doc
    BY <1>4, <2>2
  <2>4. Over(doc, k) = [m \in DOMAIN doc |-> doc[m]]
    BY <2>3 DEF Over
  <2> QED BY <1>3, <2>1, <2>4 DEF RecordOK
<1>6. PICK found : found = {i \in DOMAIN dest : \A m \in DOMAIN KeyOf(doc) : FieldOf(dest[i].fields, m).v = KeyOf(doc)[m].v}
  OBVIOUS
<1>7. \A i \in DOMAIN dest : i \in found <=> dest[i].row = r
  <2>1. DOMAIN KeyOf(doc) = {ID} /\ KeyOf(doc)[ID] = KeyOfRow(r)
    <3>1. {cols[i].name : i \in Pk} = {ID}
      BY KeysApart
    <3>2. KeyOf(doc) = [m \in {ID} |-> doc[m]]
      BY <1>3, <3>1 DEF KeyOf
    <3> QED BY <1>4, <3>2
  <2>2. \A i \in DOMAIN dest : FieldOf(dest[i].fields, ID) = dest[i].fields[ID]
    BY <1>4, IdFinds DEF FieldOf
  <2> QED BY <1>4, <1>6, <2>1, <2>2, IdFinds
<1>8. found = {} => ~Duplicate(dest, doc)
  <2>1. Duplicate(dest, doc) <=> HasRow(dest, r)
    BY <1>4, DuplicateFinds
  <2> QED BY <1>7, <2>1 DEF HasRow
<1>9. PICK new : new = [row |-> r, fields |-> doc]
  OBVIOUS
<1>10. /\ e.op = "delete" /\ found = {} => ApplyMongo(e) = dest
       /\ e.op = "delete" /\ found # {} => ApplyMongo(e) = RemoveAt(dest, First(found))
       /\ e.op # "delete" /\ found = {} => ApplyMongo(e) = Append(dest, new)
       /\ e.op # "delete" /\ found # {} => ApplyMongo(e) = [dest EXCEPT ![First(found)] = new]
  <2>1. PICK fresh : fresh = Over(doc, Field(ID, Generated))
    OBVIOUS
  <2>2. fresh = doc
    BY <1>5, <2>1
  <2>3. ApplyMongo(e) =
          IF e.op = "delete" THEN IF found = {} THEN dest ELSE RemoveAt(dest, First(found))
          ELSE IF found = {} THEN IF Duplicate(dest, fresh) THEN dest ELSE Append(dest, [row |-> r, fields |-> fresh])
          ELSE [dest EXCEPT ![First(found)] = [row |-> r, fields |-> Over(doc, Field(ID, @.fields[ID]))]]
    BY <1>3, <1>6, <2>1 DEF ApplyMongo
  <2>4. [dest EXCEPT ![First(found)] = [row |-> r, fields |-> Over(doc, Field(ID, @.fields[ID]))]]
          = [dest EXCEPT ![First(found)] = new]
    BY <1>5, <1>9
  <2> QED BY <1>8, <1>9, <2>2, <2>3, <2>4
<1>11. found # {} => First(found) \in found
  <2>1. found \in SUBSET Nat
    BY <1>2, <1>6
  <2> QED BY <2>1, FirstFound
<1>12. CASE e.op = "delete" /\ found = {}
  <2>1. r \notin DOMAIN f
    BY <1>7, <1>12 DEF HoldsAll, HasRow
  <2>2. DOMAIN g = DOMAIN f /\ \A q \in DOMAIN f : g[q] = f[q]
    BY <1>3, <1>12, <2>1 DEF Happened
  <2> QED BY <1>10, <1>12, <2>2 DEF HoldsOnly, HoldsAll
<1>13. CASE e.op = "delete" /\ found # {}
  <2>1. PICK i, t : i = First(found) /\ t = RemoveAt(dest, i)
    OBVIOUS
  <2>2. i \in 1 .. n /\ dest[i].row = r
    BY <1>2, <1>6, <1>7, <1>11, <1>13, <2>1
  <2>3. Len(t) = n - 1 /\ \A k \in 1 .. n - 1 : t[k] = (IF k < i THEN dest[k] ELSE dest[k + 1])
    BY <1>1, <2>1, <2>2, Removed
  <2>4. DOMAIN t = 1 .. n - 1
    <3>1. t \in Seq(D)
      BY <1>1, <2>1, <2>2, Removed
    <3> QED BY <2>3, <3>1
  <2>5. PICK at : at = [k \in 1 .. n - 1 |-> IF k < i THEN k ELSE k + 1]
    OBVIOUS
  <2>6. \A k \in 1 .. n - 1 : at[k] \in 1 .. n /\ at[k] # i /\ t[k] = dest[at[k]]
    BY <1>1, <2>2, <2>3, <2>5
  <2>7. \A k, l \in 1 .. n - 1 : at[k] = at[l] => k = l
    BY <1>1, <2>2, <2>5
  <2>8. \A j \in 1 .. n : j # i => \E k \in 1 .. n - 1 : at[k] = j
    <3> SUFFICES ASSUME NEW j \in 1 .. n, j # i PROVE \E k \in 1 .. n - 1 : at[k] = j
      OBVIOUS
    <3>1. CASE j < i
      <4>1. j \in 1 .. n - 1 /\ at[j] = j
        BY <1>1, <2>2, <2>5, <3>1
      <4> QED BY <4>1
    <3>2. CASE ~(j < i)
      <4>1. j - 1 \in 1 .. n - 1 /\ at[j - 1] = j
        BY <1>1, <2>2, <2>5, <3>2
      <4> QED BY <4>1
    <3> QED BY <3>1, <3>2
  <2>9. DOMAIN g = DOMAIN f \ {r} /\ \A q \in DOMAIN f \ {r} : g[q] = f[q]
    BY <1>3, <1>13 DEF Happened
  <2>10. \A j \in 1 .. n : j # i => dest[j].row # r
    BY <1>2, <2>2 DEF HoldsOnly
  <2>11. HoldsOnly(t, g)
    <3>1. ASSUME NEW k \in DOMAIN t PROVE t[k].row \in DOMAIN g /\ t[k].fields = g[t[k].row]
      <4>1. at[k] \in 1 .. n /\ at[k] # i /\ t[k] = dest[at[k]]
        BY <2>4, <2>6
      <4>2. dest[at[k]].row \in DOMAIN f \ {r} /\ dest[at[k]].fields = f[dest[at[k]].row]
        BY <1>2, <2>10, <4>1 DEF HoldsOnly
      <4> QED BY <2>9, <4>1, <4>2
    <3>2. ASSUME NEW k \in DOMAIN t, NEW l \in DOMAIN t, t[k].row = t[l].row PROVE k = l
      <4>1. at[k] \in DOMAIN dest /\ at[l] \in DOMAIN dest /\ dest[at[k]].row = dest[at[l]].row
        BY <1>2, <2>4, <2>6, <3>2
      <4>2. at[k] = at[l]
        BY <4>1 DEF HoldsOnly
      <4> QED BY <2>4, <2>7, <4>2
    <3> QED BY <3>1, <3>2 DEF HoldsOnly
  <2>12. HoldsAll(t, g)
    <3> SUFFICES ASSUME NEW q \in DOMAIN g PROVE \E k \in DOMAIN t : t[k].row = q
      BY DEF HoldsAll, HasRow
    <3>1. PICK j \in 1 .. n : dest[j].row = q /\ q # r
      BY <1>2, <2>9 DEF HoldsAll, HasRow
    <3>2. PICK k \in 1 .. n - 1 : at[k] = j
      BY <2>2, <2>8, <3>1
    <3> QED BY <2>4, <2>6, <3>1, <3>2
  <2> QED BY <1>10, <1>13, <2>1, <2>11, <2>12
<1>14. CASE e.op # "delete" /\ found = {}
  <2>1. ~HasRow(dest, r)
    BY <1>7, <1>14 DEF HasRow
  <2>2. r \notin DOMAIN f
    BY <2>1 DEF HoldsAll
  <2>3. DOMAIN g = DOMAIN f \cup {r} /\ g[r] = doc /\ \A q \in DOMAIN f : g[q] = f[q]
    BY <1>3, <1>14, <2>2 DEF Happened
  <2>4. HoldsOnly(dest, g)
    BY <2>3 DEF HoldsOnly
  <2>5. new.row = r /\ new.fields = g[r] /\ r \in DOMAIN g
    BY <1>9, <2>3
  <2>6. /\ HoldsOnly(Append(dest, new), g) /\ HasRow(Append(dest, new), r)
        /\ \A q : HasRow(dest, q) => HasRow(Append(dest, new), q)
    BY <1>1, <2>1, <2>4, <2>5, OneMore
  <2>7. HoldsAll(Append(dest, new), g)
    BY <2>3, <2>6 DEF HoldsAll
  <2> QED BY <1>10, <1>14, <2>6, <2>7
<1>15. CASE e.op # "delete" /\ found # {}
  <2>1. PICK i, t : i = First(found) /\ t = [dest EXCEPT ![i] = new]
    OBVIOUS
  <2>2. i \in DOMAIN dest /\ dest[i].row = r
    BY <1>6, <1>7, <1>11, <1>15, <2>1
  <2>3. DOMAIN t = DOMAIN dest /\ \A j \in DOMAIN dest : t[j].row = dest[j].row /\ (j # i => t[j] = dest[j])
    BY <1>1, <1>9, <2>1, <2>2
  <2>4. t[i].fields = doc
    BY <1>1, <1>9, <2>1, <2>2
  <2>5. r \in DOMAIN f
    BY <2>2 DEF HoldsOnly
  <2>6. DOMAIN g = DOMAIN f /\ g[r] = doc /\ \A q \in DOMAIN f \ {r} : g[q] = f[q]
    BY <1>3, <1>15, <2>5 DEF Happened
  <2>7. HoldsOnly(t, g)
    <3>1. ASSUME NEW j \in DOMAIN t PROVE t[j].row \in DOMAIN g /\ t[j].fields = g[t[j].row]
      <4>1. CASE j = i
        BY <2>2, <2>3, <2>4, <2>5, <2>6, <4>1
      <4>2. CASE j # i
        <5>1. dest[j].row \in DOMAIN f \ {r} /\ dest[j].fields = f[dest[j].row] /\ t[j] = dest[j]
          BY <2>2, <2>3, <4>2 DEF HoldsOnly
        <5> QED BY <2>6, <5>1
      <4> QED BY <4>1, <4>2
    <3>2. ASSUME NEW j \in DOMAIN t, NEW k \in DOMAIN t, t[j].row = t[k].row PROVE j = k
      BY <2>3, <3>2 DEF HoldsOnly
    <3> QED BY <3>1, <3>2 DEF HoldsOnly
  <2>8. HoldsAll(t, g)
    BY <2>3, <2>6 DEF HoldsAll, HasRow
  <2> QED BY <1>10, <1>15, <2>1, <2>7, <2>8
<1> QED BY <1>12, <1>13, <1>14, <1>15

LEMMA MirrorInvIs ==
  ASSUME case' = case,
         Replicates => /\ KeysKept(rows') /\ HoldsOnly(dest', rows') /\ (copies' > 0 => HoldsAll(dest', rows'))
                       /\ last'.op # "none" => Reflected(last', rows')
  PROVE  MirrorInv'
<1> SUFFICES ASSUME Replicates'
             PROVE  /\ KeysKept(rows)' /\ HoldsOnly(dest, rows)' /\ (copies > 0 => HoldsAll(dest, rows))'
                    /\ (last.op # "none" => Reflected(last, rows))'
  BY DEF MirrorInv
<1>1. Replicates
  BY DEF Replicates
<1>2. \A r : KeyOfRow(r)' = KeyOfRow(r)
  BY DEF KeyOfRow, Read
<1>3. KeysKept(rows)'
  BY <1>1, <1>2 DEF KeysKept
<1>4. HoldsOnly(dest, rows)' /\ (copies > 0 => HoldsAll(dest, rows))'
  BY <1>1 DEF HoldsOnly, HoldsAll, HasRow
<1>5. (last.op # "none" => Reflected(last, rows))'
  BY <1>1, <1>2 DEF Reflected
<1> QED BY <1>3, <1>4, <1>5

\* A change keeps every _id, and the event says what has become of its row.
LEMMA ChangeHappens ==
  ASSUME TransferInv, Replicates, KeysKept(rows), NEW op \in {"insert", "update", "delete"}, NEW r \in DOMAIN case.rows,
         Change(op, r)
  PROVE  KeysKept(rows') /\ Happened(last', rows, rows') /\ Reflected(last', rows')
<1>1. case \in Case /\ RowsOK(rows)
  BY DEF TransferInv
<1>2. last'.op = op /\ last'.row = r /\ last'.doc = IF op = "delete" THEN rows[r] ELSE rows'[r]
  BY DEF Change
<1>3. CASE op = "insert"
  <2>1. PICK f, x : f = Field(r, x) /\ x = Read(case, r)
    OBVIOUS
  <2>2. r \notin DOMAIN rows /\ rows' = Over(f, rows)
    BY <1>3, <2>1 DEF Change
  <2>3. DOMAIN f = {r} /\ f[r] = x /\ x[ID] = KeyOfRow(r)
    BY <2>1, FieldHas DEF KeyOfRow
  <2>4. PICK g : g = Over(f, rows)
    OBVIOUS
  <2>5. DOMAIN g = {r} \cup DOMAIN rows /\ g[r] = x /\ \A q \in DOMAIN rows \ {r} : g[q] = rows[q]
    BY <2>3, <2>4 DEF Over
  <2>6. KeysKept(g)
    BY <2>3, <2>5 DEF KeysKept
  <2>7. Happened(last', rows, g) /\ Reflected(last', g)
    BY <1>2, <1>3, <2>2, <2>3, <2>4, <2>5 DEF Happened, Reflected
  <2> QED BY <2>2, <2>4, <2>6, <2>7
<1>4. CASE op = "update"
  <2>1. PICK i \in DOMAIN cols \ Pk :
          rows' = [rows EXCEPT ![r][cols[i].name].v = IF @ = <<"0">> THEN <<"1">> ELSE <<"0">>]
    BY <1>4 DEF Change
  <2>2. r \in DOMAIN rows
    BY <1>4 DEF Change
  <2>3. PICK n, y : n = cols[i].name /\ y = [rows[r][n] EXCEPT !.v = IF @ = <<"0">> THEN <<"1">> ELSE <<"0">>]
    OBVIOUS
  <2>4. PICK new : new = [rows[r] EXCEPT ![n] = y]
    OBVIOUS
  <2>5. new[ID] = rows[r][ID]
    <3>1. n # ID
      BY <1>1, <2>3, KeysApart
    <3>2. ID \in DOMAIN rows[r]
      BY <1>1, <2>2, CaseTyped DEF RowsOK, RecordOK, Replicates
    <3> QED BY <2>4, <3>1, <3>2
  <2>6. rows' = [rows EXCEPT ![r] = new]
    BY <2>1, <2>3, <2>4
  <2>7. DOMAIN rows' = DOMAIN rows /\ rows'[r] = new /\ \A q \in DOMAIN rows \ {r} : rows'[q] = rows[q]
    BY <2>2, <2>6
  <2>8. rows[r][ID] = KeyOfRow(r)
    BY <2>2 DEF KeysKept
  <2>9. KeysKept(rows')
    BY <2>5, <2>7, <2>8 DEF KeysKept
  <2>10. Happened(last', rows, rows')
    BY <1>2, <1>4, <2>2, <2>7 DEF Happened
  <2>11. Reflected(last', rows')
    BY <1>2, <1>4, <2>2, <2>5, <2>7, <2>8 DEF Reflected
  <2> QED BY <2>9, <2>10, <2>11
<1>5. CASE op = "delete"
  <2>1. r \in DOMAIN rows /\ rows' = [q \in DOMAIN rows \ {r} |-> rows[q]]
    BY <1>5 DEF Change
  <2>2. KeysKept(rows')
    BY <2>1 DEF KeysKept
  <2>3. Happened(last', rows, rows')
    BY <1>2, <1>5, <2>1 DEF Happened
  <2>4. rows[r][ID] = KeyOfRow(r)
    BY <2>1 DEF KeysKept
  <2>5. Reflected(last', rows')
    BY <1>2, <1>5, <2>1, <2>4 DEF Reflected
  <2> QED BY <2>2, <2>3, <2>5
<1> QED BY <1>3, <1>4, <1>5

LEMMA MirrorStep == TransferInv /\ MirrorInv /\ [TransferNext]_transferVars => MirrorInv'
<1> SUFFICES ASSUME TransferInv, MirrorInv, [TransferNext]_transferVars PROVE MirrorInv'
  OBVIOUS
<1>1. /\ case \in Case /\ RowsOK(rows) /\ DocsOK(dest) /\ (created # "yes" => copies = 0) /\ copies \in Nat
      /\ last.op # "none" => copies > 0 /\ ChangeOK(last)
  BY TransferAssumption DEF TransferInv
<1>2. Replicates => /\ KeysKept(rows) /\ HoldsOnly(dest, rows) /\ (copies > 0 => HoldsAll(dest, rows))
                    /\ last.op # "none" => Reflected(last, rows)
  BY DEF MirrorInv
<1>3. CASE InitDestination
  <2>1. case' = case /\ rows' = rows /\ copies' = copies /\ last' = last /\ dest' = dest
    BY <1>3 DEF InitDestination, vars1
  <2> QED BY <1>2, <2>1, MirrorInvIs
<1>4. CASE WriteBatch
  <2>1. /\ case' = case /\ rows' = rows /\ last' = last
        /\ dest' = IF case.to = "mongodb" THEN InsertMany(dest) ELSE InsertRows(dest)
    BY <1>4 DEF WriteBatch
  <2>2. Replicates => HoldsOnly(dest', rows) /\ HoldsAll(dest', rows)
    BY <1>2, <2>1, InsertManyHolds DEF Replicates
  <2> QED BY <1>2, <2>1, <2>2, MirrorInvIs
<1>5. CASE Redeliver
  <2>1. /\ last.op # "none" /\ case' = case /\ rows' = rows /\ copies' = copies /\ last' = last
        /\ dest' = IF case.to = "mongodb" THEN ApplyMongo(last) ELSE ApplySql(last)
    BY <1>5 DEF Redeliver, ApplyChange
  <2>2. ASSUME Replicates PROVE HoldsOnly(dest', rows) /\ HoldsAll(dest', rows)
    <3>1. PICK e : e = last
      OBVIOUS
    <3>2. Reflected(e, rows) /\ RecordOK(e.doc)
      BY <1>1, <1>2, <2>1, <2>2, <3>1 DEF ChangeOK
    <3>3. Happened(e, rows, rows)
      BY <3>2 DEF Reflected, Happened
    <3>4. HoldsOnly(dest, rows) /\ HoldsAll(dest, rows) /\ KeysKept(rows)
      BY <1>1, <1>2, <2>1, <2>2
    <3>5. e.row \in DOMAIN case.rows /\ e.doc[ID] = KeyOfRow(e.row)
      BY <3>2 DEF Reflected
    <3>6. HoldsOnly(ApplyMongo(e), rows) /\ HoldsAll(ApplyMongo(e), rows)
      BY <1>1, <2>2, <3>2, <3>3, <3>4, <3>5, ApplyMongoHolds
    <3> QED BY <2>1, <2>2, <3>1, <3>6 DEF Replicates
  <2> QED BY <1>2, <2>1, <2>2, MirrorInvIs
<1>6. ASSUME NEW op \in {"insert", "update", "delete"}, NEW r \in RowId, r \in DOMAIN case.rows, Change(op, r)
      PROVE  MirrorInv'
  <2>1. /\ copies > 0 /\ case' = case /\ copies' = copies
        /\ dest' = IF case.to = "mongodb" THEN ApplyMongo(last') ELSE ApplySql(last')
    BY <1>6 DEF Change, ApplyChange
  <2>2. ASSUME Replicates
        PROVE  KeysKept(rows') /\ HoldsOnly(dest', rows') /\ HoldsAll(dest', rows') /\ Reflected(last', rows')
    <3>1. PICK e, g : e = last' /\ g = rows'
      OBVIOUS
    <3>2. KeysKept(g) /\ Happened(e, rows, g) /\ Reflected(e, g)
      BY <1>2, <1>6, <2>2, <3>1, ChangeHappens
    <3>3. RecordOK(e.doc)
      BY <1>6, <3>1, ChangedRows
    <3>4. HoldsOnly(dest, rows) /\ HoldsAll(dest, rows) /\ KeysKept(rows)
      BY <1>2, <2>1, <2>2
    <3>5. e.row \in DOMAIN case.rows /\ e.doc[ID] = KeyOfRow(e.row)
      BY <3>2 DEF Reflected
    <3>6. HoldsOnly(ApplyMongo(e), g) /\ HoldsAll(ApplyMongo(e), g)
      BY <1>1, <2>2, <3>2, <3>3, <3>4, <3>5, ApplyMongoHolds
    <3> QED BY <2>1, <2>2, <3>1, <3>2, <3>6 DEF Replicates
  <2> QED BY <2>1, <2>2, MirrorInvIs
<1>7. CASE UNCHANGED transferVars
  <2>1. case' = case /\ rows' = rows /\ copies' = copies /\ last' = last /\ dest' = dest
    BY <1>7 DEF transferVars
  <2> QED BY <1>2, <2>1, MirrorInvIs
<1> QED BY <1>3, <1>4, <1>5, <1>6, <1>7 DEF TransferNext

LEMMA MirrorStart == TransferInit => MirrorInv
<1> SUFFICES ASSUME TransferInit, Replicates
             PROVE  KeysKept(rows) /\ HoldsOnly(dest, rows) /\ ~(copies > 0) /\ last.op = "none"
  BY DEF MirrorInv
<1>1. KeysKept(rows)
  BY DEF TransferInit, KeysKept, KeyOfRow
<1>2. dest = <<>> /\ copies = 0 /\ last.op = "none"
  BY DEF TransferInit, NoChange
<1> QED BY <1>1, <1>2 DEF HoldsOnly

(* A collection copied to another MongoDB and synced: however often the rows  *)
(* are copied and however often a change event is delivered, and whatever the *)
(* documents are, the destination holds each document of the source once, as  *)
(* it is now (MongoWriter's writeBatch and applyChange).                      *)
THEOREM CollectionMirrored == TransferSpec => [](case.from = "mongodb" /\ case.to = "mongodb" => Mirrors)
<1>1. TransferInv /\ MirrorInv => (case.from = "mongodb" /\ case.to = "mongodb" => Mirrors)
  <2> SUFFICES ASSUME TransferInv, MirrorInv, Replicates, copies > 0
               PROVE  /\ Len(dest) = Cardinality(DOMAIN rows)
                      /\ \A r \in DOMAIN rows : \E d \in DOMAIN dest : dest[d].row = r /\
                           \A i \in DOMAIN cols : Same(i, Kept(i, dest[d].fields), rows[r][cols[i].name])
    BY DEF Mirrors, Replicates
  <2>1. case \in Case /\ RowsOK(rows) /\ HoldsOnly(dest, rows) /\ HoldsAll(dest, rows)
    BY DEF TransferInv, MirrorInv
  <2>2. Len(dest) \in Nat /\ DOMAIN dest = 1 .. Len(dest)
    BY DocsEach DEF TransferInv
  <2>3. PICK n : n = Len(dest)
    OBVIOUS
  <2>4. Cardinality(DOMAIN rows) = n
    <3>1. PICK at : at = [d \in 1 .. n |-> dest[d].row]
      OBVIOUS
    <3>2. at \in [1 .. n -> DOMAIN rows]
      BY <2>1, <2>2, <2>3, <3>1 DEF HoldsOnly
    <3>3. \A d, e \in 1 .. n : at[d] = at[e] => d = e
      BY <2>1, <2>2, <2>3, <3>1 DEF HoldsOnly
    <3>4. \A r \in DOMAIN rows : \E d \in 1 .. n : at[d] = r
      BY <2>1, <2>2, <2>3, <3>1 DEF HoldsAll, HasRow
    <3>5. at \in Bijection(1 .. n, DOMAIN rows)
      BY <3>2, <3>3, <3>4 DEF Bijection, Injection, Surjection, IsInjective
    <3>6. ExistsBijection(1 .. n, DOMAIN rows)
      BY <3>5 DEF ExistsBijection
    <3>7. IsFiniteSet(1 .. n) /\ Cardinality(1 .. n) = n
      <4>1. n \in Nat
        BY <2>2, <2>3
      <4> QED BY <4>1, FS_Interval
    <3> QED BY <3>6, <3>7, FS_Bijection
  <2>5. ASSUME NEW r \in DOMAIN rows
        PROVE  \E d \in DOMAIN dest : dest[d].row = r /\
                 \A i \in DOMAIN cols : Same(i, Kept(i, dest[d].fields), rows[r][cols[i].name])
    <3>1. PICK d \in DOMAIN dest : dest[d].row = r /\ dest[d].fields = rows[r]
      BY <2>1 DEF HoldsAll, HasRow, HoldsOnly
    <3>2. ASSUME NEW i \in DOMAIN cols PROVE Same(i, Kept(i, dest[d].fields), rows[r][cols[i].name])
      <4>1. Kept(i, dest[d].fields) = FieldOf(dest[d].fields, cols[i].name)
        BY DEF Kept, Replicates
      <4>2. cols[i].name \in DOMAIN rows[r]
        BY <2>1 DEF RowsOK, RecordOK, ColumnSet
      <4>3. Kept(i, dest[d].fields) = rows[r][cols[i].name]
        BY <3>1, <4>1, <4>2 DEF FieldOf
      <4> QED BY <4>3 DEF Same
    <3> QED BY <3>1, <3>2
  <2> QED BY <2>3, <2>4, <2>5
<1> QED BY <1>1, TransferStart, TransferStep, MirrorStart, MirrorStep, PTL DEF TransferSpec
=============================================================================
