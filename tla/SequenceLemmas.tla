--------------------------- MODULE SequenceLemmas ---------------------------
(***************************************************************************)
(* What the proofs use about sequences: what a push and a pop do to the     *)
(* elements of a queue, induction over numbers and sequences, with a set    *)
(* for the property, and the equations of FlattenSeq.                       *)
(***************************************************************************)
EXTENDS Naturals, Sequences, SequencesExt, SequenceTheorems, WellFoundedInduction, TLAPS

\* There is something in a sequence after a push.
LEMMA AppendNotEmpty ==
  ASSUME NEW S, NEW s \in Seq(S), NEW e \in S
  PROVE  Append(s, e) \in Seq(S) \ {<<>>}
<1>1. Append(s, e) \in Seq(S) /\ Append(s, e) # <<>>
  BY AppendProperties
<1> QED
  BY <1>1

\* A push adds its element and nothing else.
LEMMA RangeOfAppend ==
  ASSUME NEW S, NEW s \in Seq(S), NEW e \in S
  PROVE  Range(Append(s, e)) = Range(s) \cup {e}
<1>1. /\ Append(s, e) \in Seq(S)
      /\ Len(Append(s, e)) = Len(s) + 1
      /\ Append(s, e)[Len(s) + 1] = e
      /\ \A i \in 1..Len(s) : Append(s, e)[i] = s[i]
  OBVIOUS
<1>2. DOMAIN Append(s, e) = (DOMAIN s) \cup {Len(s) + 1}
  BY <1>1
<1> QED
  BY <1>1, <1>2 DEF Range

\* A pop removes the head and keeps the rest.
LEMMA RangeOfTail ==
  ASSUME NEW S, NEW s \in Seq(S), s # <<>>
  PROVE  Range(s) = {Head(s)} \cup Range(Tail(s))
<1>1. /\ Len(s) \in Nat \ {0}
      /\ Head(s) = s[1]
      /\ Tail(s) \in Seq(S)
      /\ Len(Tail(s)) = Len(s) - 1
      /\ \A i \in 1..(Len(s) - 1) : Tail(s)[i] = s[i + 1]
  OBVIOUS
<1>2. /\ Range(s) = {s[i] : i \in 1..Len(s)}
      /\ Range(Tail(s)) = {Tail(s)[j] : j \in 1..(Len(s) - 1)}
  <2>1. DOMAIN s = 1..Len(s) /\ DOMAIN Tail(s) = 1..(Len(s) - 1)
    BY <1>1
  <2> QED
    BY <2>1, Zenon DEF Range
<1>3. ASSUME NEW i \in 1..Len(s), i # 1
      PROVE  s[i] \in {Tail(s)[j] : j \in 1..(Len(s) - 1)}
  <2>1. i - 1 \in 1..(Len(s) - 1) /\ Tail(s)[i - 1] = s[(i - 1) + 1]
    BY <1>1, <1>3
  <2>2. (i - 1) + 1 = i
    BY <1>3
  <2> QED
    BY <2>1, <2>2
<1>4. ASSUME NEW j \in 1..(Len(s) - 1)
      PROVE  Tail(s)[j] \in {s[i] : i \in 1..Len(s)}
  <2>1. j + 1 \in 1..Len(s) /\ Tail(s)[j] = s[j + 1]
    BY <1>1
  <2> QED
    BY <2>1
<1>5. s[1] \in {s[i] : i \in 1..Len(s)}
  BY <1>1
<1> QED
  BY <1>1, <1>2, <1>3, <1>4, <1>5

\* The empty queue is a queue of anything.
LEMMA EmptyQueue ==
  ASSUME NEW S
  PROVE  <<>> \in Seq(S) /\ Len(<<>>) = 0
OBVIOUS

\* No element is in the queue twice.
Distinct(q) == \A i, j \in DOMAIN q : q[i] = q[j] => i = j

\* A push of an element that is not there keeps elements distinct.
LEMMA DistinctAppend ==
  ASSUME NEW S, NEW s \in Seq(S), NEW e \in S, Distinct(s), e \notin Range(s)
  PROVE  Distinct(Append(s, e))
<1>1. /\ Len(s) \in Nat
      /\ Append(s, e)[Len(s) + 1] = e
      /\ \A i \in 1..Len(s) : Append(s, e)[i] = s[i]
      /\ DOMAIN Append(s, e) = 1..(Len(s) + 1)
      /\ DOMAIN s = 1..Len(s)
  OBVIOUS
<1>2. \A i \in 1..Len(s) : s[i] # e
  BY <1>1 DEF Range
<1> QED
  BY <1>1, <1>2 DEF Distinct

\* A pop keeps elements distinct, and the head is not among those left.
LEMMA DistinctTail ==
  ASSUME NEW S, NEW s \in Seq(S), s # <<>>, Distinct(s)
  PROVE  Distinct(Tail(s)) /\ Head(s) \notin Range(Tail(s))
<1>1. /\ Len(s) \in Nat \ {0}
      /\ Head(s) = s[1]
      /\ DOMAIN Tail(s) = 1..(Len(s) - 1)
      /\ DOMAIN s = 1..Len(s)
      /\ \A i \in 1..(Len(s) - 1) : Tail(s)[i] = s[i + 1]
  OBVIOUS
<1>2. Distinct(Tail(s))
  BY <1>1 DEF Distinct
<1>3. \A i \in 1..(Len(s) - 1) : Tail(s)[i] # Head(s)
  BY <1>1 DEF Distinct
<1> QED
  BY <1>1, <1>2, <1>3 DEF Range

-----------------------------------------------------------------------------
(* Induction.  The library's theorems have an operator for the property; a   *)
(* set can be instantiated.                                                  *)

\* A set of naturals with 0 and with the successors of its elements is Nat:
\* else there is a least natural outside, and its predecessor is inside.
LEMMA NatSetInduction ==
  ASSUME NEW S \in SUBSET Nat, 0 \in S, \A n \in S : n + 1 \in S
  PROVE  S = Nat
<1> DEFINE T == Nat \ S
<1>1. SUFFICES ASSUME T # {} PROVE FALSE
  OBVIOUS
<1>2. PICK x \in T : \A y \in T : ~ (<<y, x>> \in OpToRel(<, Nat))
  BY <1>1, NatLessThanWellFounded, WFMin, Zenon
<1>3. \A y \in T : ~ (y < x)
  BY <1>2 DEF OpToRel
<1>4. x - 1 \in Nat
  OBVIOUS
<1>5. x - 1 \in S
  BY <1>3, <1>4
<1> QED
  BY <1>5

\* A set of sequences with the empty one and, of each in it, those with one
\* element more, is Seq(S).
LEMMA SeqSetInduction ==
  ASSUME NEW S, NEW P \in SUBSET Seq(S), <<>> \in P,
         \A s \in P, e \in S : Append(s, e) \in P
  PROVE  P = Seq(S)
<1> DEFINE N == {n \in Nat : \A s \in Seq(S) : Len(s) = n => s \in P}
<1>1. 0 \in N
  OBVIOUS
<1>2. ASSUME NEW n \in N, NEW s \in Seq(S), Len(s) = n + 1
      PROVE  s \in P
  <2>1. s # <<>>
    BY <1>2
  <2>2. PICK u \in Seq(S), e \in S : s = Append(u, e)
    BY <2>1, SequenceEmptyOrAppend
  <2>3. Len(u) = n
    BY <1>2, <2>2
  <2> QED
    BY <2>2, <2>3
<1>3. N = Nat
  <2>1. ASSUME NEW n \in N
        PROVE  n + 1 \in N
    <3>1. \A s \in Seq(S) : Len(s) = n + 1 => s \in P
      BY <1>2
    <3> QED
      BY <3>1
  <2> HIDE DEF N
  <2>2. N \in SUBSET Nat
    BY DEF N
  <2> QED
    BY <1>1, <2>1, <2>2, NatSetInduction
<1>4. \A s \in Seq(S) : Len(s) \in Nat
  OBVIOUS
<1> QED
  BY <1>3, <1>4

\* A sequence that has one element more than another, and else the same, is
\* the other with that element appended.
LEMMA IsAppend ==
  ASSUME NEW S, NEW s \in Seq(S), NEW e \in S, NEW g \in Seq(S),
         Len(g) = Len(s) + 1,
         \A i \in 1..Len(s) : g[i] = s[i],
         g[Len(s) + 1] = e
  PROVE  g = Append(s, e)
<1>1. /\ Append(s, e) \in Seq(S)
      /\ Len(Append(s, e)) = Len(g)
      /\ \A i \in 1..Len(g) : Append(s, e)[i] = g[i]
  OBVIOUS
<1> QED
  BY <1>1, SeqEqual

\* A second element makes a pair.
LEMMA AppendToOne ==
  ASSUME NEW a, NEW b
  PROVE  <<a, b>> = Append(<<a>>, b)
<1> DEFINE S == {a, b}
<1>1. /\ <<a>> \in Seq(S) /\ <<a, b>> \in Seq(S) /\ b \in S
      /\ Len(<<a>>) = 1 /\ Len(<<a, b>>) = 2
      /\ <<a>>[1] = a /\ <<a, b>>[1] = a /\ <<a, b>>[2] = b
  OBVIOUS
<1> QED
  BY <1>1, IsAppend

-----------------------------------------------------------------------------
(* FlattenSeq, by its two equations.                                         *)

\* The function by which FlattenSeq is defined: the first sequences, joined.
IsFlatten(f, seqs) ==
  f = [i \in 1..Len(seqs) |-> IF i = 1 THEN seqs[i] ELSE f[i - 1] \o seqs[i]]

\* It exists, and FlattenSeq is its last value.
LEMMA FlattenIsLast ==
  ASSUME NEW S, NEW seqs \in Seq(Seq(S)), seqs # <<>>
  PROVE  \E f : IsFlatten(f, seqs) /\ FlattenSeq(seqs) = f[Len(seqs)]
<1> DEFINE P == {q \in Seq(Seq(S)) : \E f : IsFlatten(f, q)}
<1>1. <<>> \in P
  <2>1. IsFlatten(<<>>, <<>>)
    BY DEF IsFlatten
  <2> QED
    BY <2>1
<1>2. ASSUME NEW q \in P, NEW t \in Seq(S)
      PROVE  Append(q, t) \in P
  <2>1. PICK f : IsFlatten(f, q)
    OBVIOUS
  <2> DEFINE n == Len(q)
             r == Append(q, t)
             g == [i \in 1..(n + 1) |-> IF i = n + 1
                                        THEN IF n = 0 THEN t ELSE f[n] \o t
                                        ELSE f[i]]
  <2>2. n \in Nat /\ Len(r) = n + 1 /\ r[n + 1] = t /\ \A i \in 1..n : r[i] = q[i]
    OBVIOUS
  <2>3. \A i \in 1..n : f[i] = IF i = 1 THEN q[i] ELSE f[i - 1] \o q[i]
    BY <2>1 DEF IsFlatten
  <2>4. ASSUME NEW i \in 1..(n + 1)
        PROVE  g[i] = IF i = 1 THEN r[i] ELSE g[i - 1] \o r[i]
    <3> HIDE DEF n, r
    <3>1. CASE i = n + 1 /\ n = 0
      BY <2>2, <3>1
    <3>2. CASE i = n + 1 /\ n # 0
      <4>1. n \in 1..(n + 1) /\ n # n + 1 /\ g[n] = f[n]
        BY <2>2, <3>2
      <4>2. i # 1 /\ i - 1 = n
        BY <2>2, <3>2
      <4>3. g[n + 1] = f[n] \o t
        BY <2>2, <3>2
      <4>4. g[i] = f[n] \o t /\ r[i] = t
        BY <2>2, <3>2, <4>3
      <4> HIDE DEF g
      <4> QED
        BY <4>1, <4>2, <4>4
    <3>3. CASE i # n + 1
      <4>1. i \in 1..n /\ (i # 1 => i - 1 \in 1..n)
        BY <2>2, <3>3
      <4>2. g[i] = f[i] /\ (i # 1 => g[i - 1] = f[i - 1])
        BY <2>2, <4>1, <3>3
      <4> QED
        BY <2>2, <2>3, <4>1, <4>2
    <3> QED
      BY <3>1, <3>2, <3>3
  <2>5. IsFlatten(g, r)
    <3>1. g = [i \in 1..(n + 1) |-> IF i = 1 THEN r[i] ELSE g[i - 1] \o r[i]]
      <4> DEFINE h == [i \in 1..(n + 1) |-> IF i = 1 THEN r[i] ELSE g[i - 1] \o r[i]]
      <4>1. \A i \in 1..(n + 1) : g[i] = h[i]
        BY <2>4
      <4> QED
        BY <4>1
    <3> QED
      BY <2>2, <3>1 DEF IsFlatten
  <2>6. r \in Seq(Seq(S))
    OBVIOUS
  <2> QED
    BY <2>5, <2>6
<1>3. \E f : IsFlatten(f, seqs)
  <2> HIDE DEF P
  <2>1. P \in SUBSET Seq(Seq(S))
    BY DEF P
  <2>2. P = Seq(Seq(S))
    BY <1>1, <1>2, <2>1, SeqSetInduction, Zenon
  <2> QED
    BY <2>2 DEF P
<1> DEFINE flatten == CHOOSE f : IsFlatten(f, seqs)
<1>4. IsFlatten(flatten, seqs)
  BY <1>3
<1>5. Len(seqs) # 0
  OBVIOUS
<1>6. FlattenSeq(seqs) = flatten[Len(seqs)]
  BY <1>5, Zenon DEF FlattenSeq, IsFlatten
<1> QED
  BY <1>4, <1>6

\* Of no sequences FlattenSeq makes the empty one.
LEMMA FlattenEmpty == FlattenSeq(<<>>) = <<>>
BY DEF FlattenSeq

\* With one sequence more, FlattenSeq has that one behind what it had.
LEMMA FlattenAppend ==
  ASSUME NEW S, NEW seqs \in Seq(Seq(S)), NEW t \in Seq(S)
  PROVE  FlattenSeq(Append(seqs, t)) = FlattenSeq(seqs) \o t
<1>1. FlattenSeq(<<>>) = <<>>
  BY FlattenEmpty
<1> DEFINE n == Len(seqs)
           r == Append(seqs, t)
<1>2. /\ n \in Nat /\ Len(r) = n + 1 /\ r[n + 1] = t
      /\ \A i \in 1..n : r[i] = seqs[i]
      /\ r \in Seq(Seq(S)) /\ r # <<>>
      /\ n = 0 <=> seqs = <<>>
  OBVIOUS
<1>3. PICK g : IsFlatten(g, r) /\ FlattenSeq(r) = g[n + 1]
  BY <1>2, FlattenIsLast
<1>4. \A i \in 1..(n + 1) : g[i] = IF i = 1 THEN r[i] ELSE g[i - 1] \o r[i]
  BY <1>2, <1>3 DEF IsFlatten
<1>5. CASE n = 0
  <2>1. FlattenSeq(r) = t
    BY <1>2, <1>3, <1>4, <1>5
  <2>2. <<>> \o t = t
    OBVIOUS
  <2> QED
    BY <1>1, <1>2, <1>5, <2>1, <2>2
<1>6. CASE n # 0
  <2>1. PICK f : IsFlatten(f, seqs) /\ FlattenSeq(seqs) = f[n]
    BY <1>2, <1>6, FlattenIsLast
  <2>2. \A i \in 1..n : f[i] = IF i = 1 THEN seqs[i] ELSE f[i - 1] \o seqs[i]
    BY <2>1 DEF IsFlatten
  <2> DEFINE N == {k \in Nat : k + 1 \in 1..n => g[k + 1] = f[k + 1]}
  <2> HIDE DEF n, r
  <2>3. 0 \in N
    BY <1>2, <1>4, <2>2
  <2>4. ASSUME NEW k \in N
        PROVE  k + 1 \in N
    <3> SUFFICES ASSUME k + 2 \in 1..n
                 PROVE  g[k + 2] = f[k + 2]
      OBVIOUS
    <3>1. k \in Nat /\ k + 1 \in 1..n /\ k + 2 # 1 /\ k + 2 \in 1..(n + 1)
          /\ (k + 2) - 1 = k + 1
      BY <1>2
    <3>2. g[k + 1] = f[k + 1]
      BY <3>1
    <3> QED
      BY <1>2, <1>4, <2>2, <3>1, <3>2
  <2>5. N = Nat
    <3> HIDE DEF N
    <3>1. N \in SUBSET Nat
      BY DEF N
    <3> QED
      BY <2>3, <2>4, <3>1, NatSetInduction
  <2>6. n - 1 \in N /\ n \in 1..n /\ (n - 1) + 1 = n
    <3>1. n - 1 \in Nat /\ n \in 1..n /\ (n - 1) + 1 = n
      BY <1>2, <1>6
    <3> HIDE DEF N
    <3> QED
      BY <2>5, <3>1
  <2>7. g[n] = f[n]
    BY <2>6
  <2>8. g[n + 1] = g[n] \o t
    <3>1. n + 1 \in 1..(n + 1) /\ n + 1 # 1 /\ (n + 1) - 1 = n
      BY <1>2, <1>6
    <3> QED
      BY <1>2, <1>4, <3>1
  <2> QED
    BY <1>1, <1>3, <2>1, <2>7, <2>8 DEF r
<1> QED
  BY <1>5, <1>6

\* The sequence that FlattenSeq makes is of the same elements.
LEMMA FlattenType ==
  ASSUME NEW S, NEW seqs \in Seq(Seq(S))
  PROVE  FlattenSeq(seqs) \in Seq(S)
<1> DEFINE P == {q \in Seq(Seq(S)) : FlattenSeq(q) \in Seq(S)}
<1>1. <<>> \in P
  <2>1. <<>> \in Seq(S) /\ <<>> \in Seq(Seq(S))
    OBVIOUS
  <2> QED
    BY <2>1, FlattenEmpty, Zenon
<1>2. ASSUME NEW q \in P, NEW t \in Seq(S)
      PROVE  Append(q, t) \in P
  <2>1. FlattenSeq(Append(q, t)) = FlattenSeq(q) \o t
    BY FlattenAppend
  <2>2. Append(q, t) \in Seq(Seq(S)) /\ FlattenSeq(q) \o t \in Seq(S)
    OBVIOUS
  <2> QED
    BY <2>1, <2>2
<1>3. P = Seq(Seq(S))
  <2> HIDE DEF P
  <2>1. P \in SUBSET Seq(Seq(S))
    BY DEF P
  <2> QED
    BY <1>1, <1>2, <2>1, SeqSetInduction, Zenon
<1> QED
  BY <1>3

\* f has the sequences one behind the other, each of length k.
InBlocks(f, seqs, k) ==
  /\ Len(f) = k * Len(seqs)
  /\ \A i \in 1..Len(seqs), j \in 1..k : f[k * (i - 1) + j] = seqs[i][j]

\* Of sequences that have the same length, element j of the i-th one comes
\* at k * (i - 1) + j.
LEMMA FlattenBlocks ==
  ASSUME NEW S, NEW k \in Nat, NEW seqs \in Seq(Seq(S)),
         \A i \in 1..Len(seqs) : Len(seqs[i]) = k
  PROVE  InBlocks(FlattenSeq(seqs), seqs, k)
<1> DEFINE Blocks(q) == \A i \in 1..Len(q) : Len(q[i]) = k
           P == {q \in Seq(Seq(S)) : Blocks(q) => InBlocks(FlattenSeq(q), q, k)}
<1>1. <<>> \in P
  <2>1. <<>> \in Seq(Seq(S)) /\ Len(<<>>) = 0 /\ k * 0 = 0
    OBVIOUS
  <2>2. Len(FlattenSeq(<<>>)) = 0
    BY FlattenEmpty, <2>1, Zenon
  <2> QED
    BY <2>1, <2>2 DEF InBlocks
<1>2. ASSUME NEW q \in P, NEW t \in Seq(S)
      PROVE  Append(q, t) \in P
  <2> DEFINE r == Append(q, t)
             n == Len(q)
             f == FlattenSeq(q)
  <2>1. /\ n \in Nat /\ Len(r) = n + 1 /\ r[n + 1] = t
        /\ \A i \in 1..n : r[i] = q[i] /\ r[i] \in Seq(S)
        /\ r \in Seq(Seq(S))
    OBVIOUS
  <2> SUFFICES ASSUME Blocks(r)
               PROVE  InBlocks(FlattenSeq(r), r, k)
    BY <2>1
  <2>2. Len(t) = k /\ Blocks(q)
    BY <2>1
  <2>3. f \in Seq(S) /\ FlattenSeq(r) = f \o t
    BY FlattenType, FlattenAppend
  <2>4. Len(f) = k * n /\ \A i \in 1..n, j \in 1..k : f[k * (i - 1) + j] = q[i][j]
    BY <2>2 DEF InBlocks
  <2> HIDE DEF r, n, f
  <2>5. /\ f \o t \in Seq(S)
        /\ Len(f \o t) = Len(f) + Len(t)
        /\ \A i \in 1..(Len(f) + Len(t)) :
             (f \o t)[i] = IF i <= Len(f) THEN f[i] ELSE t[i - Len(f)]
    BY <2>3, ConcatProperties
  <2>6. Len(FlattenSeq(r)) = k * Len(r)
    <3>1. k * (n + 1) = k * n + k
      BY <2>1
    <3> QED
      BY <2>1, <2>2, <2>3, <2>4, <2>5, <3>1
  <2>7. ASSUME NEW i \in 1..Len(r), NEW j \in 1..k
        PROVE  FlattenSeq(r)[k * (i - 1) + j] = r[i][j]
    <3> DEFINE at == k * (i - 1) + j
    <3>1. CASE i = n + 1
      <4>1. at = k * n + j
        BY <2>1, <3>1
      <4>2. at \in 1..(Len(f) + Len(t)) /\ ~(at <= Len(f)) /\ at - Len(f) = j
        <5>1. k * n \in Nat
          BY <2>1
        <5> HIDE DEF at
        <5> QED
          BY <2>2, <2>4, <4>1, <5>1
      <4> HIDE DEF at
      <4>3. (f \o t)[at] = t[j]
        BY <2>5, <4>2
      <4> QED
        BY <2>1, <2>3, <3>1, <4>3 DEF at
    <3>2. CASE i # n + 1
      <4>1. i \in 1..n
        BY <2>1, <3>2
      <4>2. at >= 1 /\ at <= k * n
        <5>1. i - 1 \in Nat /\ n - i \in Nat
          BY <2>1, <4>1
        <5>2. k * (i - 1) \in Nat /\ k * (n - i) \in Nat
          BY <5>1
        <5>3. k * n = k * (i - 1) + k * (n - i) + k
          BY <2>1, <4>1
        <5> DEFINE a == k * (i - 1)
                   b == k * (n - i)
                   c == k * n
        <5>4. a \in Nat /\ b \in Nat /\ c = a + b + k /\ at = a + j
          BY <5>2, <5>3
        <5> HIDE DEF a, b, c, at
        <5>5. at >= 1 /\ at <= c
          BY <5>4
        <5> QED
          BY <5>5 DEF c
      <4>3. at \in Int
        BY <4>1
      <4>4. Len(f) \in Nat /\ Len(t) \in Nat
        BY <2>2, <2>3
      <4>5. (f \o t)[at] = f[at]
        <5> HIDE DEF at
        <5>1. at \in 1..(Len(f) + Len(t)) /\ at <= Len(f)
          BY <2>4, <4>2, <4>3, <4>4
        <5> QED
          BY <2>5, <5>1
      <4>6. f[at] = q[i][j]
        BY <2>4, <4>1
      <4> QED
        BY <2>1, <2>3, <4>1, <4>5, <4>6
    <3> QED
      BY <3>1, <3>2
  <2> QED
    BY <2>6, <2>7 DEF InBlocks
<1>3. P = Seq(Seq(S))
  <2> HIDE DEF P
  <2>1. P \in SUBSET Seq(Seq(S))
    BY DEF P
  <2> QED
    BY <1>1, <1>2, <2>1, SeqSetInduction, Zenon
<1> QED
  BY <1>3
=============================================================================
