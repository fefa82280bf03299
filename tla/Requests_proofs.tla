--------------------------- MODULE Requests_proofs ---------------------------
(***************************************************************************)
(* Theorems about Requests: what the server reads of a target is what was   *)
(* asked for, for texts, parameters and streams of any number and length.   *)
(*                                                                          *)
(* The functions that read a text are defined by recursion, and proved by   *)
(* induction over it, with a set for the property: SplitAppend says what    *)
(* Split makes of one byte more, SplitJoined that it undoes Joined,         *)
(* DecodedEncoded for which values decoding undoes urlEncode, ReadAround    *)
(* what stands before and after a byte.  IsTarget is what every target is;  *)
(* TargetRead reads it if the texts can stand in a query, SignatureRead     *)
(* reads the signature of any.                                              *)
(***************************************************************************)
EXTENDS Requests, SequenceLemmas

Byte == 0..255

Text == Seq(Byte)

\* The function by which Split is defined: what the first n bytes are split into.
IsSplit(f, s, byte) ==
  f = [n \in 0..Len(s) |-> IF n = 0 THEN <<<<>>>> ELSE Put(f[n - 1], s[n], byte)]

\* It exists, and Split is its last value.
LEMMA SplitIsLast ==
  ASSUME NEW s \in Text, NEW byte
  PROVE  \E f : IsSplit(f, s, byte) /\ Split(s, byte) = f[Len(s)]
<1> DEFINE P == {q \in Text : \E f : IsSplit(f, q, byte)}
<1>1. <<>> \in P
  <2> DEFINE f == [n \in 0..0 |-> <<<<>>>>]
  <2>1. IsSplit(f, <<>>, byte)
    BY DEF IsSplit
  <2> QED
    BY <2>1 DEF Text
<1>2. ASSUME NEW q \in P, NEW b \in Byte
      PROVE  Append(q, b) \in P
  <2>1. PICK f : IsSplit(f, q, byte)
    OBVIOUS
  <2> DEFINE k == Len(q)
             r == Append(q, b)
             g == [n \in 0..(k + 1) |-> IF n = k + 1 THEN Put(f[k], b, byte) ELSE f[n]]
  <2>2. /\ k \in Nat /\ Len(r) = k + 1 /\ r[k + 1] = b /\ \A n \in 1..k : r[n] = q[n]
        /\ r \in Text
    BY DEF Text
  <2>3. \A n \in 0..k : f[n] = IF n = 0 THEN <<<<>>>> ELSE Put(f[n - 1], q[n], byte)
    BY <2>1 DEF IsSplit
  <2>4. ASSUME NEW n \in 0..(k + 1)
        PROVE  g[n] = IF n = 0 THEN <<<<>>>> ELSE Put(g[n - 1], r[n], byte)
    <3> HIDE DEF k, r
    <3>1. CASE n = k + 1
      <4>1. n # 0 /\ n - 1 \in 0..(k + 1) /\ n - 1 # k + 1 /\ n - 1 = k
        BY <2>2, <3>1
      <4>2. g[n - 1] = f[k] /\ g[n] = Put(f[k], b, byte)
        BY <2>2, <3>1, <4>1
      <4> HIDE DEF g
      <4> QED
        BY <2>2, <3>1, <4>1, <4>2
    <3>2. CASE n # k + 1
      <4>1. n \in 0..k /\ (n # 0 => n - 1 \in 0..k /\ n \in 1..k)
        BY <2>2, <3>2
      <4>2. g[n] = f[n] /\ (n # 0 => g[n - 1] = f[n - 1])
        BY <2>2, <4>1, <3>2
      <4> HIDE DEF g
      <4> QED
        BY <2>2, <2>3, <4>1, <4>2
    <3> QED
      BY <3>1, <3>2
  <2>5. IsSplit(g, r, byte)
    <3> DEFINE h == [n \in 0..(k + 1) |->
                       IF n = 0 THEN <<<<>>>> ELSE Put(g[n - 1], r[n], byte)]
    <3>1. g = h
      BY <2>4
    <3> QED
      BY <2>2, <3>1 DEF IsSplit
  <2> QED
    BY <2>2, <2>5
<1>3. \E f : IsSplit(f, s, byte)
  <2> HIDE DEF P
  <2>1. P \in SUBSET Seq(Byte)
    BY DEF P, Text
  <2>2. P = Seq(Byte)
    BY <1>1, <1>2, <2>1, SeqSetInduction, Zenon
  <2> QED
    BY <2>2 DEF P, Text
<1> DEFINE parts == CHOOSE f : IsSplit(f, s, byte)
<1>4. IsSplit(parts, s, byte)
  BY <1>3
<1>5. Split(s, byte) = parts[Len(s)]
  BY Zenon DEF Split, IsSplit
<1> QED
  BY <1>4, <1>5

\* No byte makes one empty part, and each further byte is Put to the parts.
LEMMA SplitEmpty ==
  ASSUME NEW byte
  PROVE  Split(<<>>, byte) = <<<<>>>>
<1>1. <<>> \in Text /\ Len(<<>>) = 0
  BY DEF Text
<1>2. PICK f : IsSplit(f, <<>>, byte) /\ Split(<<>>, byte) = f[0]
  BY <1>1, SplitIsLast
<1> QED
  BY <1>1, <1>2 DEF IsSplit

\* The next byte goes to the last part or begins another.
LEMMA SplitAppend ==
  ASSUME NEW s \in Text, NEW b \in Byte, NEW byte
  PROVE  Split(Append(s, b), byte) = Put(Split(s, byte), b, byte)
<1> DEFINE k == Len(s)
           r == Append(s, b)
<1>1. /\ k \in Nat /\ Len(r) = k + 1 /\ r[k + 1] = b /\ \A n \in 1..k : r[n] = s[n]
      /\ r \in Text
  BY DEF Text
<1>2. PICK f : IsSplit(f, s, byte) /\ Split(s, byte) = f[k]
  BY SplitIsLast
<1>3. PICK g : IsSplit(g, r, byte) /\ Split(r, byte) = g[k + 1]
  BY <1>1, SplitIsLast
<1>4. /\ \A n \in 0..k : f[n] = IF n = 0 THEN <<<<>>>> ELSE Put(f[n - 1], s[n], byte)
      /\ \A n \in 0..(k + 1) : g[n] = IF n = 0 THEN <<<<>>>> ELSE Put(g[n - 1], r[n], byte)
  BY <1>1, <1>2, <1>3 DEF IsSplit
<1> HIDE DEF k, r
<1> DEFINE N == {n \in Nat : n \in 0..k => g[n] = f[n]}
<1>5. 0 \in N
  BY <1>1, <1>4
<1>6. ASSUME NEW n \in N
      PROVE  n + 1 \in N
  <2> SUFFICES ASSUME n + 1 \in 0..k PROVE g[n + 1] = f[n + 1]
    OBVIOUS
  <2>1. /\ n \in 0..k /\ n + 1 # 0 /\ (n + 1) - 1 = n /\ n + 1 \in 1..k
        /\ n + 1 \in 0..(k + 1)
    BY <1>1
  <2>2. g[n] = f[n] /\ r[n + 1] = s[n + 1]
    BY <1>1, <2>1
  <2>3. f[n + 1] = Put(f[n], s[n + 1], byte)
    BY <1>4, <2>1
  <2>4. g[n + 1] = Put(g[n], r[n + 1], byte)
    BY <1>4, <2>1
  <2> QED
    BY <2>2, <2>3, <2>4
<1>7. k \in N
  <2> HIDE DEF N
  <2>1. N \in SUBSET Nat
    BY DEF N
  <2> QED
    BY <1>1, <1>5, <1>6, <2>1, NatSetInduction
<1>8. g[k] = f[k] /\ k + 1 \in 0..(k + 1) /\ k + 1 # 0 /\ (k + 1) - 1 = k
  BY <1>1, <1>7
<1>9. g[k + 1] = Put(g[k], r[k + 1], byte)
  BY <1>4, <1>8
<1> QED
  BY <1>1, <1>2, <1>3, <1>8, <1>9 DEF r
\* The function by which Decoding is defined: what the first n bytes are read as.
IsRead(f, s) ==
  f = [n \in 0..Len(s) |-> IF n = 0 THEN ReadNothing ELSE Read(f[n - 1], s[n])]

\* It exists, and Decoding is its last value.
LEMMA DecodingIsLast ==
  ASSUME NEW s \in Text
  PROVE  \E f : IsRead(f, s) /\ Decoding(s) = f[Len(s)]
<1> DEFINE P == {q \in Text : \E f : IsRead(f, q)}
<1>1. <<>> \in P
  <2> DEFINE f == [n \in 0..0 |-> ReadNothing]
  <2>1. IsRead(f, <<>>)
    BY DEF IsRead
  <2> QED
    BY <2>1 DEF Text
<1>2. ASSUME NEW q \in P, NEW b \in Byte
      PROVE  Append(q, b) \in P
  <2>1. PICK f : IsRead(f, q)
    OBVIOUS
  <2> DEFINE k == Len(q)
             r == Append(q, b)
             g == [n \in 0..(k + 1) |-> IF n = k + 1 THEN Read(f[k], b) ELSE f[n]]
  <2>2. /\ k \in Nat /\ Len(r) = k + 1 /\ r[k + 1] = b /\ \A n \in 1..k : r[n] = q[n]
        /\ r \in Text
    BY DEF Text
  <2>3. \A n \in 0..k : f[n] = IF n = 0 THEN ReadNothing ELSE Read(f[n - 1], q[n])
    BY <2>1 DEF IsRead
  <2>4. ASSUME NEW n \in 0..(k + 1)
        PROVE  g[n] = IF n = 0 THEN ReadNothing ELSE Read(g[n - 1], r[n])
    <3> HIDE DEF k, r
    <3>1. CASE n = k + 1
      <4>1. n # 0 /\ n - 1 \in 0..(k + 1) /\ n - 1 # k + 1 /\ n - 1 = k
        BY <2>2, <3>1
      <4>2. g[n - 1] = f[k] /\ g[n] = Read(f[k], b)
        BY <2>2, <3>1, <4>1
      <4> HIDE DEF g
      <4> QED
        BY <2>2, <3>1, <4>1, <4>2
    <3>2. CASE n # k + 1
      <4>1. n \in 0..k /\ (n # 0 => n - 1 \in 0..k /\ n \in 1..k)
        BY <2>2, <3>2
      <4>2. g[n] = f[n] /\ (n # 0 => g[n - 1] = f[n - 1])
        BY <2>2, <4>1, <3>2
      <4> HIDE DEF g
      <4> QED
        BY <2>2, <2>3, <4>1, <4>2
    <3> QED
      BY <3>1, <3>2
  <2>5. IsRead(g, r)
    <3> DEFINE h == [n \in 0..(k + 1) |->
                       IF n = 0 THEN ReadNothing ELSE Read(g[n - 1], r[n])]
    <3>1. g = h
      BY <2>4
    <3> QED
      BY <2>2, <3>1 DEF IsRead
  <2> QED
    BY <2>2, <2>5
<1>3. \E f : IsRead(f, s)
  <2> HIDE DEF P
  <2>1. P \in SUBSET Seq(Byte)
    BY DEF P, Text
  <2>2. P = Seq(Byte)
    BY <1>1, <1>2, <2>1, SeqSetInduction, Zenon
  <2> QED
    BY <2>2 DEF P, Text
<1> DEFINE reading == CHOOSE f : IsRead(f, s)
<1>4. IsRead(reading, s)
  BY <1>3
<1>5. Decoding(s) = reading[Len(s)]
  BY Zenon DEF Decoding, IsRead
<1> QED
  BY <1>4, <1>5

\* No byte is read as nothing, and each further byte is Read after the others.
LEMMA DecodingEmpty == Decoding(<<>>) = ReadNothing
<1>1. <<>> \in Text /\ Len(<<>>) = 0
  BY DEF Text
<1>2. PICK f : IsRead(f, <<>>) /\ Decoding(<<>>) = f[0]
  BY <1>1, DecodingIsLast
<1> QED
  BY <1>1, <1>2 DEF IsRead

\* The next byte is read after all before it.
LEMMA DecodingAppend ==
  ASSUME NEW s \in Text, NEW b \in Byte
  PROVE  Decoding(Append(s, b)) = Read(Decoding(s), b)
<1> DEFINE k == Len(s)
           r == Append(s, b)
<1>1. /\ k \in Nat /\ Len(r) = k + 1 /\ r[k + 1] = b /\ \A n \in 1..k : r[n] = s[n]
      /\ r \in Text
  BY DEF Text
<1>2. PICK f : IsRead(f, s) /\ Decoding(s) = f[k]
  BY DecodingIsLast
<1>3. PICK g : IsRead(g, r) /\ Decoding(r) = g[k + 1]
  BY <1>1, DecodingIsLast
<1>4. /\ \A n \in 0..k : f[n] = IF n = 0 THEN ReadNothing ELSE Read(f[n - 1], s[n])
      /\ \A n \in 0..(k + 1) : g[n] = IF n = 0 THEN ReadNothing ELSE Read(g[n - 1], r[n])
  BY <1>1, <1>2, <1>3 DEF IsRead
<1> HIDE DEF k, r
<1> DEFINE N == {n \in Nat : n \in 0..k => g[n] = f[n]}
<1>5. 0 \in N
  BY <1>1, <1>4
<1>6. ASSUME NEW n \in N
      PROVE  n + 1 \in N
  <2> SUFFICES ASSUME n + 1 \in 0..k PROVE g[n + 1] = f[n + 1]
    OBVIOUS
  <2>1. /\ n \in 0..k /\ n + 1 # 0 /\ (n + 1) - 1 = n /\ n + 1 \in 1..k
        /\ n + 1 \in 0..(k + 1)
    BY <1>1
  <2>2. g[n] = f[n] /\ r[n + 1] = s[n + 1]
    BY <1>1, <2>1
  <2>3. f[n + 1] = Read(f[n], s[n + 1])
    BY <1>4, <2>1
  <2>4. g[n + 1] = Read(g[n], r[n + 1])
    BY <1>4, <2>1
  <2> QED
    BY <2>2, <2>3, <2>4
<1>7. k \in N
  <2> HIDE DEF N
  <2>1. N \in SUBSET Nat
    BY DEF N
  <2> QED
    BY <1>1, <1>5, <1>6, <2>1, NatSetInduction
<1>8. g[k] = f[k] /\ k + 1 \in 0..(k + 1) /\ k + 1 # 0 /\ (k + 1) - 1 = k
  BY <1>1, <1>7
<1>9. g[k + 1] = Read(g[k], r[k + 1])
  BY <1>4, <1>8
<1> QED
  BY <1>1, <1>2, <1>3, <1>8, <1>9 DEF r

-----------------------------------------------------------------------------
(* What Split makes of a text that is joined of parts.                       *)

\* The byte is not in the text.
Lacks(s, byte) == \A i \in DOMAIN s : s[i] # byte

\* Two texts without a byte are one without it.
LEMMA LacksConcat ==
  ASSUME NEW s \in Text, NEW u \in Text, NEW byte, Lacks(s, byte), Lacks(u, byte)
  PROVE  s \o u \in Text /\ Lacks(s \o u, byte)
<1>1. /\ s \o u \in Seq(Byte)
      /\ Len(s \o u) = Len(s) + Len(u)
      /\ \A i \in 1..(Len(s) + Len(u)) :
           (s \o u)[i] = IF i <= Len(s) THEN s[i] ELSE u[i - Len(s)]
  BY ConcatProperties DEF Text
<1>2. /\ DOMAIN s = 1..Len(s) /\ DOMAIN u = 1..Len(u)
      /\ DOMAIN (s \o u) = 1..(Len(s) + Len(u))
      /\ Len(s) \in Nat /\ Len(u) \in Nat
  BY <1>1 DEF Text
<1> DEFINE v == s \o u
<1> HIDE DEF v
<1>3. ASSUME NEW i \in DOMAIN v
      PROVE  v[i] # byte
  <2>1. i \in 1..(Len(s) + Len(u))
    BY <1>2 DEF v
  <2>2. CASE i <= Len(s)
    BY <1>1, <1>2, <2>1, <2>2 DEF v, Lacks
  <2>3. CASE ~(i <= Len(s))
    <3>1. i - Len(s) \in 1..Len(u)
      BY <1>2, <2>1, <2>3
    <3> QED
      BY <1>1, <1>2, <2>1, <2>3, <3>1 DEF v, Lacks
  <2> QED
    BY <2>2, <2>3
<1> QED
  BY <1>1, <1>3 DEF v, Lacks, Text

\* Nor has the text before its last byte what the whole one lacks.
LEMMA LacksAppend ==
  ASSUME NEW s \in Text, NEW b \in Byte, NEW byte, Lacks(Append(s, b), byte)
  PROVE  Lacks(s, byte) /\ b # byte
<1>1. /\ DOMAIN s = 1..Len(s) /\ Len(s) \in Nat
      /\ DOMAIN Append(s, b) = 1..(Len(s) + 1)
      /\ Append(s, b)[Len(s) + 1] = b
      /\ \A i \in 1..Len(s) : Append(s, b)[i] = s[i]
  BY DEF Text
<1> QED
  BY <1>1 DEF Lacks

\* A byte that does not split goes to the end of the last part.
LEMMA PutLast ==
  ASSUME NEW parts \in Seq(Text), NEW u \in Text, NEW b \in Byte, NEW byte, b # byte
  PROVE  Put(Append(parts, u), b, byte) = Append(parts, Append(u, b))
<1> DEFINE n == Len(parts)
           p == Append(parts, u)
           v == Append(u, b)
<1>1. /\ n \in Nat /\ Len(p) = n + 1 /\ p[n + 1] = u /\ \A i \in 1..n : p[i] = parts[i]
      /\ p \in Seq(Text) /\ v \in Text
  BY DEF Text
<1>2. Put(p, b, byte) = [p EXCEPT ![n + 1] = Append(p[n + 1], b)]
  BY <1>1 DEF Put
<1> DEFINE q == Append(parts, v)
<1>3. q \in Seq(Text) /\ Len(q) = n + 1 /\ q[n + 1] = v /\ \A i \in 1..n : q[i] = parts[i]
  BY <1>1
<1>4. [p EXCEPT ![n + 1] = Append(p[n + 1], b)] = [p EXCEPT ![n + 1] = v]
  BY <1>1
<1> HIDE DEF n, p, q, v
<1> DEFINE e == [p EXCEPT ![n + 1] = v]
<1>5. e \in Seq(Text) /\ Len(e) = n + 1 /\ \A i \in 1..(n + 1) : e[i] = q[i]
  BY <1>1, <1>3
<1> HIDE DEF e
<1>6. e = q
  BY <1>3, <1>5, SeqEqual
<1> QED
  BY <1>2, <1>4, <1>6 DEF e, p, q, v

\* There is always a last part.
LEMMA SplitType ==
  ASSUME NEW s \in Text, NEW byte
  PROVE  Split(s, byte) \in Seq(Text) \ {<<>>}
<1> DEFINE P == {q \in Text : Split(q, byte) \in Seq(Text) \ {<<>>}}
<1>1. <<>> \in P
  <2>1. <<>> \in Text /\ <<<<>>>> \in Seq(Text) \ {<<>>}
    BY DEF Text
  <2> QED
    BY <2>1, SplitEmpty
<1>2. ASSUME NEW q \in P, NEW b \in Byte
      PROVE  Append(q, b) \in P
  <2> DEFINE parts == Split(q, byte)
  <2>1. Append(q, b) \in Text /\ parts \in Seq(Text) \ {<<>>} /\ q \in Text
    BY DEF Text
  <2>2. Split(Append(q, b), byte) = Put(parts, b, byte)
    BY <2>1, SplitAppend
  <2> HIDE DEF parts
  <2>3. CASE b = byte
    <3>1. Put(parts, b, byte) = Append(parts, <<>>) /\ <<>> \in Text
      BY <2>3 DEF Put, Text
    <3>2. Append(parts, <<>>) \in Seq(Text) \ {<<>>}
      BY <2>1, <3>1
    <3> QED
      BY <2>1, <2>2, <3>1, <3>2
  <2>4. CASE b # byte
    <3>1. PICK p \in Seq(Text), u \in Text : parts = Append(p, u)
      BY <2>1, SequenceEmptyOrAppend
    <3>2. Put(parts, b, byte) = Append(p, Append(u, b))
      BY <2>4, <3>1, PutLast
    <3>3. Append(u, b) \in Text
      BY DEF Text
    <3>4. Append(p, Append(u, b)) \in Seq(Text) \ {<<>>}
      <4> DEFINE v == Append(u, b)
      <4>1. v \in Text
        BY <3>3
      <4> HIDE DEF v
      <4>2. Append(p, v) \in Seq(Text) \ {<<>>}
        BY <4>1, AppendNotEmpty, Zenon
      <4> QED
        BY <4>2 DEF v
    <3> QED
      BY <2>1, <2>2, <3>2, <3>4
  <2> QED
    BY <2>3, <2>4
<1>3. P = Seq(Byte)
  <2> HIDE DEF P
  <2>1. P \in SUBSET Seq(Byte)
    BY DEF P, Text
  <2> QED
    BY <1>1, <1>2, <2>1, SeqSetInduction, Zenon
<1> QED
  BY <1>3 DEF Text

\* A text without the byte is one part.
LEMMA SplitNone ==
  ASSUME NEW s \in Text, NEW byte, Lacks(s, byte)
  PROVE  Split(s, byte) = <<s>>
<1> DEFINE P == {q \in Text : Lacks(q, byte) => Split(q, byte) = <<q>>}
<1>1. <<>> \in P
  BY SplitEmpty DEF Text
<1>2. ASSUME NEW q \in P, NEW b \in Byte
      PROVE  Append(q, b) \in P
  <2>1. q \in Text /\ Append(q, b) \in Text
    BY DEF Text
  <2> SUFFICES ASSUME Lacks(Append(q, b), byte)
               PROVE  Split(Append(q, b), byte) = <<Append(q, b)>>
    BY <2>1
  <2>2. Lacks(q, byte) /\ b # byte
    BY <2>1, LacksAppend
  <2>3. Split(q, byte) = <<q>>
    BY <2>2
  <2>4. Split(Append(q, b), byte) = Put(<<q>>, b, byte)
    BY <2>1, <2>3, SplitAppend
  <2>5. <<>> \in Seq(Text) /\ <<q>> = Append(<<>>, q)
        /\ <<Append(q, b)>> = Append(<<>>, Append(q, b))
    BY <2>1
  <2>6. Put(Append(<<>>, q), b, byte) = Append(<<>>, Append(q, b))
    BY <2>1, <2>2, <2>5, PutLast
  <2> QED
    BY <2>4, <2>5, <2>6
<1>3. P = Seq(Byte)
  <2> HIDE DEF P
  <2>1. P \in SUBSET Seq(Byte)
    BY DEF P, Text
  <2> QED
    BY <1>1, <1>2, <2>1, SeqSetInduction, Zenon
<1> QED
  BY <1>3 DEF Text

\* What follows the byte, and does not have it, is one part more.
LEMMA SplitMore ==
  ASSUME NEW s \in Text, NEW byte \in Byte, NEW u \in Text, Lacks(u, byte)
  PROVE  Split(s \o <<byte>> \o u, byte) = Append(Split(s, byte), u)
<1> DEFINE front == s \o <<byte>>
           P == {q \in Text : Lacks(q, byte) =>
                               Split(front \o q, byte) = Append(Split(s, byte), q)}
<1>1. front = Append(s, byte) /\ front \in Text
  BY DEF Text
<1>2. Split(front, byte) = Append(Split(s, byte), <<>>)
  BY <1>1, SplitAppend DEF Put
<1> HIDE DEF front
<1>3. <<>> \in P
  <2>1. front \o <<>> = front /\ <<>> \in Text
    BY <1>1 DEF Text
  <2> QED
    BY <1>2, <2>1
<1>4. ASSUME NEW q \in P, NEW b \in Byte
      PROVE  Append(q, b) \in P
  <2>1. q \in Text /\ Append(q, b) \in Text
    BY DEF Text
  <2> SUFFICES ASSUME Lacks(Append(q, b), byte)
               PROVE  Split(front \o Append(q, b), byte) = Append(Split(s, byte), Append(q, b))
    BY <2>1
  <2>2. Lacks(q, byte) /\ b # byte
    BY <2>1, LacksAppend
  <2>3. Split(front \o q, byte) = Append(Split(s, byte), q)
    BY <2>2
  <2>4. front \o Append(q, b) = Append(front \o q, b) /\ front \o q \in Text
    BY <1>1, <2>1 DEF Text
  <2>5. Split(front \o Append(q, b), byte) = Put(Append(Split(s, byte), q), b, byte)
    <3> DEFINE v == front \o q
    <3>1. v \in Text /\ Split(Append(v, b), byte) = Put(Split(v, byte), b, byte)
      BY <2>4, SplitAppend
    <3> QED
      BY <2>3, <2>4, <3>1
  <2>6. Split(s, byte) \in Seq(Text)
    BY SplitType
  <2> QED
    BY <2>1, <2>2, <2>5, <2>6, PutLast
<1>5. P = Seq(Byte)
  <2> HIDE DEF P
  <2>1. P \in SUBSET Seq(Byte)
    BY DEF P, Text
  <2> QED
    BY <1>3, <1>4, <2>1, SeqSetInduction, Zenon
<1> QED
  BY <1>5 DEF Text, front


\* The parts, each with the byte behind it, one behind the other.
Joined(parts, byte) == FlattenSeq([i \in DOMAIN parts |-> parts[i] \o <<byte>>])

\* Of no parts nothing is joined.
LEMMA JoinedEmpty ==
  ASSUME NEW byte
  PROVE  Joined(<<>>, byte) = <<>>
<1>1. [i \in DOMAIN <<>> |-> <<>>[i] \o <<byte>>] = <<>>
  OBVIOUS
<1> QED
  BY <1>1, FlattenEmpty DEF Joined

\* The last part and its separator come behind the others.
LEMMA JoinedAppend ==
  ASSUME NEW byte \in Byte, NEW parts \in Seq(Text), NEW part \in Text
  PROVE  /\ Joined(Append(parts, part), byte) = (Joined(parts, byte) \o part) \o <<byte>>
         /\ Joined(parts, byte) \in Text
<1> DEFINE f == [i \in DOMAIN parts |-> parts[i] \o <<byte>>]
           p == Append(parts, part)
           g == [i \in DOMAIN p |-> p[i] \o <<byte>>]
           last == part \o <<byte>>
           n == Len(parts)
<1>1. /\ n \in Nat /\ DOMAIN parts = 1..n /\ DOMAIN p = 1..(n + 1)
      /\ p[n + 1] = part /\ \A i \in 1..n : p[i] = parts[i] /\ parts[i] \in Text
  OBVIOUS
<1>2. last \in Text /\ \A u \in Text : u \o <<byte>> \in Text
  BY DEF Text
<1> HIDE DEF p, n, last
<1>3. f \in Seq(Text)
  <2>1. \A i \in 1..n : parts[i] \o <<byte>> \in Text
    BY <1>1, <1>2
  <2>2. f = [i \in 1..n |-> parts[i] \o <<byte>>]
    BY <1>1
  <2> QED
    BY <1>1, <2>1, <2>2
<1>4. g = Append(f, last)
  <2>1. DOMAIN f = 1..n /\ Len(f) = n /\ \A i \in 1..n : f[i] = p[i] \o <<byte>>
    BY <1>1, <1>3
  <2>2. DOMAIN g = 1..(n + 1) /\ \A i \in 1..(n + 1) : g[i] = p[i] \o <<byte>>
    BY <1>1
  <2>3. g[n + 1] = last /\ \A i \in 1..n : g[i] = f[i]
    BY <1>1, <2>1, <2>2 DEF last
  <2>4. \A i \in 1..(n + 1) : g[i] \in Text
    BY <1>1, <1>2, <2>2, <2>3
  <2>5. g \in Seq(Text) /\ Len(g) = n + 1
    BY <1>1, <2>2, <2>4
  <2> HIDE DEF f, g
  <2> QED
    BY <1>2, <1>3, <2>1, <2>3, <2>5, IsAppend
<1> HIDE DEF f, g
<1>5. f \in Seq(Seq(Byte)) /\ last \in Seq(Byte)
  BY <1>2, <1>3 DEF Text
<1>6. FlattenSeq(g) = FlattenSeq(f) \o last /\ FlattenSeq(f) \in Seq(Byte)
  BY <1>4, <1>5, FlattenAppend, FlattenType
<1>7. \A u \in Seq(Byte) : u \o last = (u \o part) \o <<byte>>
  <2>1. part \in Seq(Byte) /\ <<byte>> \in Seq(Byte)
    BY DEF Text
  <2> QED
    BY <2>1, ConcatAssociative DEF last
<1> QED
  BY <1>6, <1>7 DEF Joined, f, g, p, Text

\* Parts without the byte, joined with it, are what a text is split into.
LEMMA SplitJoined ==
  ASSUME NEW byte \in Byte, NEW parts \in Seq(Text), NEW u \in Text,
         \A i \in DOMAIN parts : Lacks(parts[i], byte),
         Lacks(u, byte)
  PROVE  Split(Joined(parts, byte) \o u, byte) = Append(parts, u)
<1> DEFINE Ok(p) == \A i \in DOMAIN p : Lacks(p[i], byte)
           P == {p \in Seq(Text) : Ok(p) =>
                   \A v \in Text : Lacks(v, byte) =>
                     Split(Joined(p, byte) \o v, byte) = Append(p, v)}
<1>1. <<>> \in P
  <2>1. ASSUME NEW v \in Text, Lacks(v, byte)
        PROVE  Split(Joined(<<>>, byte) \o v, byte) = Append(<<>>, v)
    <3>1. <<>> \o v = v /\ Append(<<>>, v) = <<v>>
      BY DEF Text
    <3>2. Joined(<<>>, byte) \o v = v
      BY <3>1, JoinedEmpty
    <3> QED
      BY <2>1, <3>1, <3>2, SplitNone
  <2> QED
    BY <2>1
<1>2. ASSUME NEW p \in P, NEW part \in Text
      PROVE  Append(p, part) \in P
  <2> DEFINE Splits(q) == \A v \in Text : Lacks(v, byte) =>
                            Split(Joined(q, byte) \o v, byte) = Append(q, v)
  <2>1. p \in Seq(Text) /\ (Ok(p) => Splits(p)) /\ Append(p, part) \in Seq(Text)
    OBVIOUS
  <2>2. SUFFICES ASSUME Ok(Append(p, part)), NEW v \in Text, Lacks(v, byte)
                 PROVE  Split(Joined(Append(p, part), byte) \o v, byte)
                          = Append(Append(p, part), v)
    BY <2>1, Zenon
  <2>3. /\ DOMAIN p = 1..Len(p) /\ Len(p) \in Nat
        /\ DOMAIN Append(p, part) = 1..(Len(p) + 1)
        /\ Append(p, part)[Len(p) + 1] = part
        /\ \A i \in 1..Len(p) : Append(p, part)[i] = p[i]
    OBVIOUS
  <2>4. Ok(p) /\ Lacks(part, byte)
    BY <2>3, <2>2
  <2>5. Split(Joined(p, byte) \o part, byte) = Append(p, part)
    BY <2>1, <2>4
  <2> DEFINE front == Joined(p, byte) \o part
  <2>6. p \in Seq(Text) /\ Joined(Append(p, part), byte) = front \o <<byte>>
        /\ Joined(p, byte) \in Text
    BY JoinedAppend
  <2>7. front \in Text
    BY <2>6 DEF Text
  <2>8. Split(front \o <<byte>> \o v, byte) = Append(Split(front, byte), v)
    BY <2>7, <2>2, SplitMore
  <2> QED
    BY <2>5, <2>6, <2>8
<1>3. P = Seq(Text)
  <2> HIDE DEF P
  <2>1. P \in SUBSET Seq(Text)
    BY DEF P
  <2> QED
    BY <1>1, <1>2, <2>1, SeqSetInduction, Zenon
<1> QED
  BY <1>3


\* NonEmpty leaves out an empty part, and no other.
LEMMA NonEmptyEmpty == NonEmpty(<<>>) = <<>>
<1>1. [i \in DOMAIN <<>> |-> IF <<>>[i] = <<>> THEN <<>> ELSE <<<<>>[i]>>] = <<>>
  OBVIOUS
<1> QED
  BY <1>1, FlattenEmpty DEF NonEmpty

\* The last part is kept behind the others unless it is empty.
LEMMA NonEmptyAppend ==
  ASSUME NEW parts \in Seq(Text), NEW part \in Text
  PROVE  /\ NonEmpty(Append(parts, part))
              = NonEmpty(parts) \o (IF part = <<>> THEN <<>> ELSE <<part>>)
         /\ NonEmpty(parts) \in Seq(Text)
<1> DEFINE p == Append(parts, part)
           f == [i \in DOMAIN parts |-> IF parts[i] = <<>> THEN <<>> ELSE <<parts[i]>>]
           g == [i \in DOMAIN p |-> IF p[i] = <<>> THEN <<>> ELSE <<p[i]>>]
           last == IF part = <<>> THEN <<>> ELSE <<part>>
           n == Len(parts)
<1>1. /\ n \in Nat /\ DOMAIN parts = 1..n /\ DOMAIN p = 1..(n + 1)
      /\ p[n + 1] = part /\ \A i \in 1..n : p[i] = parts[i] /\ parts[i] \in Text
  OBVIOUS
<1>2. last \in Seq(Text)
  OBVIOUS
<1> HIDE DEF p, n
<1>3. f \in Seq(Seq(Text)) /\ Len(f) = n
  <2>1. \A i \in 1..n : (IF parts[i] = <<>> THEN <<>> ELSE <<parts[i]>>) \in Seq(Text)
    BY <1>1
  <2> QED
    BY <1>1, <2>1
<1>4. g = Append(f, last)
  <2>1. \A i \in 1..n : f[i] = IF p[i] = <<>> THEN <<>> ELSE <<p[i]>>
    BY <1>1
  <2>2. /\ DOMAIN g = 1..(n + 1)
        /\ \A i \in 1..(n + 1) : g[i] = IF p[i] = <<>> THEN <<>> ELSE <<p[i]>>
    BY <1>1
  <2>3. g[n + 1] = last /\ \A i \in 1..n : g[i] = f[i]
    BY <1>1, <2>1, <2>2
  <2>4. \A i \in 1..(n + 1) : g[i] \in Seq(Text)
    BY <1>1, <1>2, <2>2, <2>3
  <2>5. g \in Seq(Seq(Text)) /\ Len(g) = n + 1
    BY <1>1, <2>2, <2>4
  <2> HIDE DEF f, g, last
  <2> QED
    BY <1>2, <1>3, <2>3, <2>5, IsAppend
<1>5. FlattenSeq(g) = FlattenSeq(f) \o last /\ FlattenSeq(f) \in Seq(Text)
  <2> HIDE DEF f, g, last
  <2> QED
    BY <1>2, <1>3, <1>4, FlattenAppend, FlattenType
<1> QED
  BY <1>5 DEF NonEmpty, p

\* If none is empty all are kept.
LEMMA NonEmptyParts ==
  ASSUME NEW parts \in Seq(Text), \A i \in DOMAIN parts : parts[i] # <<>>
  PROVE  NonEmpty(parts) = parts
<1> DEFINE Full(q) == \A i \in DOMAIN q : q[i] # <<>>
           P == {q \in Seq(Text) : Full(q) => NonEmpty(q) = q}
<1>1. <<>> \in P
  BY NonEmptyEmpty
<1>2. ASSUME NEW q \in P, NEW part \in Text
      PROVE  Append(q, part) \in P
  <2>1. q \in Seq(Text) /\ Append(q, part) \in Seq(Text) /\ (Full(q) => NonEmpty(q) = q)
    OBVIOUS
  <2>2. /\ DOMAIN q = 1..Len(q) /\ Len(q) \in Nat
        /\ DOMAIN Append(q, part) = 1..(Len(q) + 1)
        /\ Append(q, part)[Len(q) + 1] = part
        /\ \A i \in 1..Len(q) : Append(q, part)[i] = q[i]
    OBVIOUS
  <2>3. ASSUME Full(Append(q, part))
        PROVE  NonEmpty(Append(q, part)) = Append(q, part)
    <3>1. Full(q) /\ part # <<>>
      BY <2>2, <2>3
    <3>2. NonEmpty(Append(q, part)) = q \o <<part>>
      BY <2>1, <3>1, NonEmptyAppend
    <3> QED
      BY <2>1, <3>2
  <2> QED
    BY <2>1, <2>3
<1>3. P = Seq(Text)
  <2> HIDE DEF P
  <2>1. P \in SUBSET Seq(Text)
    BY DEF P
  <2> QED
    BY <1>1, <1>2, <2>1, SeqSetInduction, Zenon
<1> QED
  BY <1>3

-----------------------------------------------------------------------------
(* What is read of what urlEncode writes.                                    *)

\* The digits of an encoded byte have no meaning of their own, and are those
\* of the byte exactly when it is ASCII.
LEMMA Digits ==
  ASSUME NEW b \in Byte, b \notin Allowed
  PROVE  LET high == to_hex(Signed(b) \div 16)
             low == to_hex(Remainder(Signed(b), 16))
         IN  /\ high \in 39..57
             /\ low \in (39..57) \cup (65..70)
             /\ 16 * HexValue(high) + HexValue(low) = b <=> b < 128
<1> DEFINE c == Signed(b)
           x == c \div 16
           y == Remainder(c, 16)
<1>1. CASE b < 128
  <2>1. c = b /\ y = b % 16 /\ x = b \div 16
    BY <1>1 DEF Signed, Remainder, Byte
  <2>2. x \in 0..7 /\ y \in 0..15 /\ b = 16 * x + y
    BY <1>1, <2>1 DEF Byte
  <2> HIDE DEF c, x, y
  <2>3. to_hex(x) = 48 + x
    BY <2>2 DEF to_hex
  <2>4. to_hex(y) = IF y > 9 THEN 55 + y ELSE 48 + y
    BY <2>2 DEF to_hex
  <2>5. HexValue(48 + x) = x
    BY <2>2 DEF HexValue
  <2>6. HexValue(IF y > 9 THEN 55 + y ELSE 48 + y) = y
    BY <2>2 DEF HexValue
  <2> QED
    BY <1>1, <2>2, <2>3, <2>4, <2>5, <2>6 DEF c, x, y
<1>2. CASE ~(b < 128)
  <2>1. c = b - 256 /\ c \in -128..-1
    BY <1>2 DEF Signed, Byte
  <2>2. x \in -8..-1
    BY <2>1
  <2>3. y = -((-c) % 16) /\ y \in -15..0
    BY <2>1 DEF Remainder
  <2> HIDE DEF c, x, y
  <2>4. to_hex(x) = 55 + x
    BY <2>2 DEF to_hex
  <2>5. to_hex(y) = IF y = 0 THEN 48 ELSE 55 + y
    BY <2>3 DEF to_hex
  <2>6. HexValue(55 + x) <= 6
    BY <2>2 DEF HexValue
  <2>7. HexValue(IF y = 0 THEN 48 ELSE 55 + y) <= 6
    BY <2>3 DEF HexValue
  <2>8. HexValue(55 + x) \in Int /\ HexValue(IF y = 0 THEN 48 ELSE 55 + y) \in Int
    BY <2>2, <2>3 DEF HexValue
  <2> QED
    BY <1>2, <2>1, <2>2, <2>3, <2>4, <2>5, <2>6, <2>7, <2>8 DEF c, x, y, Byte
<1> QED
  BY <1>1, <1>2


\* What cannot stand in a query as a value, "&" among it.
Outside == Byte \ QueryBytes

\* An encoded byte is text that can.
LEMMA EncodedByteType ==
  ASSUME NEW b \in Byte
  PROVE  /\ EncodedByte(b) \in Text
         /\ \A byte \in Outside : Lacks(EncodedByte(b), byte)
<1>1. CASE b \in Allowed \cup {32}
  <2> DEFINE c == IF b = 32 THEN Plus ELSE b
  <2>1. EncodedByte(b) = <<c>> /\ c \in Byte /\ c \notin Outside
    BY <1>1 DEF EncodedByte, Allowed, Plus, Byte, Outside, QueryBytes
  <2> HIDE DEF c
  <2> QED
    BY <2>1 DEF Text, Lacks
<1>2. CASE b \notin Allowed \cup {32}
  <2> DEFINE high == to_hex(Signed(b) \div 16)
             low == to_hex(Remainder(Signed(b), 16))
  <2>1. EncodedByte(b) = <<37, high, low>>
    BY <1>2 DEF EncodedByte, Percent
  <2>2. high \in 39..57 /\ low \in (39..57) \cup (65..70)
    BY <1>2, Digits
  <2> HIDE DEF high, low
  <2>3. 37 \notin Outside /\ high \notin Outside /\ low \notin Outside
    BY <2>2 DEF Outside, QueryBytes, Byte
  <2> QED
    BY <2>1, <2>2, <2>3 DEF Text, Lacks, Byte
<1> QED
  BY <1>1, <1>2

\* What has been read, as Read counts it.
Reading(out, digits, high) == [out |-> out, digits |-> digits, high |-> high]

\* What one more byte does to it.
LEMMA ReadOne ==
  ASSUME NEW out, NEW high, NEW b
  PROVE  /\ b = Percent => Read(Reading(out, 0, high), b) = Reading(out, 2, high)
         /\ b # Percent => Read(Reading(out, 0, high), b)
                             = Reading(Append(out, IF b = Plus THEN 32 ELSE b), 0, high)
         /\ Read(Reading(out, 2, high), b) = Reading(out, 1, HexValue(b))
         /\ Read(Reading(out, 1, high), b)
              = Reading(Append(out, 16 * high + HexValue(b)), 0, high)
<1>1. Read(Reading(out, 2, high), b) = Reading(out, 1, HexValue(b))
  <2> DEFINE d == Reading(out, 2, high)
  <2>1. d.digits = 2
    BY DEF Reading
  <2> HIDE DEF d
  <2>2. Read(d, b) = [d EXCEPT !.high = HexValue(b), !.digits = 1]
    BY <2>1 DEF Read
  <2> QED
    BY <2>2 DEF d, Reading
<1>2. Read(Reading(out, 1, high), b) = Reading(Append(out, 16 * high + HexValue(b)), 0, high)
  <2> DEFINE d == Reading(out, 1, high)
             c == 16 * high + HexValue(b)
  <2>1. d.out = out /\ d.digits = 1 /\ d.high = high
    BY DEF Reading
  <2> HIDE DEF d
  <2>2. Read(d, b) = [d EXCEPT !.out = Append(d.out, 16 * d.high + HexValue(b)), !.digits = 0]
    BY <2>1 DEF Read
  <2>3. Append(d.out, 16 * d.high + HexValue(b)) = Append(out, c)
    BY <2>1
  <2> HIDE DEF c
  <2>4. Read(d, b) = [d EXCEPT !.out = Append(out, c), !.digits = 0]
    BY <2>2, <2>3
  <2> QED
    BY <2>4 DEF d, Reading, c
<1>3. b = Percent => Read(Reading(out, 0, high), b) = Reading(out, 2, high)
  BY DEF Read, Reading
<1>4. b # Percent => Read(Reading(out, 0, high), b)
                       = Reading(Append(out, IF b = Plus THEN 32 ELSE b), 0, high)
  BY DEF Read, Reading
<1> QED
  BY <1>1, <1>2, <1>3, <1>4

\* After whole encoded bytes one more gives one value more, which is the byte
\* exactly when it is ASCII.
LEMMA EncodedByteRead ==
  ASSUME NEW s \in Text, NEW b \in Byte, NEW out, NEW high,
         Decoding(s) = Reading(out, 0, high)
  PROVE  \E e \in Int, h \in {high} \cup Int :
           /\ Decoding(s \o EncodedByte(b)) = Reading(Append(out, e), 0, h)
           /\ e = b <=> b < 128
<1> DEFINE t == EncodedByte(b)
<1>1. CASE b \in Allowed \cup {32}
  <2> DEFINE c == IF b = 32 THEN Plus ELSE b
  <2>1. t = <<c>> /\ c \in Byte /\ c # Percent /\ b < 128 /\ b \in Int
        /\ b = IF c = Plus THEN 32 ELSE c
    BY <1>1 DEF EncodedByte, Allowed, Plus, Percent, Byte
  <2>2. s \o t = Append(s, c)
    BY <2>1 DEF Text
  <2> HIDE DEF c
  <2>3. Decoding(s \o t) = Read(Reading(out, 0, high), c)
    BY <2>1, <2>2, DecodingAppend
  <2>4. Decoding(s \o t) = Reading(Append(out, b), 0, high)
    BY <2>1, <2>3, ReadOne
  <2> QED
    BY <2>1, <2>4
<1>2. CASE b \notin Allowed \cup {32}
  <2> DEFINE x == to_hex(Signed(b) \div 16)
             y == to_hex(Remainder(Signed(b), 16))
             e == 16 * HexValue(x) + HexValue(y)
  <2>1. t = <<Percent, x, y>>
    BY <1>2 DEF EncodedByte
  <2>2. x \in 39..57 /\ y \in (39..57) \cup (65..70) /\ (e = b <=> b < 128)
    BY <1>2, Digits
  <2> HIDE DEF x, y
  <2>3. /\ Percent \in Byte /\ x \in Byte /\ y \in Byte
        /\ HexValue(x) \in Int /\ HexValue(y) \in Int /\ e \in Int
    BY <2>2 DEF Byte, Percent, HexValue
  <2> DEFINE s1 == Append(s, Percent)
             s2 == Append(s1, x)
  <2>4. s1 \in Text /\ s2 \in Text /\ s \o t = Append(s2, y)
    BY <2>1, <2>3 DEF Text
  <2> HIDE DEF e, t
  <2>5. Decoding(s1) = Reading(out, 2, high)
    BY <2>3, DecodingAppend, ReadOne
  <2> HIDE DEF s1
  <2>6. Decoding(s2) = Reading(out, 1, HexValue(x))
    BY <2>3, <2>4, <2>5, DecodingAppend, ReadOne
  <2> HIDE DEF s2
  <2>7. Decoding(s \o t) = Reading(Append(out, e), 0, HexValue(x))
    BY <2>3, <2>4, <2>6, DecodingAppend, ReadOne DEF e
  <2> QED
    BY <2>2, <2>3, <2>7 DEF t
<1> QED
  BY <1>1, <1>2

\* The empty value is encoded as nothing.
LEMMA urlEncodeEmpty == urlEncode(<<>>) = <<>>
<1>1. [i \in DOMAIN <<>> |-> EncodedByte(<<>>[i])] = <<>>
  OBVIOUS
<1> QED
  BY <1>1, FlattenEmpty DEF urlEncode

\* A value is encoded byte by byte, from the left.
LEMMA urlEncodeAppend ==
  ASSUME NEW s \in Text, NEW b \in Byte
  PROVE  /\ urlEncode(Append(s, b)) = urlEncode(s) \o EncodedByte(b)
         /\ urlEncode(s) \in Text
<1> DEFINE p == Append(s, b)
           f == [i \in DOMAIN s |-> EncodedByte(s[i])]
           g == [i \in DOMAIN p |-> EncodedByte(p[i])]
           last == EncodedByte(b)
           n == Len(s)
<1>1. /\ n \in Nat /\ DOMAIN s = 1..n /\ DOMAIN p = 1..(n + 1)
      /\ p[n + 1] = b /\ \A i \in 1..n : p[i] = s[i] /\ s[i] \in Byte
  BY DEF Text
<1> HIDE DEF p, n
<1>2. last \in Text /\ \A i \in 1..n : EncodedByte(s[i]) \in Text
  BY <1>1, EncodedByteType
<1> HIDE DEF last
<1>3. f \in Seq(Text) /\ Len(f) = n
  BY <1>1, <1>2
<1>4. g = Append(f, last)
  <2>1. \A i \in 1..n : f[i] = EncodedByte(p[i])
    BY <1>1
  <2>2. DOMAIN g = 1..(n + 1) /\ \A i \in 1..(n + 1) : g[i] = EncodedByte(p[i])
    BY <1>1
  <2>3. g[n + 1] = last /\ \A i \in 1..n : g[i] = f[i]
    BY <1>1, <2>1, <2>2 DEF last
  <2>4. \A i \in 1..(n + 1) : g[i] \in Text
    BY <1>1, <1>2, <2>2, <2>3
  <2>5. g \in Seq(Text) /\ Len(g) = n + 1
    BY <1>1, <2>2, <2>4
  <2> HIDE DEF f, g
  <2> QED
    BY <1>2, <1>3, <2>3, <2>5, IsAppend
<1> HIDE DEF f, g
<1>5. f \in Seq(Seq(Byte)) /\ last \in Seq(Byte)
  BY <1>2, <1>3 DEF Text
<1>6. FlattenSeq(g) = FlattenSeq(f) \o last /\ FlattenSeq(f) \in Seq(Byte)
  BY <1>4, <1>5, FlattenAppend, FlattenType
<1> QED
  BY <1>6 DEF urlEncode, f, g, p, last, Text

\* Whatever is encoded is text that can stand in a query.
LEMMA urlEncodeType ==
  ASSUME NEW s \in Text
  PROVE  /\ urlEncode(s) \in Text
         /\ \A byte \in Outside : Lacks(urlEncode(s), byte)
<1> DEFINE Plain(q) == \A byte \in Outside : Lacks(urlEncode(q), byte)
           P == {q \in Text : urlEncode(q) \in Text /\ Plain(q)}
<1>1. <<>> \in P
  <2>1. <<>> \in Text /\ \A byte : Lacks(<<>>, byte)
    BY DEF Text, Lacks
  <2> QED
    BY <2>1, urlEncodeEmpty
<1>2. ASSUME NEW q \in P, NEW b \in Byte
      PROVE  Append(q, b) \in P
  <2>1. q \in Text /\ Append(q, b) \in Text /\ urlEncode(q) \in Text /\ Plain(q)
    BY DEF Text
  <2>2. urlEncode(Append(q, b)) = urlEncode(q) \o EncodedByte(b)
    BY <2>1, urlEncodeAppend
  <2>3. EncodedByte(b) \in Text /\ \A byte \in Outside : Lacks(EncodedByte(b), byte)
    BY EncodedByteType
  <2>4. urlEncode(q) \o EncodedByte(b) \in Text
    BY <2>1, <2>3 DEF Text
  <2>5. ASSUME NEW byte \in Outside
        PROVE  Lacks(urlEncode(q) \o EncodedByte(b), byte)
    <3>1. Lacks(urlEncode(q), byte)
      BY <2>1
    <3>2. Lacks(EncodedByte(b), byte)
      BY <2>3
    <3> QED
      BY <2>1, <2>3, <3>1, <3>2, LacksConcat
  <2> QED
    BY <2>1, <2>2, <2>4, <2>5
<1>3. P = Seq(Byte)
  <2> HIDE DEF P
  <2>1. P \in SUBSET Seq(Byte)
    BY DEF P, Text
  <2> QED
    BY <1>1, <1>2, <2>1, SeqSetInduction, Zenon
<1> QED
  BY <1>3 DEF Text

\* What is read of an encoded text is the text exactly when it is ASCII.
LEMMA DecodedEncoded ==
  ASSUME NEW s \in Text
  PROVE  Decoded(urlEncode(s)) = s <=> \A k \in DOMAIN s : s[k] < 128
<1> DEFINE Same(out, q) == /\ out \in Seq(Int)
                           /\ Len(out) = Len(q)
                           /\ \A k \in 1..Len(q) : out[k] = q[k] <=> q[k] < 128
           P == {q \in Text : \E out, h : /\ Decoding(urlEncode(q)) = Reading(out, 0, h)
                                          /\ Same(out, q)}
<1>1. <<>> \in P
  <2>1. ReadNothing = Reading(<<>>, 0, 0)
    BY DEF ReadNothing, Reading
  <2>2. <<>> \in Text /\ Same(<<>>, <<>>)
    BY DEF Text
  <2> QED
    BY <2>1, <2>2, urlEncodeEmpty, DecodingEmpty
<1>2. ASSUME NEW q \in P, NEW b \in Byte
      PROVE  Append(q, b) \in P
  <2> DEFINE r == Append(q, b)
  <2>1. q \in Text /\ r \in Text
    BY DEF Text
  <2>2. PICK out, h : Decoding(urlEncode(q)) = Reading(out, 0, h) /\ Same(out, q)
    OBVIOUS
  <2>3. urlEncode(r) = urlEncode(q) \o EncodedByte(b) /\ urlEncode(q) \in Text
    BY <2>1, urlEncodeAppend
  <2>4. PICK e \in Int, i \in {h} \cup Int :
               /\ Decoding(urlEncode(r)) = Reading(Append(out, e), 0, i)
               /\ e = b <=> b < 128
    BY <2>2, <2>3, EncodedByteRead
  <2>5. /\ Len(q) \in Nat /\ Len(r) = Len(q) + 1 /\ r[Len(q) + 1] = b
        /\ \A k \in 1..Len(q) : r[k] = q[k]
    BY DEF Text
  <2> DEFINE next == Append(out, e)
  <2>6. /\ next \in Seq(Int) /\ Len(next) = Len(q) + 1 /\ next[Len(q) + 1] = e
        /\ \A k \in 1..Len(q) : next[k] = out[k]
    BY <2>2
  <2> HIDE DEF r, next
  <2>7. ASSUME NEW k \in 1..Len(r)
        PROVE  next[k] = r[k] <=> r[k] < 128
    <3>1. CASE k = Len(q) + 1
      BY <2>4, <2>5, <2>6, <3>1
    <3>2. CASE k # Len(q) + 1
      <4>1. k \in 1..Len(q)
        BY <2>5, <3>2
      <4> QED
        BY <2>2, <2>5, <2>6, <4>1
    <3> QED
      BY <3>1, <3>2
  <2>8. Same(next, r)
    BY <2>5, <2>6, <2>7
  <2>9. Decoding(urlEncode(r)) = Reading(next, 0, i)
    BY <2>4 DEF next
  <2> QED
    BY <2>1, <2>8, <2>9 DEF r
<1>3. P = Seq(Byte)
  <2> HIDE DEF P
  <2>1. P \in SUBSET Seq(Byte)
    BY DEF P, Text
  <2> QED
    BY <1>1, <1>2, <2>1, SeqSetInduction, Zenon
<1>4. PICK out, h : Decoding(urlEncode(s)) = Reading(out, 0, h) /\ Same(out, s)
  BY <1>3 DEF Text
<1>5. Decoded(urlEncode(s)) = out
  BY <1>4 DEF Decoded, Reading
<1>6. s \in Seq(Int) /\ DOMAIN s = 1..Len(s)
  <2>1. s \in Seq(Byte) /\ \A b \in Byte : b \in Int
    BY DEF Text, Byte
  <2>2. Len(s) \in Nat /\ s = [k \in 1..Len(s) |-> s[k]] /\ \A k \in 1..Len(s) : s[k] \in Int
    BY <2>1
  <2> QED
    BY <2>1, <2>2
<1>7. out = s <=> \A k \in 1..Len(s) : out[k] = s[k]
  BY <1>4, <1>6, SeqEqual
<1> QED
  BY <1>4, <1>5, <1>6, <1>7


\* A text without "%" and "+" is read as it is.
LEMMA DecodedPlain ==
  ASSUME NEW s \in Text, Lacks(s, Percent), Lacks(s, Plus)
  PROVE  Decoded(s) = s
<1> DEFINE P == {q \in Text : Lacks(q, Percent) /\ Lacks(q, Plus) =>
                                Decoding(q) = Reading(q, 0, 0)}
<1>1. <<>> \in P
  BY DecodingEmpty DEF ReadNothing, Reading, Text
<1>2. ASSUME NEW q \in P, NEW b \in Byte
      PROVE  Append(q, b) \in P
  <2>1. q \in Text /\ Append(q, b) \in Text
    BY DEF Text
  <2> SUFFICES ASSUME Lacks(Append(q, b), Percent), Lacks(Append(q, b), Plus)
               PROVE  Decoding(Append(q, b)) = Reading(Append(q, b), 0, 0)
    BY <2>1
  <2>2. Lacks(q, Percent) /\ Lacks(q, Plus) /\ b # Percent /\ b # Plus
    BY <2>1, LacksAppend
  <2>3. Decoding(q) = Reading(q, 0, 0)
    BY <2>2
  <2>4. Decoding(Append(q, b)) = Read(Reading(q, 0, 0), b)
    BY <2>1, <2>3, DecodingAppend
  <2>5. Read(Reading(q, 0, 0), b) = Reading(Append(q, IF b = Plus THEN 32 ELSE b), 0, 0)
    BY <2>2, ReadOne
  <2> QED
    BY <2>2, <2>4, <2>5
<1>3. P = Seq(Byte)
  <2> HIDE DEF P
  <2>1. P \in SUBSET Seq(Byte)
    BY DEF P, Text
  <2> QED
    BY <1>1, <1>2, <2>1, SeqSetInduction, Zenon
<1>4. Decoding(s) = Reading(s, 0, 0)
  BY <1>3 DEF Text
<1> QED
  BY <1>4 DEF Decoded, Reading

-----------------------------------------------------------------------------
(* What stands before and after the first of a byte.                         *)

\* What is before the end of a text.
LEMMA FrontOf ==
  ASSUME NEW a \in Text, NEW b \in Text
  PROVE  SubSeq(a \o b, 1, Len(a)) = a /\ Len(a \o b) = Len(a) + Len(b)
<1>1. a \o b \in Text /\ Len(a \o b) = Len(a) + Len(b) /\ Len(a) \in Nat /\ Len(b) \in Nat
  BY DEF Text
<1>2. \A i \in 1..Len(a) : (a \o b)[i] = a[i]
  BY DEF Text
<1>3. SubSeq(a \o b, 1, Len(a)) = [i \in 1..Len(a) |-> (a \o b)[i]]
  BY <1>1 DEF Text
<1>4. a = [i \in 1..Len(a) |-> a[i]]
  BY DEF Text
<1> QED
  BY <1>1, <1>2, <1>3, <1>4

\* And what is behind the beginning.
LEMMA BackOf ==
  ASSUME NEW a \in Text, NEW b \in Text
  PROVE  SubSeq(a \o b, Len(a) + 1, Len(a \o b)) = b
<1>1. /\ a \o b \in Seq(Byte) /\ Len(a \o b) = Len(a) + Len(b)
      /\ \A i \in 1..(Len(a) + Len(b)) :
           (a \o b)[i] = IF i <= Len(a) THEN a[i] ELSE b[i - Len(a)]
  BY ConcatProperties DEF Text
<1>2. /\ Len(a) \in Nat /\ Len(b) \in Nat
      /\ b = [i \in 1..Len(b) |-> b[i]]
  BY DEF Text
<1> DEFINE v == a \o b
           m == Len(a)
           n == Len(b)
<1> HIDE DEF v, m, n
<1>3. SubSeq(v, m + 1, m + n) = [i \in 1..n |-> v[m + i]]
  <2>1. v \in Seq(Byte) /\ Len(v) = m + n /\ m \in Nat /\ n \in Nat
    BY <1>1, <1>2 DEF v, m, n
  <2>2. SubSeq(v, m + 1, m + n) = [i \in 1..((m + n) - (m + 1) + 1) |-> v[(m + 1) + i - 1]]
    BY <2>1
  <2>3. (m + n) - (m + 1) + 1 = n /\ \A i \in 1..n : (m + 1) + i - 1 = m + i
    BY <2>1
  <2> QED
    BY <2>2, <2>3
<1>4. ASSUME NEW i \in 1..n
      PROVE  v[m + i] = b[i]
  <2>1. m + i \in 1..(m + n) /\ ~(m + i <= m) /\ (m + i) - m = i
    BY <1>2 DEF m, n
  <2> QED
    BY <1>1, <2>1 DEF v, m, n
<1>5. b = [i \in 1..n |-> b[i]]
  BY <1>2 DEF n
<1>6. SubSeq(v, m + 1, m + n) = b
  BY <1>3, <1>4, <1>5
<1> QED
  BY <1>1, <1>6 DEF v, m, n

\* The first place of a byte is the one before which it does not stand.
LEMMA FirstIs ==
  ASSUME NEW s \in Text, NEW byte, NEW n \in 1..(Len(s) + 1),
         n = Len(s) + 1 \/ s[n] = byte,
         \A i \in 1..(n - 1) : s[i] # byte
  PROVE  FirstOf(s, byte) = n
<1> DEFINE First(m) == /\ m = Len(s) + 1 \/ s[m] = byte
                       /\ \A i \in 1..(m - 1) : s[i] # byte
           m == CHOOSE k \in 1..(Len(s) + 1) : First(k)
<1>1. First(n) /\ Len(s) \in Nat
  BY DEF Text
<1>2. m \in 1..(Len(s) + 1) /\ First(m)
  <2> HIDE DEF First
  <2> QED
    BY <1>1
<1> HIDE DEF m
<1>3. ~(m < n)
  <2> SUFFICES ASSUME m < n
               PROVE  FALSE
    OBVIOUS
  <2>1. m \in 1..(n - 1) /\ m # Len(s) + 1
    BY <1>1, <1>2
  <2> QED
    BY <1>1, <1>2, <2>1
<1>4. ~(n < m)
  <2> SUFFICES ASSUME n < m
               PROVE  FALSE
    OBVIOUS
  <2>1. n \in 1..(m - 1) /\ n # Len(s) + 1
    BY <1>1, <1>2
  <2> QED
    BY <1>1, <1>2, <2>1
<1>5. m = n
  BY <1>1, <1>2, <1>3, <1>4
<1> QED
  BY <1>5 DEF FirstOf, m

\* A text without the byte is all before it; of one with the byte behind it and
\* any other behind that, it is what stands before, and the other what after.
LEMMA ReadAround ==
  ASSUME NEW s \in Text, NEW byte \in Byte, Lacks(s, byte)
  PROVE  /\ Before(s, byte) = s
         /\ \A u \in Text : /\ Before(s \o <<byte>> \o u, byte) = s
                             /\ After(s \o <<byte>> \o u, byte) = u
<1> DEFINE n == Len(s)
           mark == <<byte>>
<1>1. /\ n \in Nat /\ DOMAIN s = 1..n /\ \A i \in 1..n : s[i] # byte
      /\ mark \in Text /\ Len(mark) = 1 /\ mark[1] = byte
  BY DEF Text, Lacks
<1>2. Before(s, byte) = s
  <2>1. FirstOf(s, byte) = n + 1
    <3>1. n + 1 \in 1..(n + 1) /\ (n + 1) - 1 = n
      BY <1>1
    <3> QED
      BY <1>1, <3>1, FirstIs
  <2>2. SubSeq(s, 1, n) = s
    BY DEF Text
  <2>3. (n + 1) - 1 = n
    BY <1>1
  <2> QED
    BY <2>1, <2>2, <2>3 DEF Before
<1>3. ASSUME NEW u \in Text
      PROVE  Before(s \o <<byte>> \o u, byte) = s /\ After(s \o <<byte>> \o u, byte) = u
  <2> DEFINE front == s \o mark
             v == front \o u
  <2> HIDE DEF mark
  <2>1. /\ front \in Text /\ Len(front) = n + 1
        /\ front[n + 1] = byte /\ \A i \in 1..n : front[i] = s[i]
    <3>1. front = Append(s, byte) /\ s \in Seq(Byte)
      BY <1>1 DEF Text, mark
    <3> QED
      BY <1>1, <3>1 DEF Text
  <2> HIDE DEF front
  <2>2. /\ v \in Text /\ Len(v) = n + 1 + Len(u) /\ Len(u) \in Nat
        /\ \A i \in 1..(n + 1) : v[i] = front[i]
    BY <1>1, <2>1 DEF Text
  <2>3. v = s \o (mark \o u) /\ mark \o u \in Text
    <3>1. s \in Seq(Byte) /\ mark \in Seq(Byte) /\ u \in Seq(Byte)
      BY <1>1 DEF Text
    <3> QED
      BY <3>1, ConcatAssociative DEF front, Text
  <2> HIDE DEF v
  <2>4. FirstOf(v, byte) = n + 1
    <3>1. /\ n + 1 \in 1..(Len(v) + 1) /\ (n + 1) - 1 = n
          /\ v[n + 1] = byte /\ \A i \in 1..n : v[i] # byte
      BY <1>1, <2>1, <2>2
    <3> QED
      BY <2>2, <3>1, FirstIs
  <2>5. SubSeq(v, 1, n) = s
    BY <2>3, FrontOf
  <2>6. SubSeq(v, Len(front) + 1, Len(v)) = u
    BY <2>1, BackOf DEF v
  <2>7. Before(v, byte) = s /\ After(v, byte) = u
    BY <1>1, <2>1, <2>4, <2>5, <2>6 DEF Before, After
  <2> QED
    BY <2>7 DEF v, front, mark
<1> QED
  BY <1>2, <1>3


-----------------------------------------------------------------------------
(* The query of a request and what the server takes out of it.               *)

\* A parameter, and its piece of the query.
Pair == [name : {w \in Text : IsWord(w)}, meant : Text, text : Text]

Piece(p) == p.name \o Is \o p.text

Pieces(params) == [i \in DOMAIN params |-> Piece(params[i])]

\* No text has the "&" with which the parameters are joined.
Apart(params) == \A i \in DOMAIN params : Lacks(params[i].text, 38)

\* A parameter in a query is read as its name up to "=", and behind that its
\* text, whatever that is; and it has no "&" if the text has none.
LEMMA PieceType ==
  ASSUME NEW p \in Pair
  PROVE  /\ Piece(p) \in Text
         /\ Piece(p) # <<>>
         /\ Lacks(p.text, 38) => Lacks(Piece(p), 38)
         /\ Before(Piece(p), 61) = p.name
         /\ After(Piece(p), 61) = p.text
<1> DEFINE w == p.name
           e == p.text
<1>1. w \in Text /\ IsWord(w) /\ e \in Text
  BY DEF Pair
<1>2. w # <<>> /\ Lacks(w, 38) /\ Lacks(w, 61)
  BY <1>1 DEF IsWord, Lacks
<1>3. Is \in Text /\ Lacks(Is, 38) /\ Is = <<61>> /\ 61 \in Byte
  BY DEF Is, Text, Lacks, Byte
<1>4. Piece(p) = (w \o Is) \o e
  BY DEF Piece
<1> HIDE DEF w, e
<1>5. w \o Is \in Text /\ Lacks(w \o Is, 38)
  BY <1>1, <1>2, <1>3, LacksConcat
<1>6. Piece(p) \in Text
  BY <1>1, <1>4, <1>5 DEF Text
<1>7. Lacks(e, 38) => Lacks(Piece(p), 38)
  BY <1>1, <1>4, <1>5, LacksConcat
<1>8. Piece(p) # <<>>
  <2>1. Len(Piece(p)) = Len(w) + 1 + Len(e) /\ Len(w) \in Nat /\ Len(e) \in Nat
    BY <1>1, <1>3, <1>4 DEF Text
  <2> QED
    BY <1>6, <2>1
<1>9. Before(Piece(p), 61) = w /\ After(Piece(p), 61) = e
  BY <1>1, <1>2, <1>3, <1>4, ReadAround
<1> QED
  BY <1>6, <1>7, <1>8, <1>9 DEF w, e

\* The parameters of a request are such parts, joined by "&".
LEMMA PiecesType ==
  ASSUME NEW params \in Seq(Pair)
  PROVE  /\ Pieces(params) \in Seq(Text)
         /\ Len(Pieces(params)) = Len(params)
         /\ DOMAIN Pieces(params) = DOMAIN params
         /\ \A i \in DOMAIN params :
              /\ Pieces(params)[i] = Piece(params[i])
              /\ Pieces(params)[i] # <<>>
              /\ Apart(params) => Lacks(Pieces(params)[i], 38)
         /\ Pairs(params) = Joined(Pieces(params), 38)
<1>1. DOMAIN params = 1..Len(params) /\ Len(params) \in Nat
      /\ \A i \in 1..Len(params) : params[i] \in Pair
  OBVIOUS
<1>2. \A i \in 1..Len(params) :
        /\ Piece(params[i]) \in Text
        /\ Piece(params[i]) # <<>>
        /\ Lacks(params[i].text, 38) => Lacks(Piece(params[i]), 38)
  BY <1>1, PieceType
<1>3. Pieces(params) = [i \in 1..Len(params) |-> Piece(params[i])]
  BY <1>1 DEF Pieces
<1>4. Pieces(params) \in Seq(Text) /\ Len(Pieces(params)) = Len(params)
  BY <1>1, <1>2, <1>3
<1>5. Pairs(params) = Joined(Pieces(params), 38)
  <2>1. [i \in DOMAIN params |-> params[i].name \o Is \o params[i].text \o And]
        = [i \in DOMAIN Pieces(params) |-> Pieces(params)[i] \o <<38>>]
    BY DEF Pieces, Piece, And
  <2> QED
    BY <2>1 DEF Pairs, Joined
<1>6. \A i \in 1..Len(params) :
        /\ Pieces(params)[i] = Piece(params[i])
        /\ Pieces(params)[i] # <<>>
        /\ Apart(params) => Lacks(Pieces(params)[i], 38)
  BY <1>1, <1>2, <1>3 DEF Apart
<1> QED
  BY <1>1, <1>3, <1>4, <1>5, <1>6

\* A target is read as the path up to the first "?", and behind that the query,
\* whatever that is.
LEMMA QueryIs ==
  ASSUME NEW path \in Text, NEW query \in Text, Lacks(path, 63)
  PROVE  /\ Before(path \o Ask \o query, Ask[1]) = path
         /\ QueryRead(path \o Ask \o query) = query
<1>1. 63 \in Byte /\ Ask = <<63>> /\ Ask[1] = 63
  BY DEF Byte, Ask
<1>2. Before(path \o Ask \o query, 63) = path /\ After(path \o Ask \o query, 63) = query
  BY <1>1, ReadAround
<1> QED
  BY <1>1, <1>2 DEF QueryRead

\* What is read of a query that starts with the pieces of parameters, and
\* ends with other parts, if any.
LEMMA PairsRead ==
  ASSUME NEW params \in Seq(Pair), NEW more \in Seq(Text), NEW t,
         NonEmpty(Split(QueryRead(t), And[1])) = Pieces(params) \o more
  PROVE  /\ Len(ParamsRead(t)) = Len(params) + Len(more)
         /\ \A i \in 1..Len(params) :
              ParamsRead(t)[i] = [name |-> params[i].name,
                                  value |-> Decoded(params[i].text)]
<1> DEFINE parts == Pieces(params) \o more
           Param(part) == [name |-> Before(part, Is[1]),
                           value |-> Decoded(After(part, Is[1]))]
<1>1. ParamsRead(t) = [i \in DOMAIN parts |-> Param(parts[i])]
  BY Zenon DEF ParamsRead
<1>2. /\ Pieces(params) \in Seq(Text) /\ Len(Pieces(params)) = Len(params)
      /\ \A i \in 1..Len(params) : Pieces(params)[i] = Piece(params[i]) /\ params[i] \in Pair
  BY PiecesType
<1>3. /\ parts \in Seq(Text) /\ Len(parts) = Len(params) + Len(more)
      /\ DOMAIN parts = 1..(Len(params) + Len(more))
      /\ Len(params) \in Nat /\ Len(more) \in Nat
      /\ \A i \in 1..Len(params) : parts[i] = Pieces(params)[i]
  <2> DEFINE f == Pieces(params)
  <2>1. f \in Seq(Text) /\ Len(f) = Len(params)
    BY <1>2
  <2> HIDE DEF f
  <2>2. Len(f) \in Nat /\ Len(more) \in Nat
    BY <2>1
  <2>3. /\ f \o more \in Seq(Text) /\ Len(f \o more) = Len(f) + Len(more)
        /\ \A i \in 1..(Len(f) + Len(more)) :
             (f \o more)[i] = IF i <= Len(f) THEN f[i] ELSE more[i - Len(f)]
    BY <2>1, ConcatProperties
  <2>4. \A i \in 1..Len(f) : (f \o more)[i] = f[i]
    BY <2>2, <2>3
  <2>5. DOMAIN (f \o more) = 1..Len(f \o more)
    BY <2>3
  <2> QED
    BY <2>1, <2>2, <2>3, <2>4, <2>5 DEF f
<1> HIDE DEF parts
<1>4. Len(ParamsRead(t)) = Len(params) + Len(more)
  <2> HIDE DEF Param
  <2> QED
    BY <1>1, <1>3
<1>5. ASSUME NEW i \in 1..Len(params)
      PROVE  ParamsRead(t)[i] = [name |-> params[i].name,
                                 value |-> Decoded(params[i].text)]
  <2>1. /\ Before(Piece(params[i]), 61) = params[i].name
        /\ After(Piece(params[i]), 61) = params[i].text
    BY <1>2, PieceType
  <2>2. i \in DOMAIN parts /\ parts[i] = Piece(params[i])
    BY <1>2, <1>3
  <2>3. ParamsRead(t)[i] = Param(Piece(params[i]))
    BY <1>1, <2>2
  <2>4. Is[1] = 61
    BY DEF Is
  <2> QED
    BY <2>1, <2>3, <2>4
<1> QED
  BY <1>4, <1>5


\* The server reads these parameters, and some more.
ParamsArrive(params, more, t) ==
  /\ Len(ParamsRead(t)) = Len(params) + more
  /\ \A i \in 1..Len(params) :
       ParamsRead(t)[i] = [name |-> params[i].name,
                           value |-> Decoded(params[i].text)]

\* Of a target with parameters and no signature: the path, the parameters.
LEMMA PlainRead ==
  ASSUME NEW r, r.path \in Text, Lacks(r.path, 63), r.params \in Seq(Pair),
         Apart(r.params), NEW t, t = r.path \o Ask \o Pairs(r.params)
  PROVE  Before(t, Ask[1]) = r.path /\ ParamsArrive(r.params, 0, t)
<1> DEFINE params == r.params
           pieces == Pieces(params)
           query == Pairs(params)
<1>1. /\ pieces \in Seq(Text) /\ query = Joined(pieces, 38)
      /\ \A i \in DOMAIN pieces : pieces[i] # <<>> /\ Lacks(pieces[i], 38)
  BY PiecesType
<1> HIDE DEF pieces, query
<1>2. 38 \in Byte /\ <<>> \in Text /\ Lacks(<<>>, 38)
  BY DEF Byte, Text, Lacks
<1>3. query \in Text
  BY <1>1, <1>2, JoinedAppend
<1>4. QueryRead(t) = query /\ Before(t, Ask[1]) = r.path
  BY <1>3, QueryIs DEF query
<1>5. NonEmpty(Split(query, 38)) = pieces \o <<>>
  <2>1. Split(query \o <<>>, 38) = Append(pieces, <<>>)
    BY <1>1, <1>2, SplitJoined
  <2>2. query \o <<>> = query
    BY <1>3 DEF Text
  <2>3. NonEmpty(Append(pieces, <<>>)) = NonEmpty(pieces) \o <<>>
    BY <1>1, <1>2, NonEmptyAppend
  <2>4. NonEmpty(pieces) = pieces
    BY <1>1, NonEmptyParts
  <2> QED
    BY <2>1, <2>2, <2>3, <2>4
<1>6. NonEmpty(Split(QueryRead(t), And[1])) = Pieces(params) \o <<>>
  <2>1. And[1] = 38
    BY DEF And
  <2> QED
    BY <1>4, <1>5, <2>1 DEF pieces
<1>7. <<>> \in Seq(Text) /\ Len(<<>>) = 0 /\ Len(params) \in Nat
  OBVIOUS
<1>8. Len(ParamsRead(t)) = Len(params) + Len(<<>>)
  BY <1>6, <1>7, PairsRead
<1>9. \A i \in 1..Len(params) :
        ParamsRead(t)[i] = [name |-> params[i].name, value |-> Decoded(params[i].text)]
  BY <1>6, <1>7, PairsRead
<1>10. ParamsArrive(params, 0, t)
  BY <1>7, <1>8, <1>9 DEF ParamsArrive
<1> QED
  BY <1>4, <1>10

\* Hexadecimal digits are text without "&", and read back as the bytes they
\* were made of.
LEMMA HexRead ==
  ASSUME NEW d \in Text
  PROVE  /\ b2a_hex(d) \in Text
         /\ Lacks(b2a_hex(d), 38)
         /\ FromHex(b2a_hex(d)) = d
<1> DEFINE D == (48..57) \cup (97..102)
           Digit(n) == IF n > 9 THEN 97 - 10 + n ELSE 48 + n
           f == [i \in DOMAIN d |-> <<Digit(d[i] \div 16), Digit(d[i] % 16)>>]
           h == FlattenSeq(f)
           n == Len(d)
<1>1. b2a_hex(d) = h
  BY DEF b2a_hex
<1>2. n \in Nat /\ DOMAIN d = 1..n /\ d = [i \in 1..n |-> d[i]] /\ \A i \in 1..n : d[i] \in Byte
  BY DEF Text
<1>3. \A b \in Byte : b \div 16 \in 0..15 /\ b % 16 \in 0..15 /\ b = 16 * (b \div 16) + (b % 16)
  BY DEF Byte
<1>4. \A x \in 0..15 : Digit(x) \in D /\ HexValue(Digit(x)) = x
  <2> SUFFICES ASSUME NEW x \in 0..15 PROVE Digit(x) \in D /\ HexValue(Digit(x)) = x
    OBVIOUS
  <2>1. CASE x > 9
    <3>1. Digit(x) = 87 + x /\ 87 + x \in 97..102
      BY <2>1
    <3>2. HexValue(87 + x) = x
      BY <3>1 DEF HexValue
    <3> QED
      BY <3>1, <3>2
  <2>2. CASE ~(x > 9)
    <3>1. Digit(x) = 48 + x /\ 48 + x \in 48..57
      BY <2>2
    <3>2. HexValue(48 + x) = x
      BY <3>1 DEF HexValue
    <3> QED
      BY <3>1, <3>2
  <2> QED
    BY <2>1, <2>2
<1> HIDE DEF n, Digit, D
<1>5. \A i \in 1..n : <<Digit(d[i] \div 16), Digit(d[i] % 16)>> \in Seq(D)
  <2> SUFFICES ASSUME NEW i \in 1..n
               PROVE  <<Digit(d[i] \div 16), Digit(d[i] % 16)>> \in Seq(D)
    OBVIOUS
  <2>1. Digit(d[i] \div 16) \in D /\ Digit(d[i] % 16) \in D
    BY <1>2, <1>3, <1>4
  <2> QED
    BY <2>1
<1>6. /\ f \in Seq(Seq(D)) /\ Len(f) = n
      /\ \A i \in 1..n : f[i] = <<Digit(d[i] \div 16), Digit(d[i] % 16)>>
  <2> DEFINE F(i) == <<Digit(d[i] \div 16), Digit(d[i] % 16)>>
  <2>1. f = [i \in 1..n |-> F(i)] /\ \A i \in 1..n : F(i) \in Seq(D)
    BY <1>2, <1>5
  <2> HIDE DEF F, f
  <2>2. f \in Seq(Seq(D)) /\ Len(f) = n /\ \A i \in 1..n : f[i] = F(i)
    BY <1>2, <2>1
  <2> QED
    BY <2>2 DEF F
<1> HIDE DEF f
<1>7. h \in Seq(D)
  BY <1>6, FlattenType
<1> DEFINE k == 2
<1>8. k \in Nat /\ \A i \in 1..Len(f) : Len(f[i]) = k
  <2>1. \A x, y : Len(<<x, y>>) = 2
    OBVIOUS
  <2> QED
    BY <1>6, <2>1
<1> HIDE DEF k
<1>9. InBlocks(h, f, k)
  BY <1>6, <1>8, FlattenBlocks, Zenon
<1> HIDE DEF h
<1>10. Len(h) = 2 * n /\ \A i \in 1..n : h[2 * i - 1] = f[i][1] /\ h[2 * i] = f[i][2]
  <2>1. Len(h) = 2 * n /\ \A i \in 1..n, j \in 1..2 : h[2 * (i - 1) + j] = f[i][j]
    BY <1>6, <1>9 DEF InBlocks, k
  <2>2. ASSUME NEW i \in 1..n
        PROVE  h[2 * i - 1] = f[i][1] /\ h[2 * i] = f[i][2]
    <3>1. h[2 * (i - 1) + 1] = f[i][1] /\ h[2 * (i - 1) + 2] = f[i][2]
      BY <2>1
    <3>2. 2 * (i - 1) + 1 = 2 * i - 1 /\ 2 * (i - 1) + 2 = 2 * i
      BY <1>2
    <3> QED
      BY <3>1, <3>2
  <2> QED
    BY <2>1, <2>2
<1>11. \A i \in 1..n : 16 * HexValue(h[2 * i - 1]) + HexValue(h[2 * i]) = d[i]
  <2> SUFFICES ASSUME NEW i \in 1..n
               PROVE  16 * HexValue(h[2 * i - 1]) + HexValue(h[2 * i]) = d[i]
    OBVIOUS
  <2>1. d[i] \in Byte /\ d[i] \div 16 \in 0..15 /\ d[i] % 16 \in 0..15
        /\ d[i] = 16 * (d[i] \div 16) + (d[i] % 16)
    BY <1>2, <1>3
  <2>2. h[2 * i - 1] = Digit(d[i] \div 16) /\ h[2 * i] = Digit(d[i] % 16)
    BY <1>6, <1>10
  <2>3. HexValue(h[2 * i - 1]) = d[i] \div 16 /\ HexValue(h[2 * i]) = d[i] % 16
    BY <1>4, <2>1, <2>2
  <2> QED
    BY <2>1, <2>3
<1>12. FromHex(h) = d
  <2>1. Len(h) \div 2 = n
    BY <1>2, <1>10
  <2>2. FromHex(h) = [i \in 1..n |-> 16 * HexValue(h[2 * i - 1]) + HexValue(h[2 * i])]
    BY <2>1 DEF FromHex
  <2> QED
    BY <1>2, <1>11, <2>2
<1>13. h \in Text /\ Lacks(h, 38)
  <2>1. \A i \in 1..Len(h) : h[i] \in D
    BY <1>7
  <2>2. DOMAIN h = 1..Len(h)
    BY <1>7
  <2>3. h \in Seq(Byte)
    <3>1. D \subseteq Byte
      BY DEF D, Byte
    <3> QED
      BY <1>7, <3>1, SeqMonotonic
  <2>4. \A x \in D : x # 38
    BY DEF D
  <2>5. Lacks(h, 38)
    BY <2>1, <2>2, <2>4 DEF Lacks
  <2> QED
    BY <2>3, <2>5 DEF Text
<1> QED
  BY <1>1, <1>12, <1>13


\* The part with the time, and the part with the signature.
TimePart == <<116>> \o Is \o <<49>>

SignaturePart(d) == <<115>> \o Is \o b2a_hex(d)

\* The parts of what is signed: the parameters and the time.
SignedParts(params) == Append(Pieces(params), TimePart)

\* \o can be read from either end.  (By name, for the provers.)
Associates(a, b, c) == (a \o b) \o c = a \o (b \o c)

\* It does for texts.
LEMMA Associate ==
  ASSUME NEW a \in Text, NEW b \in Text, NEW c \in Text
  PROVE  Associates(a, b, c) /\ a \o b \in Text
BY ConcatAssociative DEF Text, Associates

\* A text that is not empty is not with another behind it.
LEMMA NotEmpty ==
  ASSUME NEW a \in Text, NEW b \in Text, a # <<>>
  PROVE  a \o b # <<>>
BY DEF Text

\* The timestamp is a part of a query as well.
LEMMA TimePartType ==
  /\ TimePart \in Text /\ TimePart # <<>> /\ Lacks(TimePart, 38)
  /\ And \in Text /\ Ask \in Text /\ Is \in Text
  /\ And = <<38>> /\ Is = <<61>> /\ Ask = <<63>>
<1> DEFINE t == <<116>>
           o == <<49>>
<1>1. t \in Text /\ o \in Text /\ And \in Text /\ Ask \in Text /\ Is \in Text /\ t # <<>>
  BY DEF And, Ask, Is, Text, Byte
<1>2. Lacks(t, 38) /\ Lacks(o, 38) /\ Lacks(Is, 38)
  BY DEF Lacks, Is
<1>3. TimePart = (t \o Is) \o o
  BY DEF TimePart
<1> HIDE DEF t, o
<1>4. t \o Is \in Text /\ t \o Is # <<>> /\ Lacks(t \o Is, 38)
  BY <1>1, <1>2, LacksConcat, NotEmpty
<1>5. TimePart \in Text /\ TimePart # <<>> /\ Lacks(TimePart, 38)
  BY <1>1, <1>2, <1>3, <1>4, LacksConcat, NotEmpty
<1> QED
  BY <1>1, <1>5 DEF And, Ask, Is

\* The signature is a part of its own, and what it is read as is the digest.
LEMMA SignaturePartType ==
  ASSUME NEW d \in Text
  PROVE  /\ SignaturePart(d) \in Text /\ SignaturePart(d) # <<>>
         /\ Lacks(SignaturePart(d), 38)
         /\ FromHex(After(SignaturePart(d), 61)) = d
<1> DEFINE s == <<115>>
           hex == b2a_hex(d)
           part == SignaturePart(d)
<1>1. s \in Text /\ s # <<>> /\ Is \in Text /\ Is = <<61>> /\ 61 \in Byte
  BY DEF Is, Text, Byte
<1>2. Lacks(s, 38) /\ Lacks(s, 61) /\ Lacks(Is, 38)
  BY DEF Lacks, Is
<1>3. hex \in Text /\ Lacks(hex, 38) /\ FromHex(hex) = d
  BY HexRead
<1>4. part = (s \o Is) \o hex
  BY DEF SignaturePart
<1> HIDE DEF s, hex, part
<1>5. s \o Is \in Text /\ s \o Is # <<>> /\ Lacks(s \o Is, 38)
  BY <1>1, <1>2, LacksConcat, NotEmpty
<1>6. part \in Text /\ part # <<>> /\ Lacks(part, 38)
  BY <1>1, <1>3, <1>4, <1>5, LacksConcat, NotEmpty
<1>7. After(part, 61) = hex
  BY <1>1, <1>2, <1>3, <1>4, ReadAround
<1> QED
  BY <1>3, <1>6, <1>7 DEF part

\* The query of a signed request is its signed text, "&" and the signature.
LEMMA SignedQuery ==
  ASSUME NEW r, r.path \in Text, r.params \in Seq(Pair), NEW d \in Text
  PROVE  LET query == (SignedText(r) \o And) \o SignaturePart(d)
         IN  /\ SignedTarget(r, d) = (r.path \o Ask) \o query
             /\ SignedText(r) \in Text
             /\ SignedText(r) \o And = Joined(SignedParts(r.params), 38)
             /\ query \in Text
<1> DEFINE pairs == Pairs(r.params)
           pieces == Pieces(r.params)
           text == SignedText(r)
           hex == b2a_hex(d)
           t == <<116>>
           e == <<49>>
           s == <<115>>
           pa == r.path \o Ask
           sig == SignaturePart(d)
<1>1. t \in Text /\ e \in Text /\ s \in Text /\ 38 \in Byte
  BY DEF Text, Byte
<1>2. Is \in Text /\ And \in Text /\ Ask \in Text /\ TimePart \in Text
  BY TimePartType
<1>3. pieces \in Seq(Text) /\ pairs = Joined(pieces, 38)
  BY PiecesType
<1>4. hex \in Text
  BY HexRead
<1>5. text = ((pairs \o t) \o Is) \o e /\ TimePart = (t \o Is) \o e
  BY DEF SignedText, TimePart
<1>6. SignedTarget(r, d) = ((((pa \o text) \o And) \o s) \o Is) \o hex
  BY DEF SignedTarget
<1>7. sig = (s \o Is) \o hex
  BY DEF SignaturePart
<1> HIDE DEF pairs, pieces, text, hex, sig, s, t, e
<1>8. pairs \in Text
  BY <1>1, <1>3, TimePartType, JoinedAppend
<1>9. text = pairs \o TimePart /\ text \in Text
  <2>1. t \o Is \in Text
    BY <1>1, <1>2, Associate
  <2>2. Associates(pairs, t, Is) /\ Associates(pairs, t \o Is, e)
    BY <1>1, <1>2, <1>8, <2>1, Associate
  <2>3. text = pairs \o TimePart
    BY <1>5, <2>2 DEF Associates
  <2> QED
    BY <1>2, <1>8, <2>3, Associate
<1>10. text \o And = Joined(SignedParts(r.params), 38)
  <2>1. Joined(Append(pieces, TimePart), 38) = (pairs \o TimePart) \o <<38>>
    BY <1>1, <1>3, TimePartType, JoinedAppend
  <2> QED
    BY <1>9, <2>1, TimePartType DEF SignedParts, pieces
<1>11. pa \in Text
  BY <1>2, Associate
<1> HIDE DEF pa
<1>12. sig \in Text /\ s \o Is \in Text /\ text \o And \in Text
  <2>1. s \o Is \in Text /\ text \o And \in Text
    BY <1>1, <1>9, <1>2, Associate
  <2> QED
    BY <2>1, SignaturePartType DEF sig
<1>13. SignedTarget(r, d) = pa \o ((text \o And) \o sig)
  <2> DEFINE x == text \o And
             y == pa \o x
  <2>1. Associates(pa, text, And) /\ x \in Text /\ y \in Text
    BY <1>2, <1>9, <1>11, <1>12, Associate
  <2> HIDE DEF x, y
  <2>2. Associates(y, s, Is) /\ Associates(y, s \o Is, hex) /\ Associates(pa, x, sig)
    BY <1>1, <1>2, <1>4, <1>11, <1>12, <2>1, Associate
  <2>3. (pa \o text) \o And = y
    BY <2>1 DEF Associates, x, y
  <2>4. ((y \o s) \o Is) \o hex = y \o sig
    BY <1>7, <2>2 DEF Associates
  <2>5. y \o sig = pa \o (x \o sig)
    BY <2>2 DEF Associates, y
  <2> QED
    BY <1>6, <2>3, <2>4, <2>5 DEF x
<1>14. (text \o And) \o sig \in Text
  BY <1>12, Associate
<1> QED
  BY <1>9, <1>10, <1>13, <1>14 DEF text, sig, pa


\* Two more parts, one after the other or together.
LEMMA AppendTwo ==
  ASSUME NEW parts \in Seq(Text), NEW a \in Text, NEW b \in Text
  PROVE  /\ Append(Append(parts, a), b) = parts \o <<a, b>>
         /\ <<a, b>> \in Seq(Text)
<1>1. <<a, b>> = Append(<<a>>, b)
  BY AppendToOne
<1>2. Append(Append(parts, a), b) = parts \o Append(<<a>>, b)
  OBVIOUS
<1>3. Append(<<a>>, b) \in Seq(Text)
  OBVIOUS
<1> QED
  BY <1>1, <1>2, <1>3

\* Of a signed target: the path, the parameters with time and signature.
LEMMA SignedRead ==
  ASSUME NEW r, r.path \in Text, Lacks(r.path, 63), r.params \in Seq(Pair),
         Apart(r.params), NEW d \in Text, NEW t, t = SignedTarget(r, d)
  PROVE  Before(t, Ask[1]) = r.path /\ ParamsArrive(r.params, 2, t)
<1> DEFINE text == SignedText(r)
           sig == SignaturePart(d)
           pieces == Pieces(r.params)
           parts == SignedParts(r.params)
           query == (text \o And) \o sig
<1>1. /\ t = (r.path \o Ask) \o query
      /\ text \o And = Joined(parts, 38)
      /\ query \in Text
  BY SignedQuery
<1>2. sig \in Text /\ sig # <<>> /\ Lacks(sig, 38)
  BY SignaturePartType
<1>3. /\ pieces \in Seq(Text)
      /\ \A i \in DOMAIN pieces : pieces[i] # <<>> /\ Lacks(pieces[i], 38)
  BY PiecesType
<1>4. parts = Append(pieces, TimePart)
  BY DEF SignedParts
<1>5. TimePart \in Text /\ TimePart # <<>> /\ Lacks(TimePart, 38)
  BY TimePartType
<1>6. And[1] = 38 /\ 38 \in Byte
  BY DEF And, Byte
<1> HIDE DEF text, sig, pieces, parts, query
<1>7. /\ parts \in Seq(Text)
      /\ \A i \in DOMAIN parts : parts[i] # <<>> /\ Lacks(parts[i], 38)
  <2>1. /\ DOMAIN pieces = 1..Len(pieces) /\ Len(pieces) \in Nat
        /\ parts \in Seq(Text) /\ DOMAIN parts = 1..(Len(pieces) + 1)
        /\ parts[Len(pieces) + 1] = TimePart
        /\ \A i \in 1..Len(pieces) : parts[i] = pieces[i]
    BY <1>3, <1>4, <1>5
  <2> QED
    BY <1>3, <1>5, <2>1
<1>8. QueryRead(t) = query /\ Before(t, Ask[1]) = r.path
  BY <1>1, QueryIs
<1>9. Split(query, 38) = Append(parts, sig)
  <2>1. \A i \in DOMAIN parts : Lacks(parts[i], 38)
    BY <1>7
  <2>2. Split(Joined(parts, 38) \o sig, 38) = Append(parts, sig)
    BY <1>2, <1>6, <1>7, <2>1, SplitJoined
  <2> QED
    BY <1>1, <2>2 DEF query
<1>10. NonEmpty(Split(QueryRead(t), And[1])) = pieces \o <<TimePart, sig>>
       /\ <<TimePart, sig>> \in Seq(Text)
  <2>1. NonEmpty(Append(parts, sig)) = NonEmpty(parts) \o <<sig>>
    BY <1>2, <1>7, NonEmptyAppend
  <2>2. NonEmpty(parts) = parts
    BY <1>7, NonEmptyParts
  <2>3. parts \o <<sig>> = Append(parts, sig)
    BY <1>2, <1>7
  <2>4. Append(Append(pieces, TimePart), sig) = pieces \o <<TimePart, sig>>
        /\ <<TimePart, sig>> \in Seq(Text)
    BY <1>2, <1>3, <1>5, AppendTwo
  <2> QED
    BY <1>4, <1>6, <1>8, <1>9, <2>1, <2>2, <2>3, <2>4
<1>11. Len(ParamsRead(t)) = Len(r.params) + Len(<<TimePart, sig>>)
  BY <1>10, PairsRead DEF pieces
<1>12. \A i \in 1..Len(r.params) :
         ParamsRead(t)[i] = [name |-> r.params[i].name, value |-> Decoded(r.params[i].text)]
  BY <1>10, PairsRead DEF pieces
<1>13. ParamsArrive(r.params, 2, t)
  <2>1. Len(<<TimePart, sig>>) = 2
    OBVIOUS
  <2> QED
    BY <1>11, <1>12, <2>1 DEF ParamsArrive
<1> QED
  BY <1>8, <1>13

\* And, whatever the texts of the parameters are: the text that is signed, and
\* the digest, for nothing has an "&" behind the one before the signature.
LEMMA SignatureRead ==
  ASSUME NEW r, r.path \in Text, Lacks(r.path, 63), r.params \in Seq(Pair),
         NEW d \in Text, NEW t, t = SignedTarget(r, d)
  PROVE  LET query == QueryRead(t)
             last == Split(query, And[1])[Len(Split(query, And[1]))]
         IN  /\ SubSeq(query, 1, Len(query) - Len(last) - 1) = SignedText(r)
             /\ FromHex(After(last, Is[1])) = d
<1> DEFINE text == SignedText(r)
           sig == SignaturePart(d)
           query == (text \o And) \o sig
<1>1. t = (r.path \o Ask) \o query /\ text \in Text /\ query \in Text
  BY SignedQuery
<1>2. sig \in Text /\ Lacks(sig, 38) /\ FromHex(After(sig, 61)) = d
  BY SignaturePartType
<1>3. And \in Text /\ And = <<38>> /\ And[1] = 38 /\ Is[1] = 61 /\ Len(And) = 1 /\ 38 \in Byte
  BY TimePartType DEF And, Is, Byte
<1> HIDE DEF text, sig, query
<1>4. QueryRead(t) = query
  BY <1>1, QueryIs
<1>5. Split(query, 38) = Append(Split(text, 38), sig) /\ Split(text, 38) \in Seq(Text)
  <2>1. Split(text \o <<38>> \o sig, 38) = Append(Split(text, 38), sig)
    BY <1>1, <1>2, <1>3, SplitMore
  <2>2. Split(text, 38) \in Seq(Text)
    BY <1>1, SplitType
  <2> QED
    BY <1>3, <2>1, <2>2 DEF query
<1>6. Split(query, 38)[Len(Split(query, 38))] = sig
  BY <1>2, <1>5
<1>7. SubSeq(query, 1, Len(query) - Len(sig) - 1) = text
  <2>1. Associates(text, And, sig) /\ And \o sig \in Text
    BY <1>1, <1>2, <1>3, Associate
  <2>2. query = text \o (And \o sig)
    BY <2>1 DEF query, Associates
  <2>3. Len(query) = Len(text) + Len(And \o sig) /\ SubSeq(query, 1, Len(text)) = text
    BY <1>1, <2>1, <2>2, FrontOf
  <2>4. Len(And \o sig) = 1 + Len(sig)
    BY <1>2, <1>3, FrontOf
  <2>5. Len(text) \in Nat /\ Len(sig) \in Nat
    BY <1>1, <1>2 DEF Text
  <2>6. Len(query) - Len(sig) - 1 = Len(text)
    BY <2>3, <2>4, <2>5
  <2> QED
    BY <2>3, <2>6
<1> QED
  BY <1>2, <1>3, <1>4, <1>6, <1>7 DEF text

\* Of a combined stream: the path and the streams.
LEMMA CombinedRead ==
  ASSUME NEW r, r.path \in Text, Lacks(r.path, 63),
         r.streams \in Seq({w \in Text : IsWord(w)})
  PROVE  /\ Before(CombinedTarget(r), Ask[1]) = r.path
         /\ StreamsRead(CombinedTarget(r)) = r.streams
<1> DEFINE W == {w \in Text : IsWord(w)}
           streams == r.streams
           s == <<115>>
           joined == Joined(streams, 47)
           query == (s \o Is) \o joined
           pa == r.path \o Ask
<1>1. /\ s \in Text /\ Is \in Text /\ Ask \in Text /\ Is = <<61>>
      /\ Lacks(s, 61)
      /\ 47 \in Byte /\ 61 \in Byte /\ Is[1] = 61 /\ Slash[1] = 47
      /\ <<>> \in Text /\ Lacks(<<>>, 47)
  BY DEF Text, Is, Ask, Slash, Lacks, Byte
<1>2. \A w \in W : w # <<>> /\ Lacks(w, 47)
  BY DEF IsWord, Lacks
<1>3. \A i \in DOMAIN streams : streams[i] \in W
  OBVIOUS
<1>4. streams \in Seq(Text)
  <2>1. W \subseteq Text
    OBVIOUS
  <2> QED
    BY <2>1, SeqMonotonic
<1>5. CombinedTarget(r) = ((pa \o s) \o Is) \o joined
  BY DEF CombinedTarget, Joined, Slash
<1> HIDE DEF W, s, joined, query, pa, streams
<1>6. joined \in Text
  BY <1>1, <1>4, JoinedAppend DEF joined
<1>7. s \o Is \in Text
  BY <1>1, Associate
<1>8. query \in Text
  BY <1>6, <1>7, Associate DEF query
<1>9. CombinedTarget(r) = pa \o query
  <2>1. pa \in Text
    BY <1>1, Associate DEF pa
  <2>2. Associates(pa, s, Is)
    BY <1>1, <2>1, Associate
  <2>3. Associates(pa, s \o Is, joined)
    BY <1>6, <1>7, <2>1, Associate
  <2> QED
    BY <1>5, <2>2, <2>3 DEF Associates, query
<1>10. Before(CombinedTarget(r), Ask[1]) = r.path /\ QueryRead(CombinedTarget(r)) = query
  BY <1>8, <1>9, QueryIs DEF pa
<1>11. After(query, 61) = joined
  BY <1>1, <1>6, ReadAround DEF query
<1>12. NonEmpty(Split(joined, 47)) = streams
  <2>1. \A i \in DOMAIN streams : Lacks(streams[i], 47)
    BY <1>2, <1>3
  <2>2. Split(joined \o <<>>, 47) = Append(streams, <<>>)
    BY <1>1, <1>4, <2>1, SplitJoined DEF joined
  <2>3. joined \o <<>> = joined
    BY <1>6 DEF Text
  <2>4. NonEmpty(Append(streams, <<>>)) = NonEmpty(streams) \o <<>>
    BY <1>1, <1>4, NonEmptyAppend
  <2>5. NonEmpty(streams) = streams
    <3>1. \A i \in DOMAIN streams : streams[i] # <<>>
      BY <1>2, <1>3
    <3> QED
      BY <1>4, <3>1, NonEmptyParts
  <2>6. streams \o <<>> = streams
    BY <1>4
  <2> QED
    BY <2>2, <2>3, <2>4, <2>5, <2>6
<1> QED
  BY <1>1, <1>10, <1>11, <1>12 DEF StreamsRead, streams


-----------------------------------------------------------------------------
(* The threads.                                                              *)

\* A REST request has any parameters of words, and a combined stream has streams.
LEMMA RestRequestType ==
  ASSUME NEW r \in RestRequests
  PROVE  /\ r.path \in Text /\ Lacks(r.path, 63)
         /\ r.params \in Seq(Pair)
         /\ r.sign \in BOOLEAN
         /\ r.streams = <<>>
         /\ r # Nothing
<1>1. Slash \o <<112>> \in Text /\ Lacks(Slash \o <<112>>, 63) /\ Slash \o <<112>> # <<>>
  <2>1. /\ Slash \in Text /\ <<112>> \in Text /\ Lacks(Slash, 63) /\ Lacks(<<112>>, 63)
        /\ Slash # <<>>
    BY DEF Slash, Text, Lacks, Byte
  <2> QED
    BY <2>1, LacksConcat, NotEmpty
<1>2. \A w \in Names, v \in Text : Given(w, v) \subseteq Pair
  <2> SUFFICES ASSUME NEW w \in Names, NEW v \in Text
               PROVE  Given(w, v) \subseteq Pair
    OBVIOUS
  <2>1. w \in Text /\ IsWord(w)
    BY RequestsAssumption DEF IsWord, Text, Byte
  <2>2. urlEncode(v) \in Text
    BY urlEncodeType
  <2>3. ASSUME NEW e \in {v, urlEncode(v)}
        PROVE  [name |-> w, meant |-> v, text |-> e] \in Pair
    BY <2>1, <2>2, <2>3 DEF Pair
  <2> QED
    BY <2>3 DEF Given
<1>3. Params \subseteq Seq(Pair)
  <2> DEFINE given == UNION {Given(w, v) : w \in Names, v \in Values}
  <2>1. given \subseteq Pair
    <3>1. Values \subseteq Text
      BY RequestsAssumption DEF Text, Byte
    <3> QED
      BY <1>2, <3>1
  <2> HIDE DEF given
  <2>2. ASSUME NEW n \in Nat, NEW p \in [1..n -> given]
        PROVE  p \in Seq(Pair)
    <3>1. p \in [1..n -> Pair]
      BY <2>1
    <3> QED
      BY <3>1
  <2>3. ASSUME NEW p \in Params
        PROVE  p \in Seq(Pair)
    <3>1. p \in UNION {[1..n -> given] : n \in 0..MaxParams}
      BY DEF Params, given
    <3>2. PICK n \in 0..MaxParams : p \in [1..n -> given]
      BY <3>1
    <3>3. n \in Nat
      OBVIOUS
    <3> QED
      BY <2>2, <3>2, <3>3
  <2> QED
    BY <2>3
<1> DEFINE bytes == UNION {Given(w, <<b>>) : w \in Names, b \in Bytes}
<1>4. bytes \subseteq Pair
  <2>1. \A b \in Bytes : <<b>> \in Text
    BY RequestsAssumption DEF Text, Byte
  <2>2. ASSUME NEW p \in bytes
        PROVE  p \in Pair
    <3>1. PICK w \in Names, b \in Bytes : p \in Given(w, <<b>>)
      OBVIOUS
    <3> QED
      BY <1>2, <2>1, <3>1
  <2> QED
    BY <2>2
<1> HIDE DEF bytes
<1>5. /\ r.path = Slash \o <<112>> /\ r.params \in Seq(Pair)
      /\ r.sign \in BOOLEAN /\ r.streams = <<>>
  <2> DEFINE single == {<<p>> : p \in bytes}
             path == Slash \o <<112>>
  <2>1. \/ r \in [path : {path}, params : Params, sign : BOOLEAN, streams : {<<>>}]
        \/ r \in [path : {path}, params : single, sign : {FALSE}, streams : {<<>>}]
    <3>1. RestRequests = [path : {path}, params : Params, sign : BOOLEAN, streams : {<<>>}]
                         \cup [path : {path}, params : single, sign : {FALSE},
                               streams : {<<>>}]
      BY DEF RestRequests, bytes
    <3> HIDE DEF path, single
    <3> QED
      BY <3>1
  <2>2. single \subseteq Seq(Pair)
    <3> SUFFICES ASSUME NEW p \in single
                 PROVE  p \in Seq(Pair)
      OBVIOUS
    <3>1. PICK q \in bytes : p = <<q>>
      OBVIOUS
    <3> QED
      BY <1>4, <3>1
  <2> HIDE DEF single, path
  <2>3. r.path = path /\ r.params \in Params \cup single /\ r.sign \in BOOLEAN /\ r.streams = <<>>
    BY <2>1
  <2> QED
    BY <1>3, <2>2, <2>3 DEF path
<1>6. r.path # Nothing.path
  BY <1>1, <1>5 DEF Nothing
<1> QED
  BY <1>1, <1>5, <1>6

\* A request for streams has words for streams, and no parameters.
LEMMA StreamRequestType ==
  ASSUME NEW r \in StreamRequests
  PROVE  /\ r.path \in Text /\ Lacks(r.path, 63)
         /\ r.params = <<>>
         /\ r.sign = FALSE
         /\ r.streams \in Seq({w \in Text : IsWord(w)})
         /\ r # Nothing
<1>1. Slash \o <<115>> \in Text /\ Lacks(Slash \o <<115>>, 63) /\ Slash \o <<115>> # <<>>
  <2>1. /\ Slash \in Text /\ <<115>> \in Text /\ Lacks(Slash, 63) /\ Lacks(<<115>>, 63)
        /\ Slash # <<>>
    BY DEF Slash, Text, Lacks, Byte
  <2> QED
    BY <2>1, LacksConcat, NotEmpty
<1> DEFINE W == {w \in Text : IsWord(w)}
<1>2. Streams \subseteq W
  BY RequestsAssumption DEF IsWord, Text, Byte
<1>3. UNION {[1..n -> Streams] : n \in 1..MaxStreams} \subseteq Seq(W)
  <2> SUFFICES ASSUME NEW n \in Nat, NEW p \in [1..n -> Streams]
               PROVE  p \in Seq(W)
    BY RequestsAssumption
  <2>1. p \in [1..n -> W]
    BY <1>2
  <2> QED
    BY <2>1
<1> HIDE DEF W
<1>4. r \in [path : {Slash \o <<115>>}, params : {<<>>}, sign : {FALSE}, streams : Seq(W)]
  BY <1>3 DEF StreamRequests
<1>5. r.path # Nothing.path
  BY <1>1, <1>4 DEF Nothing
<1> QED
  BY <1>1, <1>4, <1>5 DEF W

\* What a thread sent is the target of what it was asked, with some digest if
\* it signs.
IsTarget(r, t) ==
  \/ r \in StreamRequests /\ t = CombinedTarget(r)
  \/ r \in RestRequests /\ ~Signs(r) /\ t = PlainTarget(r)
  \/ r \in RestRequests /\ Signs(r) /\ \E d \in Text : t = SignedTarget(r, d)

\* The digest of any text is bytes.
LEMMA HmacType ==
  ASSUME NEW r \in RestRequests
  PROVE  Hmac(SignedText(r)) \in Text
<1>1. SignedText(r) \in Text
  <2>1. <<>> \in Text
    BY DEF Text
  <2> QED
    BY <2>1, RestRequestType, SignedQuery
<1>2. <<7>> \in Text
  BY DEF Text, Byte
<1> QED
  BY <1>1, <1>2, Associate DEF Hmac

\* What all steps preserve.
IInv ==
  /\ TypeOK
  /\ \A t \in signing : asked[t] \in RestRequests /\ Signs(asked[t])
  /\ \A t \in Threads : Sent(t) => IsTarget(asked[t], target[t])

\* Nothing is sent at first.
LEMMA InitInvariant == Init => IInv
BY DEF Init, IInv, TypeOK, Sent

\* Every step of every thread preserves it: what is sent is a target of what
\* the thread was asked, though the digest may be that of another.
LEMMA StepInvariant == IInv /\ [Next]_vars => IInv'
<1> SUFFICES ASSUME IInv, [Next]_vars
             PROVE  IInv'
  OBVIOUS
<1>1. /\ digest \in {<<>>} \cup {Hmac(SignedText(r)) : r \in RestRequests}
      /\ asked \in [Threads -> RestRequests \cup StreamRequests \cup {Nothing}]
      /\ signing \in SUBSET Threads
      /\ DOMAIN target = Threads
      /\ \A t \in signing : asked[t] \in RestRequests /\ Signs(asked[t])
      /\ \A t \in Threads : asked[t] # Nothing /\ t \notin signing
                              => IsTarget(asked[t], target[t])
  BY DEF IInv, TypeOK, Sent
<1>2. digest \in Text
  <2>1. <<>> \in Text
    BY DEF Text
  <2> QED
    BY <1>1, <2>1, HmacType
<1>3. ASSUME NEW f \in KeyFiles, NEW isLive \in BOOLEAN, NEW market \in Markets,
             Configure(f, isLive, market)
      PROVE  IInv'
  BY <1>1, <1>3 DEF Configure, IInv, TypeOK, Sent
<1>4. ASSUME NEW t \in Threads, SendSigned(t)
      PROVE  IInv'
  <2>1. IsTarget(asked[t], SignedTarget(asked[t], digest))
    BY <1>1, <1>2, <1>4 DEF SendSigned, IsTarget
  <2>2. /\ target' = [target EXCEPT ![t] = SignedTarget(asked[t], digest)]
        /\ asked' = asked /\ digest' = digest /\ signing' = signing \ {t}
    BY <1>4 DEF SendSigned
  <2>3. TypeOK'
    BY <1>1, <2>2 DEF TypeOK
  <2>4. \A u \in signing' : asked'[u] \in RestRequests /\ Signs(asked'[u])
    BY <1>1, <2>2
  <2>5. ASSUME NEW u \in Threads, asked'[u] # Nothing /\ u \notin signing'
        PROVE  IsTarget(asked'[u], target'[u])
    BY <1>1, <2>1, <2>2, <2>5
  <2> QED
    BY <2>3, <2>4, <2>5 DEF IInv, Sent
<1>5. ASSUME NEW t \in Threads, NEW r \in RestRequests, SendUnsigned(t, r)
      PROVE  IInv'
  <2>1. IsTarget(r, PlainTarget(r))
    BY <1>5 DEF SendUnsigned, IsTarget
  <2>2. /\ target' = [target EXCEPT ![t] = PlainTarget(r)]
        /\ asked' = [asked EXCEPT ![t] = r] /\ digest' = digest /\ signing' = signing
        /\ t \notin signing
    BY <1>5 DEF SendUnsigned, Free
  <2>3. TypeOK'
    BY <1>1, <2>2 DEF TypeOK
  <2>4. \A u \in signing' : asked'[u] \in RestRequests /\ Signs(asked'[u])
    BY <1>1, <2>2
  <2>5. ASSUME NEW u \in Threads, asked'[u] # Nothing /\ u \notin signing'
        PROVE  IsTarget(asked'[u], target'[u])
    BY <1>1, <2>1, <2>2, <2>5
  <2> QED
    BY <2>3, <2>4, <2>5 DEF IInv, Sent
<1>6. ASSUME NEW t \in Threads, NEW r \in RestRequests, Sign(t, r)
      PROVE  IInv'
  <2>1. /\ target' = target /\ asked' = [asked EXCEPT ![t] = r]
        /\ digest' = Hmac(SignedText(r)) /\ signing' = signing \cup {t}
        /\ t \notin signing /\ Signs(r)
    BY <1>6 DEF Sign, Free
  <2>2. TypeOK'
    BY <1>1, <2>1 DEF TypeOK
  <2>3. \A u \in signing' : asked'[u] \in RestRequests /\ Signs(asked'[u])
    BY <1>1, <2>1
  <2>4. ASSUME NEW u \in Threads, asked'[u] # Nothing /\ u \notin signing'
        PROVE  IsTarget(asked'[u], target'[u])
    BY <1>1, <2>1, <2>4
  <2> QED
    BY <2>2, <2>3, <2>4 DEF IInv, Sent
<1>7. ASSUME NEW t \in Threads, NEW r \in StreamRequests, startWebSocket(t, r)
      PROVE  IInv'
  <2>1. IsTarget(r, CombinedTarget(r))
    BY DEF IsTarget
  <2>2. /\ target' = [target EXCEPT ![t] = CombinedTarget(r)]
        /\ asked' = [asked EXCEPT ![t] = r] /\ digest' = digest /\ signing' = signing
        /\ t \notin signing
    BY <1>7 DEF startWebSocket, Free
  <2>3. TypeOK'
    BY <1>1, <2>2 DEF TypeOK
  <2>4. \A u \in signing' : asked'[u] \in RestRequests /\ Signs(asked'[u])
    BY <1>1, <2>2
  <2>5. ASSUME NEW u \in Threads, asked'[u] # Nothing /\ u \notin signing'
        PROVE  IsTarget(asked'[u], target'[u])
    BY <1>1, <2>1, <2>2, <2>5
  <2> QED
    BY <2>3, <2>4, <2>5 DEF IInv, Sent
<1>8. CASE UNCHANGED vars
  BY <1>1, <1>8 DEF vars, IInv, TypeOK, Sent
<1> QED
  BY <1>3, <1>4, <1>5, <1>6, <1>7, <1>8 DEF Next

\* So it always holds.
LEMMA Invariant == Spec => []IInv
BY InitInvariant, StepInvariant, PTL DEF Spec

\* The digest, the requests, the threads that sign and the targets keep their types.
THEOREM TypeCorrect == Spec => []TypeOK
<1>1. IInv => TypeOK
  BY DEF IInv
<1> QED
  BY <1>1, Invariant, PTL


\* A path without "?" is all that is read of it.
LEMMA PathRead ==
  ASSUME NEW path \in Text, Lacks(path, 63)
  PROVE  Before(path, Ask[1]) = path
<1>1. Ask[1] = 63 /\ 63 \in Byte
  BY DEF Ask, Byte
<1> QED
  BY <1>1, ReadAround

\* Texts that can stand in a query have no "&".
LEMMA FitsApart ==
  ASSUME NEW r, Fits(r)
  PROVE  Apart(r.params)
BY DEF Fits, Apart, Lacks, QueryBytes

\* All that urlEncode returns can: a request of which every text is what it
\* returned is read as it was asked.
LEMMA EncodedFits ==
  ASSUME NEW r, \A i \in DOMAIN r.params :
                  \E v \in Text : r.params[i].text = urlEncode(v)
  PROVE  Fits(r)
<1> SUFFICES ASSUME NEW i \in DOMAIN r.params, NEW k \in DOMAIN r.params[i].text
             PROVE  r.params[i].text[k] \in QueryBytes
  BY DEF Fits
<1>1. PICK v \in Text : r.params[i].text = urlEncode(v)
  OBVIOUS
<1>2. urlEncode(v) \in Text /\ \A byte \in Outside : Lacks(urlEncode(v), byte)
  BY urlEncodeType
<1>3. urlEncode(v)[k] \in Byte
  BY <1>1, <1>2 DEF Text
<1> QED
  BY <1>1, <1>2, <1>3 DEF Outside, Lacks

\* What the server reads of a target: the path, the parameters, the streams.
TargetArrives(r, t) ==
  /\ Before(t, Ask[1]) = r.path
  /\ r.params \in Seq(Pair)
  /\ r.params # <<>> => ParamsArrive(r.params, IF r.sign THEN 2 ELSE 0, t)
  /\ r.streams # <<>> => StreamsRead(t) = r.streams

\* It is what a thread was asked for, of every target that it can send if the
\* texts it was given can stand in a query.
LEMMA TargetRead ==
  ASSUME NEW r, NEW t, IsTarget(r, t), Fits(r)
  PROVE  TargetArrives(r, t)
<1> Apart(r.params)
  BY FitsApart
<1>1. CASE r \in StreamRequests /\ t = CombinedTarget(r)
  <2>1. /\ r.path \in Text /\ Lacks(r.path, 63) /\ r.params = <<>>
        /\ r.streams \in Seq({w \in Text : IsWord(w)})
    BY <1>1, StreamRequestType, Zenon
  <2>2. Before(t, Ask[1]) = r.path /\ StreamsRead(t) = r.streams
    BY <1>1, <2>1, CombinedRead, Zenon
  <2>3. <<>> \in Seq(Pair)
    OBVIOUS
  <2> QED
    BY <2>1, <2>2, <2>3 DEF TargetArrives
<1>2. CASE r \in RestRequests /\ ~Signs(r) /\ t = PlainTarget(r)
  <2>1. /\ r.path \in Text /\ Lacks(r.path, 63) /\ r.params \in Seq(Pair)
        /\ r.sign \in BOOLEAN /\ r.streams = <<>>
    BY <1>2, RestRequestType, Zenon
  <2>2. CASE r.params = <<>>
    <3>1. t = r.path
      BY <1>2, <2>2 DEF PlainTarget
    <3>2. Before(t, Ask[1]) = r.path
      BY <2>1, <3>1, PathRead, Zenon
    <3> QED
      BY <2>1, <2>2, <3>2 DEF TargetArrives
  <2>3. CASE r.params # <<>>
    <3>1. t = r.path \o Ask \o Pairs(r.params) /\ ~r.sign
      BY <1>2, <2>3 DEF PlainTarget, Signs
    <3>2. Before(t, Ask[1]) = r.path /\ ParamsArrive(r.params, 0, t)
      BY <2>1, <3>1, PlainRead, Zenon
    <3> QED
      BY <2>1, <3>1, <3>2 DEF TargetArrives
  <2> QED
    BY <2>2, <2>3
<1>3. CASE r \in RestRequests /\ Signs(r) /\ \E d \in Text : t = SignedTarget(r, d)
  <2>1. PICK d \in Text : t = SignedTarget(r, d)
    BY <1>3
  <2>2. /\ r.path \in Text /\ Lacks(r.path, 63) /\ r.params \in Seq(Pair)
        /\ r.streams = <<>> /\ r.sign
    BY <1>3, RestRequestType, Zenon DEF Signs
  <2>3. Before(t, Ask[1]) = r.path /\ ParamsArrive(r.params, 2, t)
    BY <2>1, <2>2, SignedRead, Zenon
  <2> QED
    BY <2>2, <2>3 DEF TargetArrives
<1> QED
  BY <1>1, <1>2, <1>3 DEF IsTarget

\* Of a request of which the texts can stand in a query, and of every one of
\* which they are what urlEncode returned, the server takes out the path, the
\* parameters by their names, with a timestamp and a signature exactly when that
\* was asked for, and the streams, however many they are and however many
\* threads send.
THEOREM ReadsWhatWasAsked == Spec => []ReadAsAsked
<1>1. IInv => ReadAsAsked
  <2> SUFFICES ASSUME IInv, NEW t \in Threads, Sent(t), Fits(asked[t])
               PROVE  LET r == asked[t]
                          n == Len(r.params)
                      IN  /\ Before(target[t], Ask[1]) = r.path
                          /\ n > 0 => /\ Len(ParamsRead(target[t]))
                                           = n + (IF r.sign THEN 2 ELSE 0)
                                      /\ \A i \in 1..n :
                                           ParamsRead(target[t])[i].name = r.params[i].name
                          /\ r.streams # <<>> => StreamsRead(target[t]) = r.streams
    BY Zenon DEF ReadAsAsked
  <2> DEFINE params == asked[t].params
             more == IF asked[t].sign THEN 2 ELSE 0
  <2>1. TargetArrives(asked[t], target[t])
    BY TargetRead DEF IInv
  <2>2. params \in Seq(Pair) /\ (params # <<>> => ParamsArrive(params, more, target[t]))
    BY <2>1, Zenon DEF TargetArrives
  <2> HIDE DEF params, more
  <2>3. ASSUME Len(params) > 0
        PROVE  /\ Len(ParamsRead(target[t])) = Len(params) + more
               /\ \A i \in 1..Len(params) :
                    ParamsRead(target[t])[i].name = params[i].name
    <3>1. params # <<>>
      BY <2>2, <2>3
    <3>2. ParamsArrive(params, more, target[t])
      BY <2>2, <3>1
    <3>3. ASSUME NEW i \in 1..Len(params)
          PROVE  ParamsRead(target[t])[i].name = params[i].name
      <4>1. ParamsRead(target[t])[i] = [name |-> params[i].name,
                                        value |-> Decoded(params[i].text)]
        BY <3>2, Zenon DEF ParamsArrive
      <4> QED
        BY <4>1
    <3> QED
      BY <3>2, <3>3, Zenon DEF ParamsArrive
  <2> QED
    BY <2>1, <2>3, Zenon DEF TargetArrives, params, more
<1> QED
  BY <1>1, Invariant, PTL

\* In such a request a value of any length is read as the application meant it,
\* if it is ASCII and was encoded, or was not and has no "%" and no "+".
THEOREM ValuesRead == Spec => []ValuesArrive
<1>1. IInv => ValuesArrive
  <2> DEFINE Encoded(p) == p.text = urlEncode(p.meant) /\ Ascii(p.meant)
             Plain(p) == p.text = p.meant
                           /\ \A k \in DOMAIN p.text : p.text[k] \notin {Percent, Plus}
  <2> SUFFICES ASSUME IInv, NEW t \in Threads, Sent(t), Fits(asked[t]),
                      NEW i \in DOMAIN asked[t].params,
                      Encoded(asked[t].params[i]) \/ Plain(asked[t].params[i])
               PROVE  ParamsRead(target[t])[i].value = asked[t].params[i].meant
    BY Zenon DEF ValuesArrive
  <2> DEFINE params == asked[t].params
             more == IF asked[t].sign THEN 2 ELSE 0
             p == params[i]
  <2>1. TargetArrives(asked[t], target[t])
    BY TargetRead DEF IInv
  <2>2. params \in Seq(Pair) /\ (params # <<>> => ParamsArrive(params, more, target[t]))
    BY <2>1, Zenon DEF TargetArrives
  <2>3. Encoded(p) \/ Plain(p)
    OBVIOUS
  <2> HIDE DEF params, more
  <2>4. i \in 1..Len(params) /\ params # <<>> /\ p \in Pair
    BY <2>2 DEF params
  <2>5. ParamsRead(target[t])[i].value = Decoded(p.text)
    <3>1. ParamsArrive(params, more, target[t])
      BY <2>2, <2>4
    <3>2. ParamsRead(target[t])[i] = [name |-> p.name, value |-> Decoded(p.text)]
      BY <2>4, <3>1, Zenon DEF ParamsArrive
    <3> QED
      BY <3>2
  <2>6. p.meant \in Text /\ p.text \in Text
    BY <2>4 DEF Pair
  <2> HIDE DEF p
  <2>7. ASSUME Encoded(p)
        PROVE  Decoded(p.text) = p.meant
    <3>1. p.text = urlEncode(p.meant) /\ \A k \in DOMAIN p.meant : p.meant[k] < 128
      BY <2>7 DEF Ascii
    <3>2. Decoded(urlEncode(p.meant)) = p.meant
      BY <2>6, <3>1, DecodedEncoded, Zenon
    <3> QED
      BY <3>1, <3>2
  <2>8. ASSUME Plain(p)
        PROVE  Decoded(p.text) = p.meant
    <3>1. p.text = p.meant /\ \A k \in DOMAIN p.text : p.text[k] \notin {Percent, Plus}
      BY <2>8
    <3>2. Lacks(p.text, Percent) /\ Lacks(p.text, Plus)
      BY <3>1 DEF Lacks
    <3> QED
      BY <2>6, <3>1, <3>2, DecodedPlain
  <2>9. Decoded(p.text) = p.meant
    BY <2>3, <2>7, <2>8
  <2> QED
    BY <2>5, <2>9 DEF p, params
<1> QED
  BY <1>1, Invariant, PTL


-----------------------------------------------------------------------------
(* The signature, if no two threads sign at once.                            *)

\* Not two threads are between HMAC and the reading of its result.
Serial == \A t, u \in signing : t = u

\* Then the array holds the digest of the one that is.
DigestIsOwn == \A t \in signing : digest = Hmac(SignedText(asked[t]))

TargetIsOwn ==
  \A t \in Threads :
    Sent(t) /\ Signs(asked[t]) =>
      target[t] = SignedTarget(asked[t], Hmac(SignedText(asked[t])))

SInv == IInv /\ DigestIsOwn /\ TargetIsOwn

\* No step breaks it that leaves at most one thread signing.
LEMMA StepSerial == SInv /\ Serial' /\ [Next]_vars => SInv'
<1> SUFFICES ASSUME SInv, Serial', [Next]_vars
             PROVE  SInv'
  OBVIOUS
<1> DEFINE Own(r) == SignedTarget(r, Hmac(SignedText(r)))
<1>1. /\ asked \in [Threads -> RestRequests \cup StreamRequests \cup {Nothing}]
      /\ signing \in SUBSET Threads
      /\ DOMAIN target = Threads
      /\ \A t \in signing : digest = Hmac(SignedText(asked[t]))
      /\ \A t \in Threads : asked[t] # Nothing /\ t \notin signing /\ Signs(asked[t])
                              => target[t] = Own(asked[t])
  BY DEF SInv, IInv, TypeOK, DigestIsOwn, TargetIsOwn, Sent
<1>2. IInv'
  BY StepInvariant DEF SInv
<1>3. ASSUME \A t \in signing' : digest' = Hmac(SignedText(asked'[t])),
             \A t \in Threads : asked'[t] # Nothing /\ t \notin signing' /\ Signs(asked'[t])
                                  => target'[t] = Own(asked'[t])
      PROVE  SInv'
  BY <1>2, <1>3 DEF SInv, DigestIsOwn, TargetIsOwn, Sent
<1>4. ASSUME NEW f \in KeyFiles, NEW isLive \in BOOLEAN, NEW market \in Markets,
             Configure(f, isLive, market)
      PROVE  SInv'
  <2>1. digest' = digest /\ asked' = asked /\ signing' = signing /\ target' = target
    BY <1>4 DEF Configure
  <2> HIDE DEF Own
  <2> QED
    BY <1>1, <1>3, <2>1
<1>5. ASSUME NEW t \in Threads, SendSigned(t)
      PROVE  SInv'
  <2>1. /\ t \in signing /\ signing' = signing \ {t} /\ digest' = digest /\ asked' = asked
        /\ target' = [target EXCEPT ![t] = SignedTarget(asked[t], digest)]
    BY <1>5 DEF SendSigned
  <2>2. SignedTarget(asked[t], digest) = Own(asked[t])
    BY <1>1, <2>1
  <2> HIDE DEF Own
  <2>3. target' = [target EXCEPT ![t] = Own(asked[t])]
    BY <2>1, <2>2
  <2>4. \A u \in signing' : digest' = Hmac(SignedText(asked'[u]))
    BY <1>1, <2>1
  <2>5. ASSUME NEW u \in Threads,
               asked'[u] # Nothing, u \notin signing', Signs(asked'[u])
        PROVE  target'[u] = Own(asked'[u])
    BY <1>1, <2>1, <2>3, <2>5
  <2> QED
    BY <1>3, <2>4, <2>5
<1>6. ASSUME NEW t \in Threads, NEW r \in RestRequests, SendUnsigned(t, r)
      PROVE  SInv'
  <2>1. /\ t \notin signing /\ ~Signs(r)
        /\ target' = [target EXCEPT ![t] = PlainTarget(r)]
        /\ asked' = [asked EXCEPT ![t] = r] /\ digest' = digest /\ signing' = signing
    BY <1>6 DEF SendUnsigned, Free
  <2> HIDE DEF Own
  <2>2. \A u \in signing' : digest' = Hmac(SignedText(asked'[u]))
    BY <1>1, <2>1
  <2>3. ASSUME NEW u \in Threads,
               asked'[u] # Nothing, u \notin signing', Signs(asked'[u])
        PROVE  target'[u] = Own(asked'[u])
    BY <1>1, <2>1, <2>3
  <2> QED
    BY <1>3, <2>2, <2>3
<1>7. ASSUME NEW t \in Threads, NEW r \in RestRequests, Sign(t, r)
      PROVE  SInv'
  <2>1. /\ t \notin signing /\ target' = target
        /\ asked' = [asked EXCEPT ![t] = r]
        /\ digest' = Hmac(SignedText(r)) /\ signing' = signing \cup {t}
    BY <1>7 DEF Sign, Free
  <2> HIDE DEF Own
  <2>2. \A u \in signing' : u = t
    BY <2>1 DEF Serial
  <2>3. \A u \in signing' : digest' = Hmac(SignedText(asked'[u]))
    BY <1>1, <2>1, <2>2
  <2>4. ASSUME NEW u \in Threads,
               asked'[u] # Nothing, u \notin signing', Signs(asked'[u])
        PROVE  target'[u] = Own(asked'[u])
    BY <1>1, <2>1, <2>4
  <2> QED
    BY <1>3, <2>3, <2>4
<1>8. ASSUME NEW t \in Threads, NEW r \in StreamRequests, startWebSocket(t, r)
      PROVE  SInv'
  <2>1. /\ t \notin signing /\ ~Signs(r)
        /\ target' = [target EXCEPT ![t] = CombinedTarget(r)]
        /\ asked' = [asked EXCEPT ![t] = r] /\ digest' = digest /\ signing' = signing
    BY <1>8, StreamRequestType DEF startWebSocket, Free, Signs
  <2> HIDE DEF Own
  <2>2. \A u \in signing' : digest' = Hmac(SignedText(asked'[u]))
    BY <1>1, <2>1
  <2>3. ASSUME NEW u \in Threads,
               asked'[u] # Nothing, u \notin signing', Signs(asked'[u])
        PROVE  target'[u] = Own(asked'[u])
    BY <1>1, <2>1, <2>3
  <2> QED
    BY <1>3, <2>2, <2>3
<1>9. CASE UNCHANGED vars
  <2> HIDE DEF Own
  <2> QED
    BY <1>1, <1>3, <1>9 DEF vars
<1> QED
  BY <1>4, <1>5, <1>6, <1>7, <1>8, <1>9 DEF Next

\* If no two threads sign at once, the signature that the server takes out of a
\* target is the digest of the text of that target, whatever the parameters and
\* their texts, those that cannot stand in a query too.
\* Without the hypothesis it is not: the array is shared, see MCRequests_race.
THEOREM SignatureOwnIfSerial == Spec /\ []Serial => []SignatureIsOwn
<1>1. Init => SInv
  BY InitInvariant DEF Init, SInv, DigestIsOwn, TargetIsOwn, Sent
<1>2. SInv => SignatureIsOwn
  <2> SUFFICES ASSUME SInv, NEW t \in Threads, Sent(t), Signs(asked[t])
               PROVE  LET query == QueryRead(target[t])
                          last == Split(query, And[1])[Len(Split(query, And[1]))]
                          text == SubSeq(query, 1, Len(query) - Len(last) - 1)
                      IN  FromHex(After(last, Is[1])) = Hmac(text)
    BY Zenon DEF SignatureIsOwn
  <2> DEFINE r == asked[t]
  <2>1. r \in RestRequests
    BY StreamRequestType DEF SInv, IInv, IsTarget, Signs
  <2>2. target[t] = SignedTarget(r, Hmac(SignedText(r)))
    BY DEF SInv, TargetIsOwn
  <2> HIDE DEF r
  <2>3. /\ r.path \in Text /\ Lacks(r.path, 63) /\ r.params \in Seq(Pair)
        /\ Hmac(SignedText(r)) \in Text
    BY <2>1, RestRequestType, HmacType
  <2>4. LET query == QueryRead(target[t])
            last == Split(query, And[1])[Len(Split(query, And[1]))]
        IN  /\ SubSeq(query, 1, Len(query) - Len(last) - 1) = SignedText(r)
            /\ FromHex(After(last, Is[1])) = Hmac(SignedText(r))
    BY <2>2, <2>3, SignatureRead
  <2> QED
    BY <2>4
<1> QED
  BY <1>1, <1>2, StepSerial, PTL DEF Spec

-----------------------------------------------------------------------------
(* The configuration.                                                        *)

\* There is none yet, or it is of a key file that was accepted for these hosts.
ConfigIsAccepted ==
  \/ config = NoConfig
  \/ \E f \in KeyFiles, isLive \in BOOLEAN, market \in Markets :
       Accepts(f, isLive) /\ config = Config(f.mark, Hosts(isLive, market))

\* Live keys are only used with the hosts of a live market, and test keys with
\* none of them: the marks are told apart both ways, and no host of the
\* testnet is that of a live market.
THEOREM KeysApart == Spec => []KeysStayApart
<1>1. Init => ConfigIsAccepted
  BY DEF Init, ConfigIsAccepted
<1>2. ConfigIsAccepted /\ [Next]_vars => ConfigIsAccepted'
  <2> SUFFICES ASSUME ConfigIsAccepted, [Next]_vars
               PROVE  ConfigIsAccepted'
    OBVIOUS
  <2>1. ASSUME NEW f \in KeyFiles, NEW isLive \in BOOLEAN, NEW market \in Markets,
               Configure(f, isLive, market)
        PROVE  ConfigIsAccepted'
    BY <2>1 DEF Configure, ConfigIsAccepted
  <2>2. CASE config' = config
    BY <2>2 DEF ConfigIsAccepted
  <2> QED
    BY <2>1, <2>2, Zenon
       DEF Next, vars, SendSigned, SendUnsigned, Sign, startWebSocket
<1>3. ConfigIsAccepted => KeysStayApart
  <2> SUFFICES ASSUME ConfigIsAccepted
               PROVE  KeysStayApart
    OBVIOUS
  <2> DEFINE live == UNION {{Hosts(TRUE, m).rest, Hosts(TRUE, m).ws} : m \in Markets}
  <2>1. live = {"fapi.binance.com", "fstream.binance.com", "dapi.binance.com",
                "dstream.binance.com", "api.binance.com", "stream.binance.com"}
    BY DEF Hosts, Markets
  <2>2. \A m \in Markets : {Hosts(FALSE, m).rest, Hosts(FALSE, m).ws} \cap live = {}
    BY <2>1 DEF Hosts, Markets
  <2>3. \A m \in Markets : {Hosts(TRUE, m).rest, Hosts(TRUE, m).ws} \subseteq live
    BY Zenon
  <2> HIDE DEF live
  <2>4. CASE config = NoConfig
    <3>1. config.mark = "none"
      BY <2>4 DEF NoConfig, Config
    <3> QED
      BY <3>1 DEF KeysStayApart
  <2>5. ASSUME NEW f \in KeyFiles, NEW isLive \in BOOLEAN, NEW market \in Markets,
               Accepts(f, isLive), config = Config(f.mark, Hosts(isLive, market))
        PROVE  KeysStayApart
    <3>1. /\ config.mark = f.mark
          /\ config.rest = Hosts(isLive, market).rest
          /\ config.ws = Hosts(isLive, market).ws
      BY <2>5 DEF Config
    <3>2. config.mark = "live" => {config.rest, config.ws} \subseteq live
      BY <2>3, <2>5, <3>1 DEF Accepts
    <3>3. config.mark = "test" => {config.rest, config.ws} \cap live = {}
      BY <2>2, <2>5, <3>1 DEF Accepts
    <3> QED
      BY <3>2, <3>3 DEF KeysStayApart, live
  <2> QED
    BY <2>4, <2>5 DEF ConfigIsAccepted
<1> QED
  BY <1>1, <1>2, <1>3, PTL DEF Spec
=============================================================================
