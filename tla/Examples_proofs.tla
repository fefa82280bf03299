--------------------------- MODULE Examples_proofs ---------------------------
(***************************************************************************)
(* Proofs about the example programs, for every number of markets and of   *)
(* spurious wake-ups.                                                      *)
(*                                                                         *)
(* The invariants rest on the form of the programs only: a request is sent *)
(* once, the next step waits for it, and a condition variable's scope ends *)
(* in the step after its wait.  WellFormed says so, and the first lemmas   *)
(* show it of each program.                                                *)
(***************************************************************************)
EXTENDS Examples, SequenceLemmas

Waits == {"wait", "waitFor"}

\* What a step does, and the steps whose id is a request or a scanner's.
OfRequest == {"send", "leave"} \cup Waits
OfScanner == {"run", "thread", "unwind", "stop", "notify", "join"}
Does == OfRequest \cup OfScanner \cup {"destroy"}

Steps == [do : Does, id : Nat]

\* Step k sends, and step k + 1 waits for the reply.
SendThenWait(p) ==
  \A k \in 1..Len(p) :
    p[k].do = "send" => k < Len(p) /\ p[k + 1].do \in Waits /\ p[k + 1].id = p[k].id

\* Each wait is for the request sent by the step before.
WaitAfterSend(p) ==
  \A k \in 1..Len(p) : p[k].do \in Waits => k > 1 /\ p[k - 1] = Step("send", p[k].id)

\* A condition variable's scope ends after the wait.
LeaveAfterWait(p) ==
  \A k \in 1..Len(p) :
    p[k].do = "leave" => k > 1 /\ p[k - 1].do \in Waits /\ p[k - 1].id = p[k].id

SentOnce(p) ==
  \A k, l \in 1..Len(p) : p[k].do = "send" /\ p[k] = p[l] => k = l

\* Only the test case has a wait with a timeout, in its second step, and no other.
OneTimedWait(p) ==
  \A k \in 1..Len(p) :
    p[k].do \in Waits => IF p = TestCase THEN k = 2 ELSE p[k].do = "wait"

WellFormed(p) ==
  /\ p \in Seq(Steps)
  /\ \A k \in 1..Len(p) : /\ p[k].do \in OfRequest => p[k].id \in Ids
                          /\ p[k].do \in OfScanner => p[k].id \in Scanners
  /\ SendThenWait(p)
  /\ WaitAfterSend(p)
  /\ LeaveAfterWait(p)
  /\ SentOnce(p)
  /\ OneTimedWait(p)

-----------------------------------------------------------------------------
(* The inductive invariant.                                                  *)

\* Main is in a wait only at a step of its program.
AsleepInside == asleep => pc <= Len(code)

\* The test case's only wait is its second step.
OneTimeout == code = TestCase => early <= IF pc > 2 THEN 1 ELSE 0

\* A request that has a reply, or may get one, was sent by a step already done.
SentBefore ==
  \A r \in Ids : reply[r] # "unsent" => \E k \in 1..(pc - 1) : code[k] = Step("send", r)

\* A condition variable that is gone was left by a step already done.
LeftBefore ==
  \A r \in cvGone : \E k \in 1..(pc - 1) : code[k] = Step("leave", r)

IInv ==
  /\ TypeOK
  /\ AsleepInside
  /\ OneTimeout
  /\ SentBefore
  /\ LeftBefore
  /\ WaitsForOwnReply
  /\ OnlyLateRepliesCrash

-----------------------------------------------------------------------------
(* The programs are well-formed.                                             *)

\* rest.cpp: five steps.
LEMMA RestWellFormed == WellFormed(RestExample)
<1> DEFINE p == RestExample
<1>1. /\ Len(p) = 5
      /\ p[1] = Step("send", 1) /\ p[2] = Step("wait", 1)
      /\ p[3] = Step("send", 2) /\ p[4] = Step("wait", 2)
      /\ p[5] = Step("destroy", 0)
  BY DEF RestExample
<1>2. p \in Seq(Steps)
  <2>1. \A d \in Does, i \in Nat : Step(d, i) \in Steps
    BY DEF Step, Steps
  <2>2. {"send", "wait", "destroy"} \subseteq Does
    BY DEF Does, OfRequest, OfScanner, Waits
  <2> QED
    BY <2>1, <2>2 DEF RestExample
<1>3. {1, 2} \subseteq Ids
  BY ExamplesAssumption DEF Ids
<1> HIDE DEF p
<1>4. \A k \in 1..Len(p) : k \in {1, 2, 3, 4, 5}
  BY <1>1
<1>5. \A k \in 1..Len(p) : /\ p[k].do \in OfRequest => p[k].id \in Ids
                           /\ p[k].do \in OfScanner => p[k].id \in Scanners
  BY <1>1, <1>3, <1>4 DEF Step, OfRequest, OfScanner, Waits
<1>6. SendThenWait(p)
  BY <1>1, <1>4 DEF SendThenWait, Step, Waits
<1>7. WaitAfterSend(p)
  BY <1>1, <1>4 DEF WaitAfterSend, Step, Waits
<1>8. LeaveAfterWait(p)
  BY <1>1, <1>4 DEF LeaveAfterWait, Step, Waits
<1>9. SentOnce(p)
  BY <1>1, <1>4 DEF SentOnce, Step
<1>10. OneTimedWait(p)
  BY <1>1, <1>4 DEF OneTimedWait, Step, Waits, TestCase, p
<1> QED
  BY <1>2, <1>5, <1>6, <1>7, <1>8, <1>9, <1>10 DEF WellFormed, p

\* The test case: four steps.
LEMMA TestWellFormed == WellFormed(TestCase)
<1> DEFINE p == TestCase
<1>1. /\ Len(p) = 4
      /\ p[1] = Step("send", 1) /\ p[2] = Step("waitFor", 1)
      /\ p[3] = Step("leave", 1) /\ p[4] = Step("destroy", 0)
  BY DEF TestCase
<1>2. p \in Seq(Steps)
  <2>1. \A d \in Does, i \in Nat : Step(d, i) \in Steps
    BY DEF Step, Steps
  <2>2. {"send", "waitFor", "leave", "destroy"} \subseteq Does
    BY DEF Does, OfRequest, OfScanner, Waits
  <2> QED
    BY <2>1, <2>2 DEF TestCase
<1>3. {1, 2} \subseteq Ids
  BY ExamplesAssumption DEF Ids
<1> HIDE DEF p
<1>4. \A k \in 1..Len(p) : k \in {1, 2, 3, 4}
  BY <1>1
<1>5. \A k \in 1..Len(p) : /\ p[k].do \in OfRequest => p[k].id \in Ids
                           /\ p[k].do \in OfScanner => p[k].id \in Scanners
  BY <1>1, <1>3, <1>4 DEF Step, OfRequest, OfScanner, Waits
<1>6. SendThenWait(p)
  BY <1>1, <1>4 DEF SendThenWait, Step, Waits
<1>7. WaitAfterSend(p)
  BY <1>1, <1>4 DEF WaitAfterSend, Step, Waits
<1>8. LeaveAfterWait(p)
  BY <1>1, <1>4 DEF LeaveAfterWait, Step, Waits
<1>9. SentOnce(p)
  BY <1>1, <1>4 DEF SentOnce, Step
<1>10. OneTimedWait(p)
  BY <1>1, <1>4 DEF OneTimedWait, Step, Waits, TestCase, p
<1> QED
  BY <1>2, <1>5, <1>6, <1>7, <1>8, <1>9, <1>10 DEF WellFormed, p

\* Where the steps of multiplemarkets.cpp are: those that start scanner i in
\* the i-th group of five, those that stop it in the i-th group after these.
LEMMA MarketSteps ==
  LET p == MultipleMarkets
      N == NumScanners
  IN  /\ p \in Seq(Steps)
      /\ Len(p) = 10 * N
      /\ \A i \in Scanners, j \in 1..5 : /\ p[5 * (i - 1) + j] = StartScanner(i)[j]
                                        /\ p[5 * N + 5 * (i - 1) + j] = StopScanner(i)[j]
<1> DEFINE N == NumScanners
           starts == [i \in Scanners |-> StartScanner(i)]
           stops == [i \in Scanners |-> StopScanner(i)]
<1>1. N \in Nat
  BY ExamplesAssumption
<1>2. ASSUME NEW i \in Scanners
      PROVE  /\ StartScanner(i) \in Seq(Steps) /\ Len(StartScanner(i)) = 5
             /\ StopScanner(i) \in Seq(Steps) /\ Len(StopScanner(i)) = 5
  <2>1. \A d \in Does : Step(d, i) \in Steps
    BY <1>1 DEF Step, Steps, Scanners
  <2>2. {"run", "send", "wait", "leave", "thread", "unwind", "stop", "notify", "join",
         "destroy"} \subseteq Does
    BY DEF Does, OfRequest, OfScanner, Waits
  <2> QED
    BY <2>1, <2>2 DEF StartScanner, StopScanner
<1>3. /\ starts \in Seq(Seq(Steps)) /\ Len(starts) = N
      /\ \A i \in 1..N : starts[i] = StartScanner(i)
      /\ stops \in Seq(Seq(Steps)) /\ Len(stops) = N
      /\ \A i \in 1..N : stops[i] = StopScanner(i)
  BY <1>1, <1>2 DEF Scanners
<1> DEFINE a == FlattenSeq(starts)
           b == FlattenSeq(stops)
<1> HIDE DEF starts, stops
<1>4. /\ a \in Seq(Steps) /\ b \in Seq(Steps)
  BY <1>3, FlattenType DEF a, b
<1>5. /\ Len(a) = 5 * N
      /\ \A i \in 1..N, j \in 1..5 : a[5 * (i - 1) + j] = starts[i][j]
  <2> DEFINE k == 5
  <2>1. k \in Nat /\ \A i \in 1..Len(starts) : Len(starts[i]) = k
    BY <1>2, <1>3 DEF Scanners
  <2> HIDE DEF k
  <2>2. InBlocks(a, starts, k)
    BY <1>3, <2>1, FlattenBlocks, Zenon DEF a
  <2> QED
    BY <1>3, <2>2 DEF k, InBlocks
<1>6. /\ Len(b) = 5 * N
      /\ \A i \in 1..N, j \in 1..5 : b[5 * (i - 1) + j] = stops[i][j]
  <2> DEFINE k == 5
  <2>1. k \in Nat /\ \A i \in 1..Len(stops) : Len(stops[i]) = k
    BY <1>2, <1>3 DEF Scanners
  <2> HIDE DEF k
  <2>2. InBlocks(b, stops, k)
    BY <1>3, <2>1, FlattenBlocks, Zenon DEF b
  <2> QED
    BY <1>3, <2>2 DEF k, InBlocks
<1>7. MultipleMarkets = a \o b
  BY DEF MultipleMarkets, starts, stops
<1> HIDE DEF a, b
<1>8. /\ a \o b \in Seq(Steps)
      /\ Len(a \o b) = 10 * N
      /\ \A k \in 1..(10 * N) : (a \o b)[k] = IF k <= 5 * N THEN a[k] ELSE b[k - 5 * N]
  <2>1. /\ a \o b \in Seq(Steps)
        /\ Len(a \o b) = Len(a) + Len(b)
        /\ \A k \in 1..(Len(a) + Len(b)) :
             (a \o b)[k] = IF k <= Len(a) THEN a[k] ELSE b[k - Len(a)]
    BY <1>4, ConcatProperties
  <2>2. Len(a) = 5 * N /\ Len(b) = 5 * N /\ Len(a) + Len(b) = 10 * N
    BY <1>1, <1>5, <1>6
  <2> QED
    BY <2>1, <2>2
<1>9. ASSUME NEW i \in Scanners, NEW j \in 1..5
      PROVE  /\ (a \o b)[5 * (i - 1) + j] = StartScanner(i)[j]
             /\ (a \o b)[5 * N + 5 * (i - 1) + j] = StopScanner(i)[j]
  <2> DEFINE k == 5 * (i - 1) + j
             m == 5 * N + 5 * (i - 1) + j
  <2>1. /\ k \in 1..(10 * N) /\ k <= 5 * N
        /\ m \in 1..(10 * N) /\ ~(m <= 5 * N) /\ m - 5 * N = k
    BY <1>1 DEF Scanners
  <2>2. a[k] = StartScanner(i)[j] /\ b[k] = StopScanner(i)[j]
    BY <1>3, <1>5, <1>6 DEF Scanners
  <2> HIDE DEF k, m
  <2>3. (a \o b)[k] = StartScanner(i)[j] /\ (a \o b)[m] = StopScanner(i)[j]
    BY <1>8, <2>1, <2>2
  <2> QED
    BY <2>3 DEF k, m
<1> QED
  BY <1>7, <1>8, <1>9

\* multiplemarkets.cpp, with any number of scanners.
LEMMA MarketWellFormed == WellFormed(MultipleMarkets)
<1> DEFINE p == MultipleMarkets
           N == NumScanners
<1>1. N \in Nat \ {0}
  BY ExamplesAssumption
<1>2. /\ p \in Seq(Steps)
      /\ Len(p) = 10 * N
      /\ \A i \in Scanners, j \in 1..5 : /\ p[5 * (i - 1) + j] = StartScanner(i)[j]
                                        /\ p[5 * N + 5 * (i - 1) + j] = StopScanner(i)[j]
  BY MarketSteps
<1> HIDE DEF p, N
<1>3. \A i \in Scanners :
        /\ p[5 * (i - 1) + 1] = Step("run", i)
        /\ p[5 * (i - 1) + 2] = Step("send", i)
        /\ p[5 * (i - 1) + 3] = Step("wait", i)
        /\ p[5 * (i - 1) + 4] = Step("leave", i)
        /\ p[5 * (i - 1) + 5] = Step("thread", i)
        /\ p[5 * N + 5 * (i - 1) + 1] = Step("unwind", i)
        /\ p[5 * N + 5 * (i - 1) + 2] = Step("stop", i)
        /\ p[5 * N + 5 * (i - 1) + 3] = Step("notify", i)
        /\ p[5 * N + 5 * (i - 1) + 4] = Step("join", i)
        /\ p[5 * N + 5 * (i - 1) + 5] = Step("destroy", i)
  BY <1>2 DEF StartScanner, StopScanner
<1>4. ASSUME NEW k \in 1..Len(p)
      PROVE  \E i \in Scanners, j \in 1..5 :
               k = 5 * (i - 1) + j \/ k = 5 * N + 5 * (i - 1) + j
  <2> DEFINE m == IF k <= 5 * N THEN k ELSE k - 5 * N
             i == ((m - 1) \div 5) + 1
             j == ((m - 1) % 5) + 1
  <2>1. m \in 1..(5 * N)
    BY <1>1, <1>2
  <2>2. k = m \/ k = 5 * N + m
    BY <1>1, <1>2
  <2> HIDE DEF m
  <2>3. i \in 1..N /\ j \in 1..5 /\ m = 5 * (i - 1) + j
    BY <1>1, <2>1
  <2> HIDE DEF i, j
  <2>4. k = 5 * (i - 1) + j \/ k = 5 * N + 5 * (i - 1) + j
    BY <1>1, <2>2, <2>3
  <2> QED
    BY <2>3, <2>4 DEF Scanners, N
<1>5. Scanners \subseteq Ids /\ Scanners \subseteq Nat
  BY <1>1 DEF Scanners, Ids, N
<1> DEFINE Is(k, do, i) == p[k].do = do /\ p[k].id = i
<1>6. \A k, do, i : p[k] = Step(do, i) => Is(k, do, i)
  BY DEF Step
<1> DEFINE Group(k, i) == \/ k = 5 * (i - 1) + 1 /\ Is(k, "run", i)
                          \/ k = 5 * (i - 1) + 2 /\ Is(k, "send", i)
                          \/ k = 5 * (i - 1) + 3 /\ Is(k, "wait", i)
                          \/ k = 5 * (i - 1) + 4 /\ Is(k, "leave", i)
                          \/ k = 5 * (i - 1) + 5 /\ Is(k, "thread", i)
                          \/ \E do \in {"unwind", "stop", "notify", "join", "destroy"} :
                               Is(k, do, i)
<1>7. ASSUME NEW k \in 1..Len(p)
      PROVE  \E i \in Scanners : Group(k, i)
  <2>1. PICK i \in Scanners, j \in 1..5 :
               k = 5 * (i - 1) + j \/ k = 5 * N + 5 * (i - 1) + j
    BY <1>4
  <2> HIDE DEF Is
  <2>2. j \in {1, 2, 3, 4, 5}
    OBVIOUS
  <2>3. CASE k = 5 * (i - 1) + j
    BY <1>3, <1>6, <2>2, <2>3
  <2>4. CASE k = 5 * N + 5 * (i - 1) + j
    BY <1>3, <1>6, <2>2, <2>4
  <2> QED
    BY <2>1, <2>3, <2>4
<1>8. ASSUME NEW k \in 1..Len(p)
      PROVE  /\ p[k].do \in OfRequest => p[k].id \in Ids
             /\ p[k].do \in OfScanner => p[k].id \in Scanners
  <2>1. PICK i \in Scanners : Group(k, i)
    BY <1>7
  <2>2. p[k].id = i
    BY <2>1
  <2> QED
    BY <1>5, <2>2
<1>9. ASSUME NEW k \in 1..Len(p), p[k].do = "send"
      PROVE  /\ p[k].id \in Scanners /\ k = 5 * (p[k].id - 1) + 2
             /\ k < Len(p) /\ p[k + 1].do \in Waits /\ p[k + 1].id = p[k].id
  <2>1. PICK i \in Scanners : Group(k, i)
    BY <1>7
  <2>2. k = 5 * (i - 1) + 2 /\ p[k].id = i
    BY <1>9, <2>1
  <2>3. k < Len(p) /\ k + 1 = 5 * (i - 1) + 3
    BY <1>1, <1>2, <2>2 DEF Scanners, N
  <2>4. Is(k + 1, "wait", i)
    BY <1>3, <1>6, <2>3
  <2> QED
    BY <2>2, <2>3, <2>4 DEF Waits
<1>10. ASSUME NEW k \in 1..Len(p), p[k].do \in Waits
       PROVE  k > 1 /\ p[k - 1] = Step("send", p[k].id)
  <2>1. PICK i \in Scanners : Group(k, i)
    BY <1>7
  <2>2. k = 5 * (i - 1) + 3 /\ p[k].id = i
    BY <1>10, <2>1 DEF Waits
  <2>3. k > 1 /\ k - 1 = 5 * (i - 1) + 2
    BY <2>2 DEF Scanners
  <2> QED
    BY <1>3, <2>2, <2>3
<1>11. ASSUME NEW k \in 1..Len(p), p[k].do = "leave"
       PROVE  k > 1 /\ p[k - 1].do \in Waits /\ p[k - 1].id = p[k].id
  <2>1. PICK i \in Scanners : Group(k, i)
    BY <1>7
  <2>2. k = 5 * (i - 1) + 4 /\ p[k].id = i
    BY <1>11, <2>1
  <2>3. k > 1 /\ k - 1 = 5 * (i - 1) + 3
    BY <2>2 DEF Scanners
  <2>4. Is(k - 1, "wait", i)
    BY <1>3, <1>6, <2>3
  <2> QED
    BY <2>2, <2>3, <2>4 DEF Waits
<1>12. SendThenWait(p) /\ SentOnce(p)
  BY <1>9 DEF SendThenWait, SentOnce
<1>13. OneTimedWait(p)
  <2>1. p # TestCase
    <3>1. 1 \in Scanners
      BY <1>1 DEF Scanners, N
    <3>2. p[5 * (1 - 1) + 1] = Step("run", 1)
      BY <1>3, <3>1
    <3>3. p[1].do = "run" /\ TestCase[1].do = "send"
      BY <3>2 DEF Step, TestCase
    <3> QED
      BY <3>3
  <2>2. ASSUME NEW k \in 1..Len(p), p[k].do \in Waits
        PROVE  p[k].do = "wait"
    <3>1. PICK i \in Scanners : Group(k, i)
      BY <1>7
    <3> QED
      BY <2>2, <3>1 DEF Waits
  <2> QED
    BY <2>1, <2>2 DEF OneTimedWait
<1> QED
  BY <1>2, <1>8, <1>10, <1>11, <1>12, <1>13 DEF WellFormed, WaitAfterSend, LeaveAfterWait, p

\* Every program of the model.
LEMMA AllWellFormed == \A p \in Programs : WellFormed(p)
BY RestWellFormed, TestWellFormed, MarketWellFormed, Zenon DEF Programs

-----------------------------------------------------------------------------
(* The steps.                                                                *)

\* What is known of the step that main is at.
LEMMA AtStep ==
  ASSUME TypeOK
  PROVE  /\ WellFormed(code) /\ Len(code) \in Nat /\ DOMAIN code = 1..Len(code)
         /\ pc \in 1..(Len(code) + 1)
         /\ pc <= Len(code) => /\ pc \in 1..Len(code)
                               /\ code[pc] \in Steps
                               /\ code[pc] = Step(code[pc].do, Id)
                               /\ code[pc].do \in OfRequest => Id \in Ids
                               /\ code[pc].do \in OfScanner => Id \in Scanners
<1>1. WellFormed(code) /\ pc \in 1..(Len(code) + 1)
  BY AllWellFormed DEF TypeOK
<1>2. code \in Seq(Steps)
  BY <1>1 DEF WellFormed
<1>3. Len(code) \in Nat /\ DOMAIN code = 1..Len(code) /\ \A k \in 1..Len(code) : code[k] \in Steps
  BY <1>2
<1>4. ASSUME pc <= Len(code)
      PROVE  /\ pc \in 1..Len(code)
             /\ code[pc].do \in OfRequest => Id \in Ids
             /\ code[pc].do \in OfScanner => Id \in Scanners
  <2>1. pc \in 1..Len(code)
    BY <1>1, <1>3, <1>4
  <2> QED
    BY <1>1, <2>1 DEF WellFormed, Id
<1>5. \A s \in Steps : s = Step(s.do, s.id)
  BY DEF Steps, Step
<1> QED
  BY <1>1, <1>3, <1>4, <1>5 DEF Id

\* The initial states.
LEMMA InitIInv == Init => IInv
<1> SUFFICES ASSUME Init
             PROVE  IInv
  OBVIOUS
<1>1. WellFormed(code)
  BY AllWellFormed DEF Init
<1>2. Len(code) \in Nat
  BY <1>1 DEF WellFormed
<1>3. TypeOK
  BY <1>2, ExamplesAssumption DEF Init, TypeOK
<1>4. AsleepInside /\ OneTimeout /\ SentBefore /\ LeftBefore /\ WaitsForOwnReply
      /\ OnlyLateRepliesCrash
  BY DEF Init, AsleepInside, OneTimeout, SentBefore, LeftBefore, WaitsForOwnReply,
         OnlyLateRepliesCrash
<1> QED
  BY <1>3, <1>4 DEF IInv

\* The parts of TypeOK that steps change.
TypedPlace == pc \in 1..(Len(code) + 1) /\ (asleep => pc <= Len(code) /\ code[pc].do \in Waits)
TypedEarly == early \in 0..(IF code = TestCase THEN 1 ELSE MaxSpurious)
TypedRequests ==
  /\ reply \in [Ids -> {"unsent", "sent", "given", "dropped"}]
  /\ missed \in SUBSET Ids
  /\ cvGone \in SUBSET Ids
TypedScanners ==
  /\ running \in [Scanners -> BOOLEAN]
  /\ unwound \in SUBSET Scanners
  /\ thread \in [Scanners -> {"none", "created", "in run", "blocking", "asleep", "ended"}]
TypedCrash == crash \in {"none", "dead captures", "exception", "pure virtual"}

\* Together they are TypeOK, and that main sleeps inside its program.
LEMMA TypeParts ==
  TypeOK /\ AsleepInside <=> /\ code \in Programs /\ TypedPlace /\ TypedEarly
                             /\ TypedRequests /\ TypedScanners /\ TypedCrash
BY DEF TypeOK, AsleepInside, TypedPlace, TypedEarly, TypedRequests, TypedScanners, TypedCrash, Waits

\* The same of the next state.
LEMMA TypePartsNext ==
  (TypeOK /\ AsleepInside)' <=> /\ code' \in Programs /\ TypedPlace' /\ TypedEarly'
                                /\ TypedRequests' /\ TypedScanners' /\ TypedCrash'
BY DEF TypeOK, AsleepInside, TypedPlace, TypedEarly, TypedRequests, TypedScanners, TypedCrash, Waits

\* The program stays, and main goes on by at most a step of it.
LEMMA PlaceStep ==
  ASSUME TypeOK, AsleepInside, [Next]_vars
  PROVE  /\ code' = code
         /\ pc' = pc \/ pc' = pc + 1
         /\ TypedPlace'
<1>1. /\ pc \in 1..(Len(code) + 1) /\ Len(code) \in Nat /\ asleep => pc <= Len(code)
      /\ TypedPlace
  BY AtStep, TypeParts DEF AsleepInside
<1>2. ASSUME code' = code, pc <= Len(code), pc' = pc + 1,
             asleep' => asleep /\ code[pc].do \notin Waits
      PROVE  TypedPlace'
  <2>1. ~asleep'
    BY <1>1, <1>2 DEF TypedPlace
  <2> QED
    BY <1>1, <1>2, <2>1 DEF TypedPlace
<1>3. CASE Send \/ Leave \/ Run \/ StartThread \/ Unwind \/ Stop \/ NotifyAll \/ Join \/ DestroyBeast
  <2>1. /\ code' = code /\ pc <= Len(code) /\ pc' = pc + 1
        /\ code[pc].do \notin Waits /\ asleep' = asleep
    BY <1>3 DEF Send, Leave, Run, StartThread, Unwind, Stop, NotifyAll, Join, DestroyBeast, waitVars,
                Passes, At, Waits
  <2> QED
    BY <1>2, <2>1
<1>4. CASE TimesOut \/ Spurious
  <2>1. code' = code /\ pc <= Len(code) /\ pc' = pc + 1 /\ ~asleep'
    BY <1>4 DEF TimesOut, Spurious, ReturnsEarly, Passes, At
  <2> QED
    BY <1>2, <2>1
<1>5. CASE Wait
  BY <1>1, <1>5 DEF Wait, At, TypedPlace, Waits
<1>6. ASSUME NEW r \in Ids, Handler(r)
      PROVE  /\ code' = code /\ (pc' = pc \/ pc' = pc + 1) /\ TypedPlace'
  <2>1. /\ code' = code
        /\ \/ pc' = pc /\ asleep' = asleep
           \/ asleep /\ pc' = pc + 1 /\ asleep' = FALSE
    BY <1>6 DEF Handler, HandlerNotifies, HandlerTooLate, HandlerThrows, Wakes
  <2> QED
    BY <1>1, <2>1 DEF TypedPlace
<1>7. ASSUME NEW i \in Scanners, Thread(i)
      PROVE  code' = code /\ pc' = pc /\ TypedPlace'
  <2>1. UNCHANGED <<code, pc, asleep>>
    BY <1>7 DEF Thread, ThreadCallsRun, ThreadLooks, ThreadSleeps, ThreadAt, waitVars
  <2> QED
    BY <1>1, <2>1 DEF TypedPlace
<1>8. CASE UNCHANGED vars
  BY <1>1, <1>8 DEF vars, TypedPlace
<1> QED
  BY <1>3, <1>4, <1>5, <1>6, <1>7, <1>8 DEF Next, Main

\* The type invariant.  That an early return is within its bound needs to know
\* that the test case has one wait.
LEMMA TypeStep ==
  ASSUME IInv, [Next]_vars
  PROVE  TypeOK' /\ AsleepInside' /\ OneTimeout'
<1>1. /\ TypeOK /\ AsleepInside /\ OneTimeout
      /\ code \in Programs /\ TypedPlace /\ TypedEarly /\ TypedRequests /\ TypedScanners /\ TypedCrash
  BY TypeParts DEF IInv
<1>2. /\ code' = code
      /\ pc' = pc \/ pc' = pc + 1
      /\ TypedPlace'
  BY <1>1, PlaceStep
<1>3. pc \in Nat /\ early \in Nat /\ MaxSpurious \in Nat
  BY <1>1, ExamplesAssumption DEF TypedPlace, TypedEarly
<1>4. TypedEarly' /\ OneTimeout'
  <2>1. CASE early' = early
    BY <1>1, <1>2, <1>3, <2>1 DEF TypedEarly, OneTimeout
  <2>2. CASE TimesOut \/ Spurious
    <3>1. /\ pc <= Len(code) /\ pc' = pc + 1 /\ code[pc].do \in Waits
          /\ code[pc].do = "waitFor" \/ early < MaxSpurious
          /\ early' = early + 1
      BY <2>2 DEF TimesOut, Spurious, ReturnsEarly, Passes, At, Waits
    <3>2. IF code = TestCase THEN pc = 2 ELSE code[pc].do = "wait"
      BY <1>1, <3>1, AtStep DEF WellFormed, OneTimedWait
    <3>3. CASE code = TestCase
      BY <1>1, <1>2, <1>3, <3>1, <3>2, <3>3 DEF TypedEarly, OneTimeout
    <3>4. CASE code # TestCase
      BY <1>1, <1>2, <1>3, <3>1, <3>2, <3>4 DEF TypedEarly, OneTimeout
    <3> QED
      BY <3>3, <3>4
  <2>3. early' = early \/ TimesOut \/ Spurious
    BY DEF Next, Main, Send, Wait, Leave, Run, StartThread, Unwind, Stop, NotifyAll, Join,
           DestroyBeast, Handler, HandlerNotifies, HandlerTooLate, HandlerThrows, Thread,
           ThreadCallsRun, ThreadLooks, ThreadSleeps, ThreadAt, waitVars, vars
  <2> QED
    BY <2>1, <2>2, <2>3
<1>5. TypedRequests'
  <2>1. CASE Send
    BY <1>1, <2>1, AtStep DEF Send, Passes, At, OfRequest, TypedRequests
  <2>2. CASE Leave
    BY <1>1, <2>2, AtStep DEF Leave, Passes, At, OfRequest, TypedRequests
  <2>3. CASE DestroyBeast
    BY <1>1, <2>3 DEF DestroyBeast, TypedRequests
  <2>4. ASSUME NEW r \in Ids, Handler(r)
        PROVE  TypedRequests'
    BY <1>1, <2>4 DEF Handler, HandlerNotifies, HandlerTooLate, HandlerThrows, Called, TypedRequests
  <2>5. CASE UNCHANGED <<reply, missed, cvGone>>
    BY <1>1, <2>5 DEF TypedRequests
  <2> QED
    BY <2>1, <2>2, <2>3, <2>4, <2>5
       DEF Next, Main, Wait, TimesOut, Spurious, ReturnsEarly, Run, StartThread, Unwind, Stop,
           NotifyAll, Join, Thread, ThreadCallsRun, ThreadLooks, ThreadSleeps, ThreadAt, waitVars, vars
<1>6. TypedScanners' /\ TypedCrash'
  <2>1. CASE Run \/ StartThread \/ Unwind \/ Stop \/ NotifyAll
    <3>1. Id \in Scanners /\ crash' = crash
      BY <1>1, <2>1, AtStep DEF Run, StartThread, Unwind, Stop, NotifyAll, Passes, At, OfScanner
    <3> QED
      BY <1>1, <2>1, <3>1 DEF Run, StartThread, Unwind, Stop, NotifyAll, TypedScanners, TypedCrash
  <2>2. ASSUME NEW r \in Ids, Handler(r)
        PROVE  TypedScanners' /\ TypedCrash'
    BY <1>1, <2>2 DEF Handler, HandlerNotifies, HandlerTooLate, HandlerThrows, scanVars,
                      TypedScanners, TypedCrash
  <2>3. ASSUME NEW i \in Scanners, Thread(i)
        PROVE  TypedScanners' /\ TypedCrash'
    BY <1>1, <2>3 DEF Thread, ThreadCallsRun, ThreadLooks, ThreadSleeps, ThreadAt,
                      TypedScanners, TypedCrash
  <2>4. CASE UNCHANGED <<scanVars, crash>>
    BY <1>1, <2>4 DEF scanVars, TypedScanners, TypedCrash
  <2> QED
    BY <2>1, <2>2, <2>3, <2>4
       DEF Next, Main, Send, Wait, TimesOut, Spurious, ReturnsEarly, Leave, Join, DestroyBeast,
           Passes, At, scanVars, vars
<1> QED
  BY <1>1, <1>2, <1>4, <1>5, <1>6, TypePartsNext

\* What a step may do to a reply, to the scopes, to the count and to the crash.
LEMMA WhatChanges ==
  ASSUME TypeOK, [Next]_vars
  PROVE  /\ \A r \in Ids : \/ reply'[r] = reply[r]
                          \/ reply[r] = "sent"
                          \/ /\ code[pc] = Step("send", r) /\ pc <= Len(code) /\ pc' = pc + 1
                             /\ reply'[r] = "sent"
         /\ cvGone' = cvGone \/ Leave
         /\ early' = early \/ (early' = early + 1 /\ (TimesOut \/ Spurious))
         /\ crash' # "dead captures" \/ crash' = crash \/ \E r \in Ids : HandlerTooLate(r)
         /\ \/ pc' = pc
            \/ code[pc].do \notin Waits
            \/ TimesOut \/ Spurious
            \/ \E r \in Ids : HandlerNotifies(r) /\ Wakes(r)
<1>1. reply \in [Ids -> {"unsent", "sent", "given", "dropped"}]
  BY DEF TypeOK
<1>2. ASSUME NEW r \in Ids
      PROVE  \/ reply'[r] = reply[r]
             \/ reply[r] = "sent"
             \/ /\ code[pc] = Step("send", r) /\ pc <= Len(code) /\ pc' = pc + 1
                /\ reply'[r] = "sent"
  <2>1. CASE Send
    <3>1. code[pc] = Step("send", Id) /\ pc <= Len(code) /\ pc' = pc + 1
      BY <2>1, AtStep DEF Send, Passes, At
    <3> QED
      BY <1>1, <2>1, <3>1 DEF Send
  <2>2. CASE DestroyBeast
    BY <1>1, <2>2 DEF DestroyBeast
  <2>3. CASE \E q \in Ids : Handler(q)
    BY <1>1, <2>3 DEF Handler, HandlerNotifies, HandlerTooLate, HandlerThrows, Called
  <2>4. CASE UNCHANGED reply
    BY <2>4
  <2> QED
    BY <2>1, <2>2, <2>3, <2>4
       DEF Next, Main, Wait, TimesOut, Spurious, ReturnsEarly, Leave, Run, StartThread, Unwind, Stop,
           NotifyAll, Join, Thread, ThreadCallsRun, ThreadLooks, ThreadSleeps, ThreadAt, waitVars, vars
<1>3. cvGone' = cvGone \/ Leave
  BY DEF Next, Main, Send, Wait, TimesOut, Spurious, ReturnsEarly, Run, StartThread, Unwind, Stop,
         NotifyAll, Join, DestroyBeast, Handler, HandlerNotifies, HandlerTooLate, HandlerThrows,
         Thread, ThreadCallsRun, ThreadLooks, ThreadSleeps, ThreadAt, waitVars, vars
<1>4. early' = early \/ (early' = early + 1 /\ (TimesOut \/ Spurious))
  BY DEF Next, Main, Send, Wait, TimesOut, Spurious, ReturnsEarly, Leave, Run, StartThread, Unwind,
         Stop, NotifyAll, Join, DestroyBeast, Handler, HandlerNotifies, HandlerTooLate, HandlerThrows,
         Thread, ThreadCallsRun, ThreadLooks, ThreadSleeps, ThreadAt, waitVars, vars
<1>5. crash' # "dead captures" \/ crash' = crash \/ \E r \in Ids : HandlerTooLate(r)
  BY DEF Next, Main, Send, Wait, TimesOut, Spurious, ReturnsEarly, Leave, Run, StartThread, Unwind,
         Stop, NotifyAll, Join, DestroyBeast, Passes, At, Handler, HandlerNotifies, HandlerThrows,
         Thread, ThreadCallsRun, ThreadLooks, ThreadSleeps, ThreadAt, vars
<1>6. \/ pc' = pc
      \/ code[pc].do \notin Waits
      \/ TimesOut \/ Spurious
      \/ \E r \in Ids : HandlerNotifies(r) /\ Wakes(r)
  <2>1. CASE Send \/ Leave \/ Run \/ StartThread \/ Unwind \/ Stop \/ NotifyAll \/ Join \/ DestroyBeast
    <3>1. code[pc].do \notin Waits
      BY <2>1 DEF Send, Leave, Run, StartThread, Unwind, Stop, NotifyAll, Join, DestroyBeast,
                  Passes, At, Waits
    <3> QED
      BY <3>1
  <2>2. ASSUME NEW r \in Ids, Handler(r)
        PROVE  pc' = pc \/ (HandlerNotifies(r) /\ Wakes(r))
    BY <2>2 DEF Handler, HandlerNotifies, HandlerTooLate, HandlerThrows
  <2>3. CASE Wait \/ (\E i \in Scanners : Thread(i)) \/ UNCHANGED vars
    <3>1. pc' = pc
      BY <2>3 DEF Wait, Thread, ThreadCallsRun, ThreadLooks, ThreadSleeps, ThreadAt, vars
    <3> QED
      BY <3>1
  <2> QED
    BY <2>1, <2>2, <2>3 DEF Next, Main
<1> QED
  BY <1>2, <1>3, <1>4, <1>5, <1>6

\* How often a wait returned early is a number.
LEMMA EarlyType ==
  ASSUME TypeOK
  PROVE  early \in Nat
<1>1. TypedEarly
  BY DEF TypeOK, TypedEarly
<1> QED
  BY <1>1, ExamplesAssumption DEF TypedEarly

\* What was sent and what was left, by the steps done.
LEMMA HistoryStep ==
  ASSUME IInv, [Next]_vars
  PROVE  SentBefore' /\ LeftBefore'
<1>1. TypeOK /\ AsleepInside /\ SentBefore /\ LeftBefore
  BY DEF IInv
<1>2. code' = code /\ (pc' = pc \/ pc' = pc + 1) /\ pc \in Nat \ {0}
  BY <1>1, PlaceStep, AtStep
<1>3. ASSUME NEW r \in Ids, reply'[r] # "unsent"
      PROVE  \E k \in 1..(pc' - 1) : code'[k] = Step("send", r)
  <2>1. CASE reply[r] # "unsent"
    <3>1. PICK k \in 1..(pc - 1) : code[k] = Step("send", r)
      BY <1>1, <2>1 DEF SentBefore
    <3>2. k \in 1..(pc' - 1)
      BY <1>2
    <3> QED
      BY <1>2, <3>1, <3>2
  <2>2. CASE reply[r] = "unsent"
    <3>1. code[pc] = Step("send", r) /\ pc' = pc + 1
      BY <1>1, <1>3, <2>2, WhatChanges
    <3>2. pc \in 1..(pc' - 1)
      BY <1>2, <3>1
    <3> QED
      BY <1>2, <3>1, <3>2
  <2> QED
    BY <2>1, <2>2
<1>4. ASSUME NEW r \in cvGone'
      PROVE  \E k \in 1..(pc' - 1) : code'[k] = Step("leave", r)
  <2>1. CASE r \in cvGone
    <3>1. PICK k \in 1..(pc - 1) : code[k] = Step("leave", r)
      BY <1>1, <2>1 DEF LeftBefore
    <3>2. k \in 1..(pc' - 1)
      BY <1>2
    <3> QED
      BY <1>2, <3>1, <3>2
  <2>2. CASE r \notin cvGone
    <3>1. Leave
      BY <1>1, <1>4, <2>2, WhatChanges
    <3>2. code[pc] = Step("leave", r) /\ pc' = pc + 1
      BY <1>1, <1>4, <2>2, <3>1, AtStep DEF Leave, Passes, At
    <3>3. pc \in 1..(pc' - 1)
      BY <1>2, <3>2
    <3> QED
      BY <1>2, <3>2, <3>3
  <2> QED
    BY <2>1, <2>2
<1> QED
  BY <1>3, <1>4 DEF SentBefore, LeftBefore

\* A reply that is given was given to a request sent before, and is kept.
LEMMA GivenStays ==
  ASSUME IInv, [Next]_vars, NEW r \in Ids, reply[r] = "given"
  PROVE  reply'[r] = "given"
<1>1. TypeOK /\ SentBefore
  BY DEF IInv
<1>2. PICK k \in 1..(pc - 1) : code[k] = Step("send", r)
  BY <1>1 DEF SentBefore
<1>3. ~ (code[pc] = Step("send", r) /\ pc <= Len(code))
  <2> SUFFICES ASSUME code[pc] = Step("send", r), pc <= Len(code)
               PROVE  FALSE
    OBVIOUS
  <2>1. k \in 1..Len(code) /\ pc \in 1..Len(code) /\ k # pc /\ SentOnce(code)
    BY <1>1, AtStep DEF WellFormed
  <2>2. code[k].do = "send" /\ code[k] = code[pc]
    BY <1>2 DEF Step
  <2> QED
    BY <2>1, <2>2 DEF SentOnce
<1> QED
  BY <1>1, <1>3, WhatChanges

\* Main goes on after a wait with the reply it waited for.
LEMMA WaitsStep ==
  ASSUME IInv, [Next]_vars
  PROVE  WaitsForOwnReply'
<1>1. TypeOK /\ AsleepInside /\ SentBefore /\ WaitsForOwnReply
  BY DEF IInv
<1>2. /\ code' = code /\ (pc' = pc \/ pc' = pc + 1) /\ pc \in Nat \ {0}
      /\ Len(code) \in Nat /\ pc <= Len(code) + 1
      /\ WellFormed(code)
  BY <1>1, PlaceStep, AtStep
<1> SUFFICES ASSUME early' = 0, NEW k \in 1..(pc' - 1), code[k].do \in Waits
             PROVE  reply'[code[k].id] = "given"
  BY <1>2 DEF WaitsForOwnReply, Waits
<1>3. early = 0 /\ ~(TimesOut \/ Spurious)
  <2>1. early \in Nat
    BY <1>1, EarlyType
  <2>2. TimesOut \/ Spurious => early' = early + 1
    BY DEF TimesOut, Spurious, ReturnsEarly
  <2>3. early' = early \/ early' = early + 1
    BY <1>1, WhatChanges
  <2> QED
    BY <2>1, <2>2, <2>3
<1>4. CASE k < pc
  <2>1. reply[code[k].id] = "given"
    BY <1>1, <1>2, <1>3, <1>4 DEF WaitsForOwnReply, Waits
  <2>2. k \in 1..Len(code)
    BY <1>2, <1>4
  <2>3. code[k].id \in Ids
    BY <1>2, <2>2 DEF WellFormed, OfRequest
  <2> QED
    BY <2>1, <2>3, GivenStays
<1>5. CASE k = pc /\ pc' = pc + 1
  <2>1. PICK r \in Ids : HandlerNotifies(r) /\ Wakes(r)
    <3>1. pc' # pc /\ code[pc].do \in Waits
      BY <1>2, <1>5
    <3> QED
      BY <1>1, <1>3, <3>1, WhatChanges
  <2>2. reply[r] = "sent" /\ reply' = [reply EXCEPT ![r] = "given"]
    BY <2>1 DEF HandlerNotifies, Called
  <2>3. PICK l \in 1..(pc - 1) : code[l] = Step("send", r)
    BY <1>1, <2>2 DEF SentBefore
  <2>4. code[l + 1].do \in Waits /\ code[l + 1].id = r
    <3>1. l \in 1..Len(code) /\ code[l].do = "send" /\ code[l].id = r
      BY <1>2, <2>3 DEF Step
    <3> QED
      BY <1>2, <3>1 DEF WellFormed, SendThenWait
  <2>5. l + 1 = pc
    <3> SUFFICES ASSUME l + 1 # pc
                 PROVE  FALSE
      OBVIOUS
    <3>1. l + 1 \in 1..(pc - 1)
      BY <1>2
    <3>2. reply[r] = "given"
      BY <1>1, <1>3, <2>4, <3>1 DEF WaitsForOwnReply, Waits
    <3> QED
      BY <2>2, <3>2
  <2>6. reply \in [Ids -> {"unsent", "sent", "given", "dropped"}]
    BY <1>1 DEF TypeOK
  <2> QED
    BY <1>5, <2>2, <2>4, <2>5, <2>6
<1> QED
  BY <1>2, <1>4, <1>5

\* A handler whose captures are gone comes after an early return.
LEMMA CrashStep ==
  ASSUME IInv, [Next]_vars
  PROVE  OnlyLateRepliesCrash'
<1>1. /\ TypeOK /\ AsleepInside /\ LeftBefore /\ WaitsForOwnReply /\ OnlyLateRepliesCrash
      /\ early \in Nat
  BY EarlyType DEF IInv
<1>2. early > 0 => early' > 0
  <2>1. early' = early \/ early' = early + 1
    BY <1>1, WhatChanges
  <2> QED
    BY <1>1, <2>1
<1>3. ASSUME NEW r \in Ids, HandlerTooLate(r)
      PROVE  early > 0
  <2> SUFFICES ASSUME early = 0
               PROVE  FALSE
    BY <1>1
  <2>1. reply[r] = "sent" /\ r \in cvGone
    <3>1. cvGone \subseteq Ids
      BY <1>1, TypeParts DEF TypedRequests
    <3>2. 0 \notin Ids
      BY DEF Ids
    <3> QED
      BY <1>3, <3>1, <3>2 DEF HandlerTooLate, Called, Cv
  <2>2. PICK k \in 1..(pc - 1) : code[k] = Step("leave", r)
    BY <1>1, <2>1 DEF LeftBefore
  <2>3. /\ k \in 1..Len(code) /\ code[k].do = "leave" /\ code[k].id = r
        /\ LeaveAfterWait(code) /\ pc \in Nat
    BY <1>1, <2>2, AtStep DEF Step, WellFormed
  <2>4. k - 1 \in 1..(pc - 1) /\ code[k - 1].do \in Waits /\ code[k - 1].id = r
    BY <2>3 DEF LeaveAfterWait
  <2>5. reply[r] = "given"
    BY <1>1, <2>4 DEF WaitsForOwnReply, Waits
  <2> QED
    BY <2>1, <2>5
<1> QED
  <2>1. CASE \E r \in Ids : HandlerTooLate(r)
    <3>1. early > 0
      BY <1>3, <2>1
    <3>2. early' > 0
      BY <1>2, <3>1
    <3> QED
      BY <3>2 DEF OnlyLateRepliesCrash
  <2>2. CASE crash' # "dead captures" \/ crash' = crash
    <3> SUFFICES ASSUME crash' = "dead captures"
                 PROVE  early' > 0
      BY DEF OnlyLateRepliesCrash
    <3>1. early > 0
      BY <1>1, <2>2 DEF OnlyLateRepliesCrash
    <3> QED
      BY <1>2, <3>1
  <2> QED
    BY <1>1, <2>1, <2>2, WhatChanges

-----------------------------------------------------------------------------
(* The theorems.                                                             *)

\* The invariant is inductive.
LEMMA Invariant == Spec => []IInv
<1>1. IInv /\ [Next]_vars => IInv'
  BY TypeStep, HistoryStep, WaitsStep, CrashStep DEF IInv
<1> QED
  BY InitIInv, <1>1, PTL DEF Spec

\* Main stays within its program and sleeps at its waits only; the test case
\* times out at most once.
THEOREM TypeCorrect == Spec => []TypeOK
<1>1. IInv => TypeOK
  BY DEF IInv
<1> QED
  BY <1>1, Invariant, PTL

\* After a wait main has the reply of the request it sent before the wait,
\* though notifications carry no request and the waits have no predicate,
\* unless a wait returned early.
THEOREM OwnReplies == Spec => []WaitsForOwnReply
<1>1. IInv => WaitsForOwnReply
  BY DEF IInv
<1> QED
  BY <1>1, Invariant, PTL

\* No handler meets captures that are gone, unless a wait returned early.
THEOREM LateRepliesOnly == Spec => []OnlyLateRepliesCrash
<1>1. IInv => OnlyLateRepliesCrash
  BY DEF IInv
<1> QED
  BY <1>1, Invariant, PTL
=============================================================================
