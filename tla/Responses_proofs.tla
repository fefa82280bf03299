-------------------------- MODULE Responses_proofs --------------------------
(***************************************************************************)
(* What hasErrorCode() may be trusted with, for every answer that Binance   *)
(* can send and every sequence of calls.                                    *)
(*                                                                          *)
(* What makes it an invariant that a second call agrees with the first is   *)
(* that every answer given so far is still the verdict on the JSON and the  *)
(* class alone, though each call writes the state and the message.          *)
(***************************************************************************)
EXTENDS Responses, TLAPS

-----------------------------------------------------------------------------
(* The inductive invariant.                                                  *)

\* Only a response that was built can have been asked.
Built ==
  /\ class = "none" <=> source = "none"
  /\ class = "none" => \A n \in BOOLEAN : asked[n] = "never"

\* What it was built from, as far as no call may change it.
Origin ==
  /\ source = "reason" => resp.json = Null /\ resp.failMessage = "reason"
  /\ source = "Disconnect" <=> resp.state = "Disconnect"

\* Every answer is the verdict on the JSON; a Disconnect was never an error.
Answers ==
  \A n \in BOOLEAN :
    /\ asked[n] = "error" => source # "Disconnect" /\ IsError(class, resp.json, n)
    /\ asked[n] = "fine"  => source = "Disconnect" \/ ~IsError(class, resp.json, n)

IInv == TypeOK /\ Built /\ Origin /\ Answers

-----------------------------------------------------------------------------
(* Lemmas.                                                                   *)

\* The values a response can have.
Kept == [json : Json, state : {"Fail", "Success", "Disconnect"},
         failMessage : {"", "reason", "msg"}]

\* What a message becomes is one of the messages a response can hold.
LEMMA MessageType ==
  ASSUME NEW c, NEW r \in Kept
  PROVE  Message(c, r) \in {"", "reason", "msg"}
BY DEF Message, Kept

\* A response without JSON has no code, so its message is not replaced.
LEMMA NullKeepsMessage ==
  ASSUME NEW c, NEW r, r.json = Null
  PROVE  Message(c, r) = r.failMessage
BY DEF Message, TakesMessage, Null, NoMembers, HasCode

\* Null is one of the values the JSON can be.
LEMMA NullIsJson == Null \in Json
BY DEF Null, Json, NoMembers

\* A response that was not built has not been asked.
LEMMA InitIInv == Init => IInv
<1> SUFFICES ASSUME Init PROVE IInv
  OBVIOUS
<1>1. /\ class = "none" /\ source = "none"
      /\ resp = [json |-> Null, state |-> "Success", failMessage |-> ""]
      /\ asked = [n \in BOOLEAN |-> "never"]
  BY DEF Init
<1>2. resp \in Kept
  BY <1>1, NullIsJson DEF Kept
<1>3. \A n \in BOOLEAN : asked[n] = "never"
  BY <1>1
<1>4. asked \in [BOOLEAN -> {"never", "error", "fine"}]
  BY <1>1, Zenon
<1>5. TypeOK
  BY <1>1, <1>2, <1>4 DEF TypeOK, Kept
<1>6. Built /\ Origin /\ Answers
  BY <1>1, <1>3 DEF Built, Origin, Answers
<1>7. QED
  BY <1>5, <1>6 DEF IInv

\* A constructor: the first step, and the only one that chooses the JSON.
LEMMA ConstructorsKeep ==
  ASSUME IInv, NEW c \in {"rest", "ws"},
         NEW s \in {"reason", "json", "Success", "Disconnect"},
         NEW r \in Kept,
         Builds(c, s, r),
         s = "reason" => r.json = Null /\ r.failMessage = "reason",
         s = "Disconnect" <=> r.state = "Disconnect"
  PROVE  IInv'
<1>1. /\ TypeOK /\ class = "none" /\ class' = c /\ source' = s /\ resp' = r
      /\ asked' = asked
  BY DEF IInv, Builds
<1>2. \A n \in BOOLEAN : asked'[n] = "never"
  BY <1>1 DEF IInv, Built
<1>3. TypeOK'
  BY <1>1 DEF TypeOK, Kept
<1>4. Built' /\ Origin'
  BY <1>1, <1>2 DEF Built, Origin
<1>5. Answers'
  BY <1>2 DEF Answers
<1>6. QED
  BY <1>3, <1>4, <1>5 DEF IInv

\* hasErrorCode: the JSON stays, and the answer is the verdict on it.
LEMMA AskingKeeps ==
  ASSUME IInv, NEW n \in BOOLEAN, hasErrorCode(n)
  PROVE  /\ IInv'
         /\ asked[n] # "never" => asked'[n] = asked[n]
<1> DEFINE answer == IF resp'.state = "Fail" THEN "error" ELSE "fine"
<1>1. /\ TypeOK /\ Built /\ Origin /\ Answers
      /\ class # "none" /\ class' = class /\ source' = source
      /\ resp' = Judge(class, resp, n)
      /\ asked' = [asked EXCEPT ![n] = answer]
  BY DEF IInv, hasErrorCode
<1>2. asked'[n] = answer /\ \A m \in BOOLEAN \ {n} : asked'[m] = asked[m]
  BY <1>1 DEF TypeOK
<1>3. /\ resp'.json = resp.json
      /\ resp'.state = "Disconnect" <=> resp.state = "Disconnect"
      /\ answer = "error" <=> /\ source # "Disconnect"
                              /\ IsError(class, resp.json, n)
  <2>1. CASE resp.state = "Disconnect"
    BY <1>1, <2>1 DEF Judge, Origin
  <2>2. CASE resp.state # "Disconnect"
    BY <1>1, <2>2 DEF Judge, Origin
  <2>3. QED
    BY <2>1, <2>2
<1>4. answer \in {"error", "fine"}
  OBVIOUS
<1> HIDE DEF answer
<1>5. TypeOK'
  <2>1. resp \in Kept
    BY <1>1 DEF TypeOK, Kept
  <2>2. resp' \in Kept
    BY <1>1, <2>1, MessageType DEF Judge, Kept
  <2>3. QED
    BY <1>1, <1>4, <2>2 DEF TypeOK, Kept
<1>6. Built'
  BY <1>1 DEF Built
<1>7. Origin'
  <2>1. source = "reason" => resp'.failMessage = "reason"
    BY <1>1, NullKeepsMessage DEF Origin, Judge
  <2>2. QED
    BY <1>1, <1>3, <2>1 DEF Origin
<1>8. Answers'
  <2> SUFFICES ASSUME NEW m \in BOOLEAN
               PROVE  /\ asked'[m] = "error" =>
                           source' # "Disconnect" /\ IsError(class', resp'.json, m)
                      /\ asked'[m] = "fine" =>
                           source' = "Disconnect" \/ ~IsError(class', resp'.json, m)
    BY DEF Answers
  <2>0. class' = class /\ resp'.json = resp.json /\ source' = source
    BY <1>1, <1>3
  <2>1. CASE m = n
    BY <2>0, <1>2, <1>3, <1>4, <2>1
  <2>2. CASE m # n
    BY <2>0, <1>1, <1>2, <2>2 DEF Answers
  <2>3. QED
    BY <2>1, <2>2
<1>9. asked[n] # "never" => asked'[n] = asked[n]
  BY <1>1, <1>2, <1>3, <1>4 DEF TypeOK, Answers
<1>10. QED
  BY <1>5, <1>6, <1>7, <1>8, <1>9 DEF IInv

\* Every step keeps the invariant, and no step changes an answer once given.
LEMMA NextKeeps ==
  ASSUME IInv, [Next]_vars
  PROVE  /\ IInv'
         /\ \A n \in BOOLEAN : asked[n] # "never" => asked'[n] = asked[n]
<1>1. CASE UNCHANGED vars
  BY <1>1 DEF vars, IInv, TypeOK, Built, Origin, Answers
<1>2. ASSUME NEW c \in {"rest", "ws"}, FromReason(c)
      PROVE  IInv' /\ asked' = asked
  <2> DEFINE r == [json |-> Null, state |-> "Fail", failMessage |-> "reason"]
  <2>1. r \in Kept /\ r.json = Null /\ r.failMessage = "reason"
        /\ r.state # "Disconnect"
    BY NullIsJson DEF Kept
  <2>2. Builds(c, "reason", r)
    BY <1>2 DEF FromReason
  <2> HIDE DEF r
  <2>3. asked' = asked
    BY <2>2 DEF Builds
  <2>4. IInv'
    BY <2>1, <2>2, ConstructorsKeep
  <2>5. QED
    BY <2>3, <2>4
<1>3. ASSUME NEW c \in {"rest", "ws"}, NEW j \in Json, FromJson(c, j)
      PROVE  IInv' /\ asked' = asked
  <2> DEFINE r == [json |-> j, state |-> "Success", failMessage |-> ""]
  <2>1. r \in Kept /\ r.state # "Disconnect"
    BY DEF Kept
  <2>2. Builds(c, "json", r)
    BY <1>3 DEF FromJson
  <2> HIDE DEF r
  <2>3. asked' = asked
    BY <2>2 DEF Builds
  <2>4. IInv'
    BY <2>1, <2>2, ConstructorsKeep
  <2>5. QED
    BY <2>3, <2>4
<1>4. ASSUME NEW s \in {"Success", "Disconnect"}, FromState(s)
      PROVE  IInv' /\ asked' = asked
  <2> DEFINE r == [json |-> Null, state |-> s, failMessage |-> ""]
  <2>1. r \in Kept /\ r.state = s
    BY NullIsJson DEF Kept
  <2>2. Builds("ws", s, r)
    BY <1>4 DEF FromState
  <2> HIDE DEF r
  <2>3. asked' = asked
    BY <2>2 DEF Builds
  <2>4. IInv'
    BY <2>1, <2>2, ConstructorsKeep
  <2>5. QED
    BY <2>3, <2>4
<1>5. ASSUME NEW n \in BOOLEAN, hasErrorCode(n)
      PROVE  /\ IInv'
             /\ \A m \in BOOLEAN : asked[m] # "never" => asked'[m] = asked[m]
  <2>1. \A m \in BOOLEAN \ {n} : asked'[m] = asked[m]
    BY <1>5 DEF hasErrorCode, IInv, TypeOK
  <2>2. QED
    BY <1>5, <2>1, AskingKeeps
<1>6. QED
  BY <1>1, <1>2, <1>3, <1>4, <1>5 DEF Next, vars

-----------------------------------------------------------------------------
(* Theorems.                                                                 *)

\* Whatever JSON Binance sends and however often it is asked, IInv holds.
THEOREM Invariant == Spec => []IInv
<1>1. IInv /\ [Next]_vars => IInv'
  BY NextKeeps
<1>2. QED
  BY InitIInv, <1>1, PTL DEF Spec

\* Both response classes keep to the values their members can have.
THEOREM TypeCorrect == Spec => []TypeOK
<1>1. IInv => TypeOK
  BY DEF IInv
<1>2. QED
  BY Invariant, <1>1, PTL

\* A failure reported by a fail overload stays an error to hasErrorCode(), and
\* its reason survives every call.
THEOREM FailuresStay == Spec => []FailureStays
<1>1. IInv => FailureStays
  <2> SUFFICES ASSUME IInv, source = "reason"
               PROVE  asked[FALSE] # "fine" /\ resp.failMessage = "reason"
    BY DEF FailureStays
  <2>1. resp.json = Null /\ resp.failMessage = "reason"
    BY DEF IInv, Origin
  <2>2. IsError(class, resp.json, FALSE)
    BY <2>1 DEF IsError, Null
  <2>3. QED
    BY <2>1, <2>2 DEF IInv, Answers
<1>2. QED
  BY Invariant, <1>1, PTL

\* Asked again, a response gives the same answer.
THEOREM AnswersAgree == Spec => SameAnswer
<1> DEFINE Agrees ==
      \A nullAllowed \in BOOLEAN :
        asked[nullAllowed] # "never" => asked'[nullAllowed] = asked[nullAllowed]
<1>1. IInv /\ [Next]_vars => [Agrees]_vars
  BY NextKeeps
<1>2. SameAnswer <=> [][Agrees]_vars
  BY DEF SameAnswer
<1> HIDE DEF Agrees
<1>3. QED
  BY Invariant, <1>1, <1>2, PTL DEF Spec
=============================================================================
