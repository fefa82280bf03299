------------------------------ MODULE RestCall ------------------------------
(***************************************************************************)
(* What sendRestRequest promises: the handler of every request is called   *)
(* exactly once, unless the BinanceBeast object is being destroyed or the    *)
(* process ends, when requests without an answer may be left without one.   *)
(***************************************************************************)
EXTENDS Naturals

CONSTANT Requests

VARIABLES
  sent,     \* requests accepted by sendRestRequest
  answers,  \* how often the handler of each was called
  dropped,  \* requests that will never be answered
  closing   \* the destructor has begun, or the process ended

callVars == <<sent, answers, dropped, closing>>

CallInit ==
  /\ sent = {}
  /\ answers = [r \in Requests |-> 0]
  /\ dropped = {}
  /\ closing = FALSE

Send(r) ==
  /\ r \notin sent
  /\ sent' = sent \cup {r}
  /\ UNCHANGED <<answers, dropped, closing>>

Waiting == {r \in sent \ dropped : answers[r] = 0}

Answer(r) ==
  /\ r \in Waiting
  /\ answers' = [answers EXCEPT ![r] = 1]
  /\ UNCHANGED <<sent, dropped, closing>>

Close ==
  /\ closing' = TRUE
  /\ \E lost \in SUBSET Waiting : dropped' = dropped \cup lost
  /\ UNCHANGED <<sent, answers>>

CallNext == (\E r \in Requests : Send(r) \/ Answer(r)) \/ Close

CallSafety == CallInit /\ [][CallNext]_callVars

CallSpec ==
  /\ CallSafety
  /\ \A r \in Requests : WF_callVars(Answer(r))
=============================================================================
