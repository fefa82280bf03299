-------------------------- MODULE ListenKey_proofs --------------------------
(***************************************************************************)
(* Safety of the listen key's calls on three threads that share m_listenKey *)
(* without a lock, for any number of keys and of failed calls.              *)
(*                                                                          *)
(* The calls of one thread do not spoil another's because only the          *)
(* application's own thread sends POST and DELETE, and a PUT leaves the     *)
(* member as it finds it: between clearing the key and opening the stream   *)
(* nobody but startUserData itself writes it.                               *)
(***************************************************************************)
EXTENDS ListenKey, SequenceTheorems, TLAPS

-----------------------------------------------------------------------------
(* The inductive invariant.                                                  *)

\* How far a call has come tells what Binance answered.
Steps ==
  \A t \in Threads :
    /\ t # "main" => mode[t] = "Extend" \/ (pc[t] = "idle" /\ reply[t] = "none")
    /\ pc[t] = "exchange" => reply[t] = "none"
    /\ pc[t] \in {"clear", "parse"} => reply[t] # "none"
    /\ pc[t] = "return" => reply[t] \in {"ok", "error"}
    /\ pc[t] = "connect" => reply[t] = "ok" /\ mode[t] = "Create"

\* A call in mode m that failed has told its handler so, startUserData once.
Failed(v, m) ==
  /\ \E i \in 1..Len(v) : v[i] = "Fail"
  /\ m = "Create" => Len(v) = 1

\* What the handler of a call has been told so far.
Told ==
  \A t \in Threads :
    /\ pc[t] \in {"exchange", "clear", "parse", "connect"} => verdicts[t] = <<>>
    /\ pc[t] = "return" =>
         verdicts[t] = IF reply[t] = "error" THEN <<"Fail">> ELSE <<>>
    /\ pc[t] = "idle" /\ reply[t] = "error" => Failed(verdicts[t], mode[t])

\* From the exchange on, m_listenKey is what startUserData made it.
OwnKey ==
  mode["main"] = "Create" =>
    /\ pc["main"] \in {"clear", "parse", "return", "connect"} /\ reply["main"] = "ok" =>
         given["main"] # 0
    /\ pc["main"] = "parse" => listenKey = 0
    /\ pc["main"] \in {"return", "connect"} =>
         listenKey = IF reply["main"] = "ok" THEN given["main"] ELSE 0

\* Waits of the timer that are pending, have fired, or are being handled.
Outstanding ==
  Len(fired) + (IF armed THEN 1 ELSE 0) + (IF pc["extender"] = "idle" THEN 0 ELSE 1)

\* A renewal arms the timer once more than it consumes a wait only when it
\* failed: the handler is then called twice.
Rearmed ==
  Outstanding
    + (IF pc["extender"] \in {"clear", "parse"} /\ reply["extender"] = "error"
       THEN 1 ELSE 0)
      <= failures + 1

IInv == TypeOK /\ Steps /\ Told /\ OwnKey /\ StreamOnOwnKey /\ Rearmed

-----------------------------------------------------------------------------
(* Lemmas.                                                                   *)

\* One Fail is what every mode asks for.
LEMMA OneFail == \A m : Failed(<<"Fail">>, m)
<1> SUFFICES ASSUME NEW m PROVE Failed(<<"Fail">>, m)
  OBVIOUS
<1>1. Len(<<"Fail">>) = 1 /\ <<"Fail">>[1] = "Fail"
  OBVIOUS
<1>2. 1 \in 1..Len(<<"Fail">>)
  BY <1>1
<1>3. QED
  BY <1>1, <1>2, Zenon DEF Failed

\* More may follow, but not for startUserData.
LEMMA FailFirst ==
  ASSUME NEW v, v = <<"Fail">>, NEW m, m # "Create", NEW s \in {"Fail", "Success"}
  PROVE  Failed(Append(v, s), m)
<1>1. v \in Seq({"Fail", "Success"}) /\ Len(v) = 1 /\ v[1] = "Fail"
  OBVIOUS
<1>2. Len(Append(v, s)) = 2 /\ Append(v, s)[1] = "Fail"
  BY <1>1, AppendProperties
<1>3. 1 \in 1..Len(Append(v, s))
  BY <1>2
<1>4. QED
  BY <1>2, <1>3, Zenon DEF Failed

\* Arming the timer aborts the wait that is pending, and no other.
LEMMA RearmAdds ==
  ASSUME TypeOK, Rearm
  PROVE  /\ fired' \in Seq(Waits) /\ armed' \in BOOLEAN /\ armed'
         /\ Len(fired') = Len(fired) + (IF armed THEN 1 ELSE 0)
         /\ UNCHANGED <<due, extender>>
<1>1. fired \in Seq(Waits) /\ Len(fired) \in Nat /\ "aborted" \in Waits
  BY DEF TypeOK, Waits
<1>2. CASE armed
  BY <1>1, <1>2 DEF Rearm
<1>3. CASE ~armed
  BY <1>1, <1>3 DEF Rearm
<1>4. QED
  BY <1>2, <1>3

\* Telling a handler: one more verdict for that thread, and the timer armed if
\* the thread is the extender's.
LEMMA GivingAdds ==
  ASSUME TypeOK, NEW t \in Threads, NEW s \in {"Fail", "Success"}, GivesHandler(t, s)
  PROVE  /\ verdicts' \in [Threads -> Seq({"Fail", "Success"})]
         /\ verdicts'[t] = Append(verdicts[t], s)
         /\ \A u \in Threads \ {t} : verdicts'[u] = verdicts[u]
         /\ fired' \in Seq(Waits) /\ armed' \in BOOLEAN
         /\ UNCHANGED <<due, extender>>
         /\ t # "extender" => UNCHANGED <<armed, fired>>
         /\ t = "extender" =>
              /\ armed'
              /\ Len(fired') = Len(fired) + (IF armed THEN 1 ELSE 0)
<1>1. Append(verdicts[t], s) \in Seq({"Fail", "Success"})
  BY DEF TypeOK
<1>2. verdicts' = [verdicts EXCEPT ![t] = Append(verdicts[t], s)]
  BY DEF GivesHandler
<1>3. /\ verdicts' \in [Threads -> Seq({"Fail", "Success"})]
      /\ verdicts'[t] = Append(verdicts[t], s)
      /\ \A u \in Threads \ {t} : verdicts'[u] = verdicts[u]
  BY <1>1, <1>2 DEF TypeOK
<1>4. CASE t = "extender"
  BY <1>3, <1>4, RearmAdds DEF GivesHandler
<1>5. CASE t # "extender"
  <2>1. UNCHANGED timerVars
    BY <1>5 DEF GivesHandler
  <2>2. QED
    BY <1>3, <1>5, <2>1 DEF timerVars, TypeOK
<1>6. QED
  BY <1>4, <1>5

\* The timer's part of a step that does not touch the timer, and in which the
\* extender moves on within its call, or from one that it gives up.
LEMMA NotRearmed ==
  ASSUME IInv, UNCHANGED timerVars, failures' \in Nat, failures' >= failures,
         pc["extender"] = "idle" => pc'["extender"] = "idle",
         pc'["extender"] \in {"clear", "parse"} /\ reply'["extender"] = "error" =>
           \/ failures' = failures + 1
           \/ pc["extender"] \in {"clear", "parse"} /\ reply["extender"] = "error"
  PROVE  Rearmed'
<1> DEFINE wait == IF armed THEN 1 ELSE 0
           call == IF pc["extender"] = "idle" THEN 0 ELSE 1
           owed == IF pc["extender"] \in {"clear", "parse"} /\ reply["extender"] = "error"
                   THEN 1 ELSE 0
<1>1. /\ Len(fired) \in Nat /\ failures \in Nat
      /\ Len(fired') = Len(fired) /\ wait' = wait
  BY DEF IInv, TypeOK, timerVars
<1>2. /\ wait \in {0, 1}
      /\ call \in {0, 1} /\ call' \in {0, 1} /\ call' <= call
      /\ owed \in {0, 1} /\ owed' \in {0, 1}
      /\ owed' = 1 => failures' = failures + 1 \/ owed = 1
  OBVIOUS
<1>3. Len(fired) + wait + call + owed <= failures + 1
  BY DEF IInv, Rearmed, Outstanding
<1>4. Len(fired') + wait' + call' + owed' <= failures' + 1
  <2> HIDE DEF wait, call, owed
  <2>1. QED
    BY <1>1, <1>2, <1>3
<1>5. QED
  BY <1>4 DEF Rearmed, Outstanding

-----------------------------------------------------------------------------
(* One lemma for each action.                                                *)

\* An exchange answers one call; a failure is counted, and owed to the handler.
LEMMA ExchangeKeeps ==
  ASSUME IInv, NEW t \in Threads, Exchange(t)
  PROVE  IInv'
<1>0. /\ TypeOK /\ Steps /\ Told
      /\ pc[t] = "exchange" /\ pc' = [pc EXCEPT ![t] = "clear"]
      /\ UNCHANGED <<listenKey, mode, verdicts, streams, timerVars, crashed>>
      /\ \/ /\ reply' = [reply EXCEPT ![t] = "error"]
            /\ failures < MaxFailures /\ failures' = failures + 1
         \/ /\ reply' = [reply EXCEPT ![t] = "odd"]
            /\ failures' = failures
         \/ /\ reply' = [reply EXCEPT ![t] = "ok"]
            /\ failures' = failures
  BY DEF IInv, Exchange, Goto, binanceVars
<1>1. Steps'
  BY <1>0 DEF TypeOK, Steps, Threads
<1>2. Told'
  BY <1>0 DEF TypeOK, Told, Threads
<1>3. OwnKey'
  BY DEF IInv, TypeOK, Steps, OwnKey, Threads, Exchange, Goto, binanceVars
<1>4. StreamOnOwnKey'
  BY <1>0 DEF IInv, StreamOnOwnKey
<1>5. Rearmed'
  <2>1. failures \in Nat /\ failures' \in Nat /\ failures' >= failures
    BY <1>0, KeyAssumption DEF TypeOK
  <2>2. CASE t = "extender"
    <3>1. pc["extender"] # "idle"
      BY <1>0, <2>2
    <3>2. reply'["extender"] = "error" => failures' = failures + 1
      BY <1>0, <2>2 DEF TypeOK
    <3>3. QED
      BY <1>0, <2>1, <3>1, <3>2, NotRearmed
  <2>3. CASE t # "extender"
    <3>1. pc'["extender"] = pc["extender"] /\ reply'["extender"] = reply["extender"]
      BY <1>0, <2>3 DEF TypeOK, Threads
    <3>2. QED
      BY <1>0, <2>1, <3>1, NotRearmed
  <2>4. QED
    BY <2>2, <2>3
<1>6. TypeOK'
  <2>1. /\ server' \in 0..MaxKeys /\ issued' \in 0..MaxKeys /\ failures' \in 0..MaxFailures
        /\ given' \in [Threads -> 0..MaxKeys]
    BY <1>0, KeyAssumption DEF TypeOK, Exchange, binanceVars
  <2>2. /\ pc' \in [Threads -> {"idle", "exchange", "clear", "parse", "return", "connect"}]
        /\ reply' \in [Threads -> {"none", "ok", "error", "odd"}]
    BY <1>0 DEF TypeOK
  <2>3. QED
    BY <1>0, <2>1, <2>2 DEF TypeOK, timerVars
<1>7. QED
  BY <1>1, <1>2, <1>3, <1>4, <1>5, <1>6 DEF IInv

\* A call given up without an answer leaves nothing owed.
LEMMA ThrowsKeep ==
  ASSUME IInv, NEW t \in Threads, Throws(t)
  PROVE  IInv'
<1>0. /\ TypeOK /\ Steps /\ Told
      /\ pc[t] \in {"exchange", "parse"} /\ reply[t] \in {"none", "odd"}
      /\ pc' = [pc EXCEPT ![t] = "idle"] /\ crashed' \in BOOLEAN
      /\ UNCHANGED <<listenKey, binanceVars, callVars, verdicts, streams, timerVars>>
  BY DEF IInv, Throws, ExchangeThrows, ParseThrows, Goto, Steps
<1>1. Steps'
  BY <1>0 DEF TypeOK, Steps, Threads, callVars
<1>2. Told'
  BY <1>0 DEF TypeOK, Told, Threads, callVars
<1>3. OwnKey'
  BY <1>0 DEF IInv, TypeOK, OwnKey, Threads, callVars
<1>4. StreamOnOwnKey'
  BY <1>0 DEF IInv, StreamOnOwnKey
<1>5. Rearmed'
  <2>1. failures' \in Nat /\ failures' = failures /\ reply' = reply
    BY <1>0 DEF TypeOK, binanceVars, callVars
  <2>2. pc'["extender"] \in {"idle", pc["extender"]}
    BY <1>0 DEF TypeOK, Threads
  <2>3. QED
    BY <1>0, <2>1, <2>2, NotRearmed
<1>6. TypeOK'
  BY <1>0 DEF TypeOK, binanceVars, callVars, timerVars
<1>7. QED
  BY <1>1, <1>2, <1>3, <1>4, <1>5, <1>6 DEF IInv

\* Only startUserData clears the key, and no other call needs it then.
LEMMA ClearKeyKeeps ==
  ASSUME IInv, NEW t \in Threads, ClearKey(t)
  PROVE  IInv'
<1>0. /\ TypeOK /\ Steps /\ Told
      /\ pc[t] = "clear" /\ pc' = [pc EXCEPT ![t] = "parse"]
      /\ listenKey' \in 0..MaxKeys
      /\ UNCHANGED <<binanceVars, callVars, verdicts, streams, timerVars, crashed>>
  BY KeyAssumption DEF IInv, ClearKey, Goto, TypeOK
<1>1. Steps'
  BY <1>0 DEF TypeOK, Steps, Threads, callVars
<1>2. Told'
  BY <1>0 DEF TypeOK, Told, Threads, callVars
<1>3. OwnKey'
  BY DEF IInv, TypeOK, Steps, OwnKey, Threads, ClearKey, Goto, binanceVars, callVars
<1>4. StreamOnOwnKey'
  BY <1>0 DEF IInv, StreamOnOwnKey
<1>5. Rearmed'
  <2>1. failures' \in Nat /\ failures' = failures /\ reply' = reply
    BY <1>0 DEF TypeOK, binanceVars, callVars
  <2>2. \/ pc'["extender"] = pc["extender"]
        \/ pc["extender"] = "clear" /\ pc'["extender"] = "parse"
    BY <1>0 DEF TypeOK, Threads
  <2>3. QED
    BY <1>0, <2>1, <2>2, NotRearmed
<1>6. TypeOK'
  BY <1>0 DEF TypeOK, binanceVars, callVars, timerVars
<1>7. QED
  BY <1>1, <1>2, <1>3, <1>4, <1>5, <1>6 DEF IInv

\* startUserData goes on only with the key that it was given.
LEMMA StartReturnedKeeps ==
  ASSUME IInv, NEW t \in Threads, StartReturned(t)
  PROVE  IInv'
<1>0. /\ TypeOK /\ Steps /\ Told /\ OwnKey
      /\ pc[t] = "return" /\ mode[t] = "Create"
      /\ pc' = [pc EXCEPT ![t] = IF listenKey # 0 THEN "connect" ELSE "idle"]
      /\ UNCHANGED <<listenKey, binanceVars, callVars, verdicts, streams, timerVars, crashed>>
  BY DEF IInv, StartReturned, Returned, Goto, GivesNothing
<1>a. t = "main" /\ (listenKey # 0 => reply[t] = "ok")
  BY <1>0 DEF Steps, OwnKey, Threads
<1>b. reply[t] = "error" => Failed(verdicts[t], mode[t])
  BY <1>0, OneFail DEF Told
<1>1. Steps'
  BY <1>0, <1>a DEF TypeOK, Steps, Threads, callVars
<1>2. Told'
  BY <1>0, <1>a, <1>b DEF TypeOK, Told, Threads, callVars
<1>3. OwnKey'
  BY <1>0, <1>a DEF TypeOK, OwnKey, Threads, callVars
<1>4. StreamOnOwnKey'
  BY <1>0 DEF IInv, StreamOnOwnKey
<1>5. Rearmed'
  <2>1. failures' \in Nat /\ failures' = failures /\ reply' = reply
    BY <1>0 DEF TypeOK, binanceVars, callVars
  <2>2. pc'["extender"] = pc["extender"]
    BY <1>0, <1>a DEF TypeOK, Threads
  <2>3. QED
    BY <1>0, <2>1, <2>2, NotRearmed
<1>6. TypeOK'
  BY <1>0 DEF TypeOK, binanceVars, callVars, timerVars
<1>7. QED
  BY <1>1, <1>2, <1>3, <1>4, <1>5, <1>6 DEF IInv

\* The stream is opened on the key of the call.
LEMMA StartStreamKeeps ==
  ASSUME IInv, NEW t \in Threads, StartStream(t)
  PROVE  IInv'
<1>0. /\ TypeOK /\ Steps /\ Told /\ OwnKey
      /\ pc[t] = "connect" /\ pc' = [pc EXCEPT ![t] = "idle"]
      /\ streams' = streams \cup {[key |-> listenKey, given |-> given[t]]}
      /\ UNCHANGED <<listenKey, binanceVars, callVars, verdicts, timerVars, crashed>>
  BY DEF IInv, StartStream, Goto, GivesNothing
<1>a. t = "main" /\ reply[t] = "ok" /\ listenKey = given[t] /\ listenKey # 0
  BY <1>0 DEF Steps, OwnKey, Threads
<1>1. Steps'
  BY <1>0, <1>a DEF TypeOK, Steps, Threads, callVars
<1>2. Told'
  BY <1>0, <1>a DEF TypeOK, Told, Threads, callVars
<1>3. OwnKey'
  BY <1>0, <1>a DEF TypeOK, OwnKey, Threads, callVars
<1>4. StreamOnOwnKey'
  BY <1>0, <1>a DEF IInv, StreamOnOwnKey
<1>5. Rearmed'
  <2>1. failures' \in Nat /\ failures' = failures /\ reply' = reply
    BY <1>0 DEF TypeOK, binanceVars, callVars
  <2>2. pc'["extender"] = pc["extender"]
    BY <1>0, <1>a DEF TypeOK, Threads
  <2>3. QED
    BY <1>0, <2>1, <2>2, NotRearmed
<1>6. TypeOK'
  BY <1>0 DEF TypeOK, binanceVars, callVars, timerVars
<1>7. QED
  BY <1>1, <1>2, <1>3, <1>4, <1>5, <1>6 DEF IInv

\* A handler of the extender that arms the timer pays for it: its call ends, or
\* the failure it was owed is told.
LEMMA RearmedPaid ==
  ASSUME IInv, failures' = failures, armed',
         Len(fired') = Len(fired) + (IF armed THEN 1 ELSE 0),
         pc["extender"] # "idle",
         \/ pc'["extender"] = "idle"
         \/ /\ pc["extender"] = "parse" /\ reply["extender"] = "error"
            /\ pc'["extender"] = "return"
  PROVE  Rearmed'
<1> DEFINE wait == IF armed THEN 1 ELSE 0
           call == IF pc["extender"] = "idle" THEN 0 ELSE 1
           owed == IF pc["extender"] \in {"clear", "parse"} /\ reply["extender"] = "error"
                   THEN 1 ELSE 0
<1>1. /\ Len(fired) \in Nat /\ failures \in Nat
      /\ Len(fired') = Len(fired) + wait /\ wait' = 1
  BY DEF IInv, TypeOK
<1>2. /\ wait \in {0, 1} /\ call = 1 /\ call' \in {0, 1}
      /\ owed \in {0, 1} /\ owed' = 0
      /\ call' = 0 \/ owed = 1
  OBVIOUS
<1>3. Len(fired) + wait + call + owed <= failures + 1
  BY DEF IInv, Rearmed, Outstanding
<1>4. Len(fired') + wait' + call' + owed' <= failures' + 1
  <2> HIDE DEF wait, call, owed
  <2>1. QED
    BY <1>1, <1>2, <1>3
<1>5. QED
  BY <1>4 DEF Rearmed, Outstanding

\* The bound of the timer's queue follows from what is outstanding.
LEMMA FiredBounded ==
  ASSUME Rearmed', fired' \in Seq(Waits), failures' \in 0..MaxFailures
  PROVE  Len(fired') <= MaxFailures + 1
<1> DEFINE wait == IF armed THEN 1 ELSE 0
           call == IF pc["extender"] = "idle" THEN 0 ELSE 1
           owed == IF pc["extender"] \in {"clear", "parse"} /\ reply["extender"] = "error"
                   THEN 1 ELSE 0
<1>1. Len(fired') \in Nat /\ wait' \in {0, 1} /\ call' \in {0, 1} /\ owed' \in {0, 1}
  OBVIOUS
<1>2. Len(fired') + wait' + call' + owed' <= failures' + 1
  BY DEF Rearmed, Outstanding
<1>3. failures' \in Nat /\ failures' <= MaxFailures /\ MaxFailures \in Nat
  BY KeyAssumption
<1>4. QED
  <2> HIDE DEF wait, call, owed
  <2>1. QED
    BY <1>1, <1>2, <1>3

\* The answer is read: a failure is told, a key kept.
LEMMA ParseReplyKeeps ==
  ASSUME IInv, NEW t \in Threads, ParseReply(t)
  PROVE  IInv'
<1>0. /\ TypeOK /\ Steps /\ Told /\ OwnKey
      /\ pc[t] = "parse" /\ pc' = [pc EXCEPT ![t] = "return"]
      /\ UNCHANGED <<binanceVars, callVars, streams, crashed>>
  BY DEF IInv, ParseReply, Goto
<1>a. /\ Steps'
      /\ OwnKey'
      /\ StreamOnOwnKey'
  <2>1. reply[t] \in {"ok", "error"} /\ reply' = reply /\ mode' = mode /\ given' = given
    BY <1>0 DEF ParseReply, callVars
  <2>2. listenKey' = IF reply[t] = "ok" /\ mode[t] = "Create" THEN given[t] ELSE listenKey
    BY DEF ParseReply
  <2>3. Steps'
    BY <1>0, <2>1 DEF TypeOK, Steps, Threads
  <2>4. OwnKey'
    BY <1>0, <2>1, <2>2 DEF TypeOK, Steps, OwnKey, Threads
  <2>5. StreamOnOwnKey'
    BY <1>0 DEF IInv, StreamOnOwnKey
  <2>6. QED
    BY <2>3, <2>4, <2>5
<1>1. CASE reply[t] = "error"
  <2>1. GivesHandler(t, "Fail") /\ listenKey' = listenKey
    BY <1>1 DEF ParseReply
  <2>2. /\ verdicts' \in [Threads -> Seq({"Fail", "Success"})]
        /\ verdicts'[t] = Append(verdicts[t], "Fail")
        /\ \A u \in Threads \ {t} : verdicts'[u] = verdicts[u]
        /\ fired' \in Seq(Waits) /\ armed' \in BOOLEAN /\ UNCHANGED <<due, extender>>
        /\ t # "extender" => UNCHANGED <<armed, fired>>
        /\ t = "extender" => armed' /\ Len(fired') = Len(fired) + (IF armed THEN 1 ELSE 0)
    BY <1>0, <2>1, GivingAdds
  <2>3. Told'
    <3>0. Append(<<>>, "Fail") = <<"Fail">>
      OBVIOUS
    <3>1. verdicts[t] = <<>> /\ verdicts'[t] = <<"Fail">>
      BY <1>0, <2>2, <3>0 DEF Told
    <3>2. QED
      BY <1>0, <1>1, <2>2, <3>1 DEF TypeOK, Told, Threads, callVars
  <2>4. Rearmed'
    <3>1. failures' = failures /\ failures \in Nat /\ reply' = reply
      BY <1>0 DEF TypeOK, binanceVars, callVars
    <3>2. CASE t = "extender"
      <4>1. pc["extender"] = "parse" /\ pc'["extender"] = "return"
        BY <1>0, <3>2 DEF TypeOK
      <4>2. QED
        BY <1>1, <2>2, <3>1, <3>2, <4>1, RearmedPaid
    <3>3. CASE t # "extender"
      <4>1. pc'["extender"] = pc["extender"]
        BY <1>0, <3>3 DEF TypeOK, Threads
      <4>2. QED
        BY <2>2, <3>1, <3>3, <4>1, NotRearmed DEF timerVars
    <3>4. QED
      BY <3>2, <3>3
  <2>5. TypeOK'
    <3>1. failures' \in 0..MaxFailures
      BY <1>0 DEF TypeOK, binanceVars
    <3>2. Len(fired') <= MaxFailures + 1
      BY <2>2, <2>4, <3>1, FiredBounded
    <3>3. QED
      BY <1>0, <2>1, <2>2, <3>2 DEF TypeOK, binanceVars, callVars
  <2>6. QED
    BY <1>a, <2>3, <2>4, <2>5 DEF IInv
<1>2. CASE reply[t] # "error"
  <2>1. UNCHANGED <<verdicts, timerVars>> /\ listenKey' \in 0..MaxKeys
    BY <1>0, <1>2 DEF ParseReply, GivesNothing, TypeOK
  <2>2. Told'
    BY <1>0, <1>2, <2>1 DEF TypeOK, Told, Threads, callVars
  <2>3. Rearmed'
    <3>1. failures' \in Nat /\ failures' = failures /\ reply' = reply
      BY <1>0 DEF TypeOK, binanceVars, callVars
    <3>2. \/ pc'["extender"] = pc["extender"]
          \/ pc["extender"] = "parse" /\ pc'["extender"] = "return"
      BY <1>0 DEF TypeOK, Threads
    <3>3. QED
      BY <2>1, <3>1, <3>2, NotRearmed
  <2>4. TypeOK'
    BY <1>0, <2>1 DEF TypeOK, binanceVars, callVars, timerVars
  <2>5. QED
    BY <1>a, <2>2, <2>3, <2>4 DEF IInv
<1>3. QED
  BY <1>1, <1>2

\* A renewal or a close returns: its handler is told once more.
LEMMA ReturnsKeep ==
  ASSUME IInv, NEW t \in Threads, RenewReturned(t) \/ CloseReturned(t)
  PROVE  IInv'
<1>0. /\ TypeOK /\ Steps /\ Told /\ OwnKey
      /\ pc[t] = "return" /\ pc' = [pc EXCEPT ![t] = "idle"]
      /\ mode[t] # "Create" /\ listenKey' \in 0..MaxKeys
      /\ mode[t] # "Close" => listenKey' = listenKey
      /\ UNCHANGED <<binanceVars, callVars, streams, crashed>>
  BY KeyAssumption DEF IInv, RenewReturned, CloseReturned, Returned, Goto, TypeOK
<1>a. t # "main" => mode[t] = "Extend" /\ listenKey' = listenKey
  BY <1>0 DEF Steps
<1>1. Steps' /\ OwnKey' /\ StreamOnOwnKey'
  <2>1. Steps'
    BY <1>0 DEF TypeOK, Steps, Threads, callVars
  <2>2. OwnKey'
    BY <1>0, <1>a DEF TypeOK, OwnKey, Threads, callVars
  <2>3. StreamOnOwnKey'
    BY <1>0 DEF IInv, StreamOnOwnKey
  <2>4. QED
    BY <2>1, <2>2, <2>3
<1>2. PICK s \in {"Fail", "Success"} : GivesHandler(t, s)
  BY DEF RenewReturned, CloseReturned
<1>3. /\ verdicts' \in [Threads -> Seq({"Fail", "Success"})]
      /\ verdicts'[t] = Append(verdicts[t], s)
      /\ \A u \in Threads \ {t} : verdicts'[u] = verdicts[u]
      /\ fired' \in Seq(Waits) /\ armed' \in BOOLEAN /\ UNCHANGED <<due, extender>>
      /\ t # "extender" => UNCHANGED <<armed, fired>>
      /\ t = "extender" => armed' /\ Len(fired') = Len(fired) + (IF armed THEN 1 ELSE 0)
  BY <1>0, <1>2, GivingAdds
<1>4. Told'
  <2>1. reply[t] = "error" => Failed(verdicts'[t], mode[t])
    BY <1>0, <1>3, FailFirst DEF Told
  <2>2. QED
    BY <1>0, <1>3, <2>1 DEF TypeOK, Told, Threads, callVars
<1>5. Rearmed'
  <2>1. failures' = failures /\ failures \in Nat /\ reply' = reply
    BY <1>0 DEF TypeOK, binanceVars, callVars
  <2>2. CASE t = "extender"
    <3>1. pc["extender"] = "return" /\ pc'["extender"] = "idle"
      BY <1>0, <2>2 DEF TypeOK
    <3>2. QED
      BY <1>3, <2>1, <2>2, <3>1, RearmedPaid
  <2>3. CASE t # "extender"
    <3>1. pc'["extender"] = pc["extender"]
      BY <1>0, <2>3 DEF TypeOK, Threads
    <3>2. QED
      BY <1>3, <2>1, <2>3, <3>1, NotRearmed DEF timerVars
  <2>4. QED
    BY <2>2, <2>3
<1>6. TypeOK'
  <2>1. failures' \in 0..MaxFailures
    BY <1>0 DEF TypeOK, binanceVars
  <2>2. Len(fired') <= MaxFailures + 1
    BY <1>3, <1>5, <2>1, FiredBounded
  <2>3. QED
    BY <1>0, <1>3, <2>2 DEF TypeOK, binanceVars, callVars
<1>7. QED
  BY <1>1, <1>4, <1>5, <1>6 DEF IInv

\* A call begins on a thread of its own: nothing is owed to it yet.
LEMMA CallsKeep ==
  ASSUME IInv, NEW t \in Threads, NEW m \in Modes, Calls(t, m),
         t # "main" => m = "Extend"
  PROVE  Steps' /\ Told' /\ OwnKey' /\ StreamOnOwnKey'
<1>0. /\ TypeOK /\ Steps /\ Told /\ OwnKey
      /\ pc[t] = "idle" /\ pc' = [pc EXCEPT ![t] = "exchange"]
      /\ mode' = [mode EXCEPT ![t] = m] /\ reply' = [reply EXCEPT ![t] = "none"]
      /\ verdicts' = [verdicts EXCEPT ![t] = <<>>]
      /\ UNCHANGED <<listenKey, given, streams>>
  BY DEF IInv, Calls, Goto
<1>1. Steps'
  BY <1>0 DEF TypeOK, Steps, Threads
<1>2. Told'
  BY <1>0 DEF TypeOK, Told, Threads
<1>3. OwnKey'
  BY <1>0 DEF TypeOK, OwnKey, Threads
<1>4. StreamOnOwnKey'
  BY <1>0 DEF IInv, StreamOnOwnKey
<1>5. QED
  BY <1>1, <1>2, <1>3, <1>4

\* The types a call begins with; the timer's queue is the caller's matter.
LEMMA CallsType ==
  ASSUME IInv, NEW t \in Threads, NEW m \in Modes, Calls(t, m),
         armed' \in BOOLEAN, due' \in Waits, extender' = extender,
         fired' \in Seq(Waits), Rearmed'
  PROVE  TypeOK'
<1>0. /\ TypeOK
      /\ pc' = [pc EXCEPT ![t] = "exchange"]
      /\ mode' = [mode EXCEPT ![t] = m] /\ reply' = [reply EXCEPT ![t] = "none"]
      /\ verdicts' = [verdicts EXCEPT ![t] = <<>>]
      /\ UNCHANGED <<listenKey, binanceVars, given, streams, crashed>>
  BY DEF IInv, Calls, Goto
<1>1. <<>> \in Seq({"Fail", "Success"})
  OBVIOUS
<1>2. failures' \in 0..MaxFailures
  BY <1>0 DEF TypeOK, binanceVars
<1>3. Len(fired') <= MaxFailures + 1
  BY <1>2, FiredBounded
<1>4. QED
  BY <1>0, <1>1, <1>3 DEF TypeOK, binanceVars

\* The application's calls, and the stream's handler's.
LEMMA OtherCallsKeep ==
  ASSUME IInv, startUserData \/ closeUserData \/ HandlerRenews
  PROVE  IInv'
<1>1. PICK t \in Threads, m \in Modes :
        /\ Calls(t, m) /\ UNCHANGED timerVars
        /\ t # "extender" /\ (t # "main" => m = "Extend")
  BY Zenon DEF startUserData, closeUserData, HandlerRenews, Threads, Modes
<1>2. Steps' /\ Told' /\ OwnKey' /\ StreamOnOwnKey'
  BY <1>1, CallsKeep
<1>3. Rearmed'
  <2>1. failures' \in Nat /\ failures' = failures
    BY <1>1 DEF IInv, TypeOK, Calls, binanceVars
  <2>2. pc'["extender"] = pc["extender"] /\ reply'["extender"] = reply["extender"]
    BY <1>1 DEF IInv, TypeOK, Calls, Goto, Threads
  <2>3. QED
    BY <1>1, <2>1, <2>2, NotRearmed
<1>4. TypeOK'
  BY <1>1, <1>3, CallsType DEF IInv, TypeOK, timerVars
<1>5. QED
  BY <1>2, <1>3, <1>4 DEF IInv

\* The extender takes one completed wait for one renewal.
LEMMA ExpiryKeeps ==
  ASSUME IInv, onTimerExpire
  PROVE  IInv'
<1>0. /\ TypeOK /\ Calls("extender", "Extend") /\ "extender" \in Threads /\ "Extend" \in Modes
      /\ fired # <<>> /\ due' = Head(fired) /\ fired' = Tail(fired)
      /\ armed' = armed /\ extender' = extender
  BY DEF IInv, onTimerExpire, Threads, Modes
<1>1. Steps' /\ Told' /\ OwnKey' /\ StreamOnOwnKey'
  BY <1>0, CallsKeep
<1>2. /\ fired \in Seq(Waits) /\ Len(fired) \in Nat
      /\ due' \in Waits /\ fired' \in Seq(Waits) /\ Len(fired') = Len(fired) - 1
  BY <1>0, HeadTailProperties DEF TypeOK
<1>3. Rearmed'
  <2> DEFINE wait == IF armed THEN 1 ELSE 0
  <2>1. /\ pc["extender"] = "idle" /\ pc'["extender"] = "exchange"
        /\ failures' = failures /\ failures \in Nat
    BY <1>0 DEF TypeOK, Calls, Goto, binanceVars
  <2>2. Len(fired) + wait + 0 + 0 <= failures + 1
    BY <2>1 DEF IInv, Rearmed, Outstanding
  <2>3. wait \in {0, 1} /\ wait' = wait
    BY <1>0
  <2>4. Len(fired') + wait' + 1 + 0 <= failures' + 1
    <3> HIDE DEF wait
    <3>1. QED
      BY <1>2, <2>1, <2>2, <2>3
  <2>5. QED
    BY <2>1, <2>4 DEF Rearmed, Outstanding
<1>4. TypeOK'
  <2>1. armed' \in BOOLEAN
    BY <1>0 DEF TypeOK
  <2>2. QED
    BY <1>0, <1>2, <1>3, <2>1, CallsType
<1>5. QED
  BY <1>1, <1>3, <1>4 DEF IInv

\* The calls' part of a step in which no thread of the three takes part.
LEMMA CallsStay ==
  ASSUME IInv, UNCHANGED <<listenKey, failures, pc, callVars, verdicts, streams>>
  PROVE  Steps' /\ Told' /\ OwnKey' /\ StreamOnOwnKey'
BY DEF IInv, Steps, Told, OwnKey, StreamOnOwnKey, callVars

\* A wait that completes moves to the queue, whether it expired or was aborted.
LEMMA CompletionKeeps ==
  ASSUME IInv, NEW w \in Waits, armed \in BOOLEAN, armed' = FALSE,
         fired' = IF armed THEN Append(fired, w) ELSE fired,
         UNCHANGED <<listenKey, binanceVars, pc, callVars, verdicts, streams, due, crashed>>,
         extender' \in {"up", "cancelled", "stopped", "gone"}
  PROVE  IInv'
<1>1. Steps' /\ Told' /\ OwnKey' /\ StreamOnOwnKey'
  BY CallsStay DEF binanceVars
<1>2. /\ fired \in Seq(Waits) /\ Len(fired) \in Nat /\ fired' \in Seq(Waits)
      /\ Len(fired') = Len(fired) + (IF armed THEN 1 ELSE 0)
  <2>1. fired \in Seq(Waits) /\ Len(fired) \in Nat
    BY DEF IInv, TypeOK
  <2>2. CASE armed
    BY <2>1, <2>2
  <2>3. CASE ~armed
    BY <2>1, <2>3
  <2>4. QED
    BY <2>2, <2>3
<1>3. Rearmed'
  <2>1. Outstanding' = Outstanding
    BY <1>2 DEF Outstanding
  <2>2. QED
    BY <2>1 DEF IInv, Rearmed, binanceVars, callVars
<1>4. TypeOK'
  <2>1. failures' \in 0..MaxFailures
    BY DEF IInv, TypeOK, binanceVars
  <2>2. Len(fired') <= MaxFailures + 1
    BY <1>2, <1>3, <2>1, FiredBounded
  <2>3. armed' \in BOOLEAN
    OBVIOUS
  <2>4. QED
    BY <1>2, <2>2, <2>3 DEF IInv, TypeOK, binanceVars, callVars
<1>5. QED
  BY <1>1, <1>3, <1>4 DEF IInv

\* The timer, the key's expiry and the destructor.
LEMMA EnvironmentKeeps ==
  ASSUME IInv, TimerExpires \/ KeyExpires \/ CancelTimer \/ StopContext \/ JoinThread
  PROVE  IInv'
<1>0. TypeOK /\ armed \in BOOLEAN
  BY DEF IInv, TypeOK
<1>1. CASE TimerExpires
  BY <1>0, <1>1, CompletionKeeps DEF TimerExpires, TypeOK, Waits, binanceVars
<1>2. CASE CancelTimer
  BY <1>0, <1>2, CompletionKeeps DEF CancelTimer, Destroys, Waits
<1>3. CASE KeyExpires \/ StopContext \/ JoinThread
  <2>1. /\ UNCHANGED <<listenKey, failures, pc, callVars, verdicts, streams, armed, fired, due>>
        /\ server' \in 0..MaxKeys /\ issued' = issued
        /\ extender' \in {"up", "cancelled", "stopped", "gone"} /\ crashed' = crashed
    BY <1>0, <1>3, KeyAssumption
       DEF KeyExpires, StopContext, JoinThread, Destroys, TypeOK, binanceVars, timerVars
  <2>2. Steps' /\ Told' /\ OwnKey' /\ StreamOnOwnKey'
    BY <2>1, CallsStay
  <2>3. Rearmed'
    BY <2>1 DEF IInv, Rearmed, Outstanding, callVars
  <2>4. TypeOK'
    BY <1>0, <2>1 DEF TypeOK, callVars
  <2>5. QED
    BY <2>2, <2>3, <2>4 DEF IInv
<1>4. QED
  BY <1>1, <1>2, <1>3

\* Before the first call there is nothing to know.
LEMMA InitIInv == Init => IInv
<1> SUFFICES ASSUME Init PROVE IInv
  OBVIOUS
<1>0. /\ \A t \in Threads : pc[t] = "idle" /\ reply[t] = "none"
      /\ fired = <<>> /\ armed = TRUE /\ failures = 0
  BY DEF Init
<1>1. TypeOK
  <2>1. <<>> \in Seq({"Fail", "Success"}) /\ <<>> \in Seq(Waits)
        /\ "Create" \in Modes /\ 0 \in 0..MaxKeys /\ 0 \in 0..MaxFailures
    BY KeyAssumption DEF Modes
  <2>2. verdicts \in [Threads -> Seq({"Fail", "Success"})]
    BY <2>1, Zenon DEF Init
  <2>3. Len(fired) = 0 /\ 0 <= MaxFailures + 1
    BY <1>0, KeyAssumption
  <2>4. /\ pc \in [Threads -> {"idle", "exchange", "clear", "parse", "return", "connect"}]
        /\ mode \in [Threads -> Modes]
        /\ reply \in [Threads -> {"none", "ok", "error", "odd"}]
        /\ given \in [Threads -> 0..MaxKeys]
    BY <2>1 DEF Init
  <2>5. QED
    BY <2>1, <2>2, <2>3, <2>4 DEF Init, TypeOK, Waits
<1>2. Steps /\ Told
  BY <1>0 DEF Steps, Told
<1>3. OwnKey /\ StreamOnOwnKey
  BY DEF Init, OwnKey, StreamOnOwnKey, Threads
<1>4. Rearmed
  BY <1>0 DEF Rearmed, Outstanding, Threads
<1>5. QED
  BY <1>1, <1>2, <1>3, <1>4 DEF IInv

\* Every step keeps the invariant.
LEMMA NextKeeps == IInv /\ [Next]_vars => IInv'
<1> SUFFICES ASSUME IInv, [Next]_vars PROVE IInv'
  OBVIOUS
<1>1. CASE UNCHANGED vars
  BY <1>1 DEF vars, IInv, TypeOK, Steps, Told, OwnKey, StreamOnOwnKey, Rearmed, Outstanding
<1>2. ASSUME NEW t \in Threads, Amend(t) \/ Throws(t)
      PROVE  IInv'
  BY <1>2, ExchangeKeeps, ClearKeyKeeps, ParseReplyKeeps, StartReturnedKeeps,
     StartStreamKeeps, ReturnsKeep, ThrowsKeep DEF Amend
<1>3. QED
  BY <1>1, <1>2, OtherCallsKeep, ExpiryKeeps, EnvironmentKeeps DEF Next, Terminated

-----------------------------------------------------------------------------
(* Theorems.                                                                 *)

\* The invariant holds whatever the three threads do and Binance answers.
THEOREM Invariant == Spec => []IInv
BY InitIInv, NextKeeps, PTL DEF Spec

\* Types, and the bound of the extender's queue of completed waits: one more
\* than the renewals that failed, however long it runs.
THEOREM TypeCorrect == Spec => []TypeOK
<1>1. IInv => TypeOK
  BY DEF IInv
<1>2. QED
  BY Invariant, <1>1, PTL

\* startUserData opens a stream only on the key of its own call.
THEOREM OwnKeyOnly == Spec => []StreamOnOwnKey
<1>1. IInv => StreamOnOwnKey
  BY DEF IInv
<1>2. QED
  BY Invariant, <1>1, PTL

\* A call answered with an error has told its handler so when it has ended.
THEOREM FailuresReported == Spec => []FailureReported
<1>1. IInv => FailureReported
  BY DEF IInv, Told, Failed, FailureReported
<1>2. QED
  BY Invariant, <1>1, PTL

=============================================================================
