----------------------------- MODULE ListenKey -----------------------------
(***************************************************************************)
(* The user data stream's listen key: startUserData, renewListenKey and     *)
(* closeUserData, which all go through amendUserDataListenKey, and the      *)
(* ListenKeyExtender of examples/userdata.cpp that renews the key.          *)
(*                                                                          *)
(* Three threads call in, as in that example: the application's own, the    *)
(* extender's (the thread of its io_context, driven by a steady_timer) and  *)
(* the one that runs the stream's handler, which renews the key when        *)
(* Binance says it expired.  The calls block; m_listenKey has no lock.      *)
(*                                                                          *)
(* Keys are numbered as Binance issues them; 0 is the empty string.         *)
(***************************************************************************)
EXTENDS Naturals, Sequences

CONSTANTS
  MaxKeys,      \* bound: listen keys Binance issues
  MaxFailures   \* bound: calls that Binance answers with an error

ASSUME KeyAssumption == MaxKeys \in Nat /\ MaxFailures \in Nat

Threads == {"main", "extender", "handler"}
Modes == {"Create", "Extend", "Close"}

VARIABLES
  listenKey,  \* m_listenKey
  server,     \* the key Binance holds valid for the account
  issued,     \* keys issued so far
  failures,   \* error answers so far
  pc,         \* where each thread is in its call
  mode,       \* UserDataStreamMode of that call
  reply,      \* what Binance answered: "ok", "error", JSON of another shape
              \* ("odd"), or "none" (yet)
  given,      \* the key in the answer
  verdicts,   \* states given to the handler of the call, in order
  streams,    \* history: the key of each stream opened, and the key given
  armed,      \* the extender's timer has a wait that has not completed
  fired,      \* completed waits whose handler has not run, oldest first
  due,        \* how the wait ended that caused the extender's last renewal
  extender,   \* of ~ListenKeyExtender
  crashed     \* an exception left a thread's function

vars == <<listenKey, server, issued, failures, pc, mode, reply, given,
          verdicts, streams, armed, fired, due, extender, crashed>>

binanceVars == <<server, issued, failures>>
callVars    == <<mode, reply, given>>
timerVars   == <<armed, fired, due, extender>>

Waits == {"expired", "aborted"}

TypeOK ==
  /\ listenKey \in 0..MaxKeys
  /\ server \in 0..MaxKeys /\ issued \in 0..MaxKeys
  /\ failures \in 0..MaxFailures
  /\ pc \in [Threads -> {"idle", "exchange", "clear", "parse", "return", "connect"}]
  /\ mode \in [Threads -> Modes]
  /\ reply \in [Threads -> {"none", "ok", "error", "odd"}]
  /\ given \in [Threads -> 0..MaxKeys]
  /\ verdicts \in [Threads -> Seq({"Fail", "Success"})]
  /\ streams \subseteq [key : 0..MaxKeys, given : 0..MaxKeys]
  /\ armed \in BOOLEAN /\ due \in Waits
  /\ fired \in Seq(Waits) /\ Len(fired) <= MaxFailures + 1
  /\ extender \in {"up", "cancelled", "stopped", "gone"}
  /\ crashed \in BOOLEAN

\* The application has constructed BinanceBeast and the extender, which armed
\* its timer, and has called start().
Init ==
  /\ listenKey = 0 /\ server = 0 /\ issued = 0 /\ failures = 0
  /\ pc = [t \in Threads |-> "idle"]
  /\ mode = [t \in Threads |-> "Create"]
  /\ reply = [t \in Threads |-> "none"]
  /\ given = [t \in Threads |-> 0]
  /\ verdicts = [t \in Threads |-> <<>>]
  /\ streams = {}
  /\ armed = TRUE /\ fired = <<>> /\ due = "expired"
  /\ extender = "up" /\ crashed = FALSE

Goto(t, step) == pc' = [pc EXCEPT ![t] = step]

\* A call of amendUserDataListenKey begins.
Calls(t, m) ==
  /\ ~crashed
  /\ pc[t] = "idle"
  /\ Goto(t, "exchange")
  /\ mode' = [mode EXCEPT ![t] = m]
  /\ reply' = [reply EXCEPT ![t] = "none"]
  /\ verdicts' = [verdicts EXCEPT ![t] = <<>>]
  /\ UNCHANGED <<listenKey, binanceVars, given, streams, crashed>>

-----------------------------------------------------------------------------
(* Calling the handler.  The extender's is onListenKeyRenew, which re-arms   *)
(* the timer: expires_after aborts a wait that is still pending.             *)

\* Mutant: a wait is reported aborted though it had completed.
Rearm_Always ==
  /\ fired' = Append(fired, "aborted")
  /\ armed' = TRUE
  /\ UNCHANGED <<due, extender>>

Rearm ==
  /\ fired' = IF armed THEN Append(fired, "aborted") ELSE fired
  /\ armed' = TRUE
  /\ UNCHANGED <<due, extender>>

GivesHandler(t, state) ==
  /\ verdicts' = [verdicts EXCEPT ![t] = Append(@, state)]
  /\ IF t = "extender" THEN Rearm ELSE UNCHANGED timerVars

GivesNothing == UNCHANGED <<verdicts, timerVars>>

-----------------------------------------------------------------------------
(* amendUserDataListenKey.                                                   *)

\* The HTTP exchange.  POST gets the account's valid key or a new one, PUT
\* extends it, DELETE ends it; any of them can be answered with an error, or
\* with JSON that has not the members amendUserDataListenKey asks for.
Exchange(t) ==
  /\ ~crashed
  /\ pc[t] = "exchange"
  /\ Goto(t, "clear")
  /\ \/ /\ reply' = [reply EXCEPT ![t] = "error"]
        /\ failures < MaxFailures
        /\ failures' = failures + 1
        /\ given' = [given EXCEPT ![t] = 0]
        /\ UNCHANGED <<server, issued>>
     \/ /\ reply' = [reply EXCEPT ![t] = "odd"]
        /\ UNCHANGED <<binanceVars, given>>
     \/ /\ reply' = [reply EXCEPT ![t] = "ok"]
        /\ UNCHANGED failures
        /\ \/ /\ mode[t] = "Create"
              /\ issued' \in {issued, issued + 1} \cap 1..MaxKeys
              /\ issued' = issued => server = issued
              /\ server' = issued'
              /\ given' = [given EXCEPT ![t] = issued']
           \/ /\ mode[t] = "Extend"
              /\ server # 0
              /\ UNCHANGED <<server, issued, given>>
           \/ /\ mode[t] = "Close"
              /\ server # 0
              /\ server' = 0
              /\ UNCHANGED <<issued, given>>
  /\ UNCHANGED <<listenKey, mode, verdicts, streams, timerVars, crashed>>

\* No answer: resolve, connect, handshake, write or read throws.  The
\* application may catch it; nobody catches it on the other two threads.
ExchangeThrows(t) ==
  /\ ~crashed
  /\ pc[t] = "exchange"
  /\ Goto(t, "idle")
  /\ crashed' = (t # "main")
  /\ UNCHANGED <<listenKey, binanceVars, callVars, verdicts, streams, timerVars>>

\* Mutants: the old key is forgotten in every mode; in none.
ClearKey_Always(t) ==
  /\ ~crashed
  /\ pc[t] = "clear"
  /\ Goto(t, "parse")
  /\ listenKey' = 0
  /\ UNCHANGED <<binanceVars, callVars, verdicts, streams, timerVars, crashed>>

ClearKey_Never(t) ==
  /\ ~crashed
  /\ pc[t] = "clear"
  /\ Goto(t, "parse")
  /\ UNCHANGED <<listenKey, binanceVars, callVars, verdicts, streams, timerVars,
                 crashed>>

\* if (mode == Create) m_listenKey.clear()
ClearKey(t) ==
  /\ ~crashed
  /\ pc[t] = "clear"
  /\ Goto(t, "parse")
  /\ listenKey' = IF mode[t] = "Create" THEN 0 ELSE listenKey
  /\ UNCHANGED <<binanceVars, callVars, verdicts, streams, timerVars, crashed>>

\* An error, or content that is not JSON, is reported to the handler.
ParseReply(t) ==
  /\ ~crashed
  /\ pc[t] = "parse"
  /\ Goto(t, "return")
  /\ \/ /\ reply[t] = "error"
        /\ GivesHandler(t, "Fail")
        /\ UNCHANGED listenKey
     \/ /\ reply[t] = "ok"
        /\ listenKey' = IF mode[t] = "Create" THEN given[t] ELSE listenKey
        /\ GivesNothing
  /\ UNCHANGED <<binanceVars, callVars, streams, crashed>>

\* as_object or value_to throws, after the old key was cleared.
ParseThrows(t) ==
  /\ ~crashed
  /\ pc[t] = "parse"
  /\ reply[t] = "odd"
  /\ Goto(t, "idle")
  /\ crashed' = (t # "main")
  /\ UNCHANGED <<listenKey, binanceVars, callVars, verdicts, streams, timerVars>>

-----------------------------------------------------------------------------
(* The three callers, which all ask whether m_listenKey is not empty.        *)

Returned(t, m) ==
  /\ ~crashed
  /\ pc[t] = "return"
  /\ mode[t] = m
  /\ UNCHANGED <<binanceVars, callVars, crashed>>

\* startUserData: go on to createWsSession, or return an invalid token.
StartReturned(t) ==
  /\ Returned(t, "Create")
  /\ Goto(t, IF listenKey # 0 THEN "connect" ELSE "idle")
  /\ GivesNothing
  /\ UNCHANGED <<listenKey, streams>>

\* createWsSession with "/ws/" + m_listenKey.
StartStream(t) ==
  /\ ~crashed
  /\ pc[t] = "connect"
  /\ Goto(t, "idle")
  /\ streams' = streams \cup {[key |-> listenKey, given |-> given[t]]}
  /\ GivesNothing
  /\ UNCHANGED <<listenKey, binanceVars, callVars, crashed>>

\* Mutant: a failed renewal is not reported.
RenewReturned_OnlySuccess(t) ==
  /\ Returned(t, "Extend")
  /\ Goto(t, "idle")
  /\ IF listenKey # 0 THEN GivesHandler(t, "Success") ELSE GivesNothing
  /\ UNCHANGED <<listenKey, streams>>

\* renewListenKey
RenewReturned(t) ==
  /\ Returned(t, "Extend")
  /\ Goto(t, "idle")
  /\ GivesHandler(t, IF listenKey # 0 THEN "Success" ELSE "Fail")
  /\ UNCHANGED <<listenKey, streams>>

\* closeUserData
CloseReturned(t) ==
  /\ Returned(t, "Close")
  /\ Goto(t, "idle")
  /\ listenKey' = 0
  /\ GivesHandler(t, IF listenKey # 0 THEN "Success" ELSE "Fail")
  /\ UNCHANGED streams

-----------------------------------------------------------------------------
(* Who calls, and the environment.                                           *)

startUserData ==
  /\ extender = "up"
  /\ Calls("main", "Create")
  /\ UNCHANGED timerVars

closeUserData ==
  /\ extender = "up"
  /\ Calls("main", "Close")
  /\ UNCHANGED timerVars

\* The stream's handler was told listenKeyExpired.
HandlerRenews == streams # {} /\ Calls("handler", "Extend") /\ UNCHANGED timerVars

\* The extender's io_context runs until it is stopped.
Runs == extender \in {"up", "cancelled"}

\* ListenKeyExtender::onTimerExpire, which ignores its error code.
onTimerExpire ==
  /\ Runs
  /\ fired # <<>>
  /\ Calls("extender", "Extend")
  /\ due' = Head(fired)
  /\ fired' = Tail(fired)
  /\ UNCHANGED <<armed, extender>>

TimerExpires ==
  /\ ~crashed
  /\ Runs
  /\ armed
  /\ armed' = FALSE
  /\ fired' = Append(fired, "expired")
  /\ UNCHANGED <<listenKey, binanceVars, pc, callVars, verdicts, streams, due,
                 extender, crashed>>

KeyExpires ==
  /\ ~crashed
  /\ server # 0
  /\ server' = 0
  /\ UNCHANGED <<listenKey, issued, failures, pc, callVars, verdicts, streams,
                 timerVars, crashed>>

-----------------------------------------------------------------------------
(* ~ListenKeyExtender, when main returns.                                    *)

Destroys(from, to) ==
  /\ ~crashed
  /\ extender = from
  /\ extender' = to
  /\ UNCHANGED <<listenKey, binanceVars, pc, callVars, verdicts, streams, due, crashed>>

\* m_timer->cancel() aborts the wait; its handler is still to run.
CancelTimer ==
  /\ pc["main"] = "idle"
  /\ Destroys("up", "cancelled")
  /\ armed' = FALSE
  /\ fired' = IF armed THEN Append(fired, "aborted") ELSE fired

\* Mutant: the guard is released, and run() is left to run out of work.
StopContext_GuardOnly ==
  /\ ~armed /\ fired = <<>> /\ pc["extender"] = "idle"
  /\ Destroys("cancelled", "stopped")
  /\ UNCHANGED <<armed, fired>>

\* m_guard.reset() and m_ioc.stop(): what has fired will not be handled.
StopContext ==
  /\ Destroys("cancelled", "stopped")
  /\ UNCHANGED <<armed, fired>>

\* m_thread.join() waits for the renewal that is under way.
JoinThread ==
  /\ pc["extender"] = "idle"
  /\ Destroys("stopped", "gone")
  /\ UNCHANGED <<armed, fired>>

Terminated == (crashed \/ extender = "gone") /\ UNCHANGED vars

Amend(t) ==
  \/ Exchange(t)
  \/ ClearKey(t)
  \/ ParseReply(t)
  \/ StartReturned(t)
  \/ StartStream(t)
  \/ RenewReturned(t)
  \/ CloseReturned(t)

Throws(t) == ExchangeThrows(t) \/ ParseThrows(t)

Next ==
  \/ \E t \in Threads : Amend(t) \/ Throws(t)
  \/ startUserData
  \/ closeUserData
  \/ HandlerRenews
  \/ onTimerExpire
  \/ TimerExpires
  \/ KeyExpires
  \/ CancelTimer
  \/ StopContext
  \/ JoinThread
  \/ Terminated

Spec == Init /\ [][Next]_vars

\* The threads run, the timer expires, an exchange ends in an answer or in an
\* exception, and a destructor once begun goes on.
FairSpec ==
  /\ Spec
  /\ WF_vars(Amend("extender") \/ Throws("extender"))
  /\ WF_vars(onTimerExpire)
  /\ WF_vars(TimerExpires)
  /\ WF_vars(StopContext)
  /\ WF_vars(JoinThread)

-----------------------------------------------------------------------------
(* Properties.                                                               *)

\* Whatever the other threads do, startUserData opens a stream only on the key
\* that Binance gave to that very call: never on an old key, never on none.
StreamOnOwnKey == \A s \in streams : s.key = s.given /\ s.key # 0

\* When a call that Binance answered with an error has ended, its handler was
\* told so; startUserData told it once, and opened no stream on an older key.
FailureReported ==
  \A t \in Threads :
    /\ pc[t] = "connect" => verdicts[t] = <<>>
    /\ pc[t] = "idle" /\ reply[t] = "error" =>
         /\ \E i \in 1..Len(verdicts[t]) : verdicts[t][i] = "Fail"
         /\ mode[t] = "Create" => Len(verdicts[t]) = 1

\* The extender goes on renewing until it is destroyed: no outcome leaves its
\* timer unarmed.
KeepsRenewing == []<>(crashed \/ extender # "up" \/ pc["extender"] = "exchange")

\* Its destructor ends, though a renewal under way arms the timer again after
\* the cancel.
ExtenderEnds == extender = "cancelled" ~> extender = "gone" \/ crashed

\* "will send a listen key renew request every 59 minutes": the extender renews
\* because its timer expired, not because a wait was aborted.
RenewOnlyWhenDue == extender = "up" => due = "expired"
=============================================================================
