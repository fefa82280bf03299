------------------------------ MODULE Examples ------------------------------
(***************************************************************************)
(* Programs that use binancebeast: rest.cpp, the test case of testrest.cpp,  *)
(* and the MarketScanner of multiplemarkets.cpp.  Each main thread is a list *)
(* of steps.  It sends a request whose handler notifies a condition variable *)
(* on a thread of the library, and waits for that notification, with no     *)
(* predicate and a mutex that nobody else locks.                            *)
(***************************************************************************)
EXTENDS Naturals, Sequences, SequencesExt

CONSTANTS
  NumScanners,  \* markets of multiplemarkets.cpp
  MaxSpurious   \* bound: times a wait may return though nothing notified it

ASSUME ExamplesAssumption == NumScanners \in Nat \ {0} /\ MaxSpurious \in Nat

VARIABLES
  code,      \* the steps of main
  pc,        \* the step it is at
  asleep,    \* main is inside the wait of that step
  reply,     \* of each request: "unsent", "sent", "given", or "dropped"
  missed,    \* requests whose handler notified while main was not in a wait
  cvGone,    \* requests whose condition variable has gone out of scope
  early,     \* how often a wait returned by itself or timed out
  running,   \* m_running of each scanner
  unwound,   \* scanners whose derived part is destroyed
  thread,    \* m_thread of each scanner
  crash      \* what ended the process, or "none"

vars == <<code, pc, asleep, reply, missed, cvGone, early, running, unwound, thread, crash>>

waitVars == <<asleep, reply, missed, cvGone, early>>
scanVars == <<running, unwound, thread>>

Scanners == 1..NumScanners

Step(do, id) == [do |-> do, id |-> id]

-----------------------------------------------------------------------------
(* The programs.                                                             *)

\* Mutant: both requests are sent before the first wait.
RestExample_Together ==
  <<Step("send", 1), Step("send", 2), Step("wait", 1), Step("wait", 2),
    Step("destroy", 0)>>

\* One condition variable, declared before the BinanceBeast object; and so it is
\* in neworder.cpp, with an order and then a batch of orders.
RestExample ==
  <<Step("send", 1), Step("wait", 1), Step("send", 2), Step("wait", 2),
    Step("destroy", 0)>>

\* Mutant: runTest waits once more after a timeout.
TestCase_Again ==
  <<Step("send", 1), Step("waitFor", 1), Step("waitFor", 1), Step("leave", 1),
    Step("destroy", 0)>>

\* runTest: the condition variable is its own, the object the fixture's.
TestCase ==
  <<Step("send", 1), Step("waitFor", 1), Step("leave", 1), Step("destroy", 0)>>

\* Mutant: getAllSymbols returns without waiting for the reply.
StartScanner_NoWait(i) ==
  <<Step("run", i), Step("send", i), Step("leave", i), Step("thread", i)>>

\* MarketScanner::start with getAllSymbols, whose condition variable is its
\* own.  The stream's handler only prints.
StartScanner(i) ==
  <<Step("run", i), Step("send", i), Step("wait", i), Step("leave", i),
    Step("thread", i)>>

\* ~UsdmScanner, then ~MarketScanner: stop() and the members.
StopScanner(i) ==
  <<Step("unwind", i), Step("stop", i), Step("notify", i), Step("join", i),
    Step("destroy", i)>>

\* main: all start, someone types "stop", all are destroyed.
MultipleMarkets ==
  FlattenSeq([i \in Scanners |-> StartScanner(i)])
    \o FlattenSeq([i \in Scanners |-> StopScanner(i)])

Programs == {RestExample, TestCase, MultipleMarkets}

Ids == 1..(IF NumScanners > 2 THEN NumScanners ELSE 2)

Init ==
  /\ code \in Programs
  /\ pc = 1
  /\ asleep = FALSE
  /\ reply = [r \in Ids |-> "unsent"]
  /\ missed = {}
  /\ cvGone = {}
  /\ early = 0
  /\ running = [i \in Scanners |-> FALSE]
  /\ unwound = {}
  /\ thread = [i \in Scanners |-> "none"]
  /\ crash = "none"

-----------------------------------------------------------------------------
(* The main thread.                                                          *)

Id == code[pc].id

At(do) ==
  /\ crash = "none"
  /\ pc <= Len(code)
  /\ code[pc].do \in do
  /\ UNCHANGED <<code, crash>>

Passes(do) == At(do) /\ pc' = pc + 1

Send ==
  /\ Passes({"send"})
  /\ reply' = [reply EXCEPT ![Id] = "sent"]
  /\ UNCHANGED <<asleep, missed, cvGone, early, scanVars>>

Wait ==
  /\ At({"wait", "waitFor"})
  /\ ~asleep
  /\ asleep' = TRUE
  /\ UNCHANGED <<pc, reply, missed, cvGone, early, scanVars>>

\* The wait returns and nothing has notified it; wait_for also by its timeout.
ReturnsEarly(do) ==
  /\ asleep
  /\ Passes(do)
  /\ asleep' = FALSE
  /\ early' = early + 1
  /\ UNCHANGED <<reply, missed, cvGone, scanVars>>

Spurious == early < MaxSpurious /\ ReturnsEarly({"wait", "waitFor"})

TimesOut == ReturnsEarly({"waitFor"})

Leave ==
  /\ Passes({"leave"})
  /\ cvGone' = cvGone \cup {Id}
  /\ UNCHANGED <<asleep, reply, missed, early, scanVars>>

\* m_running.store(true), and m_bb.start().
Run ==
  /\ Passes({"run"})
  /\ running' = [running EXCEPT ![Id] = TRUE]
  /\ UNCHANGED <<waitVars, unwound, thread>>

StartThread ==
  /\ Passes({"thread"})
  /\ thread' = [thread EXCEPT ![Id] = "created"]
  /\ UNCHANGED <<waitVars, running, unwound>>

Unwind ==
  /\ Passes({"unwind"})
  /\ unwound' = unwound \cup {Id}
  /\ UNCHANGED <<waitVars, running, thread>>

\* m_running.store(false).
Stop ==
  /\ Passes({"stop"})
  /\ running' = [running EXCEPT ![Id] = FALSE]
  /\ UNCHANGED <<waitVars, unwound, thread>>

\* m_runCv.notify_all().
NotifyAll ==
  /\ Passes({"notify"})
  /\ thread' = [thread EXCEPT ![Id] = IF @ = "asleep" THEN "in run" ELSE @]
  /\ UNCHANGED <<waitVars, running, unwound>>

Join ==
  /\ Passes({"join"})
  /\ thread[Id] = "ended"
  /\ UNCHANGED <<waitVars, scanVars>>

\* ~BinanceBeast: what has not been answered will not be.
DestroyBeast ==
  /\ Passes({"destroy"})
  /\ reply' = [r \in Ids |-> IF reply[r] = "sent" /\ Id \in {0, r} THEN "dropped" ELSE reply[r]]
  /\ UNCHANGED <<asleep, missed, cvGone, early, scanVars>>

Main ==
  \/ Send \/ Wait \/ TimesOut \/ Leave
  \/ Run \/ StartThread \/ Unwind \/ Stop \/ NotifyAll \/ Join
  \/ DestroyBeast

-----------------------------------------------------------------------------
(* The requests' handlers, on the library's threads.                         *)

Called(r) ==
  /\ crash = "none"
  /\ reply[r] = "sent"
  /\ reply' = [reply EXCEPT ![r] = "given"]

\* A request has a condition variable of its own if a step ends its scope.
Cv(r) == IF \E k \in DOMAIN code : code[k] = Step("leave", r) THEN r ELSE 0

Wakes(r) == asleep /\ Cv(Id) = Cv(r)

\* Mutant: a failure is printed and the handler returns.
HandlerNotifies_OnSuccess(r) ==
  /\ Called(r)
  /\ Cv(r) \notin cvGone
  /\ \/ UNCHANGED <<asleep, pc, missed>>
     \/ Wakes(r) /\ asleep' = FALSE /\ pc' = pc + 1 /\ UNCHANGED missed
     \/ ~Wakes(r) /\ missed' = missed \cup {r} /\ UNCHANGED <<asleep, pc>>
  /\ UNCHANGED <<code, cvGone, early, scanVars, crash>>

\* notify_one(): wakes main, or nobody.
HandlerNotifies(r) ==
  /\ Called(r)
  /\ Cv(r) \notin cvGone
  /\ IF Wakes(r) THEN asleep' = FALSE /\ pc' = pc + 1 /\ UNCHANGED missed
                 ELSE missed' = missed \cup {r} /\ UNCHANGED <<asleep, pc>>
  /\ UNCHANGED <<code, cvGone, early, scanVars, crash>>

\* It uses what it captured by reference after the function that had it ended.
HandlerTooLate(r) ==
  /\ Called(r)
  /\ Cv(r) \in cvGone
  /\ crash' = "dead captures"
  /\ UNCHANGED <<code, pc, asleep, missed, cvGone, early, scanVars>>

\* getAllSymbols: as_array() throws if the reply is another value, and nothing
\* catches it on the pool's thread.
HandlerThrows(r) ==
  /\ Called(r)
  /\ Step("thread", r) \in {code[k] : k \in DOMAIN code}
  /\ crash' = "exception"
  /\ UNCHANGED <<code, pc, asleep, missed, cvGone, early, scanVars>>

Handler(r) == HandlerNotifies(r) \/ HandlerTooLate(r) \/ HandlerThrows(r)

-----------------------------------------------------------------------------
(* m_thread of a scanner.                                                    *)

ThreadAt(i, state) ==
  /\ crash = "none"
  /\ thread[i] = state
  /\ UNCHANGED <<code, pc, waitVars, running, unwound>>

\* The virtual run(), which is pure once ~MarketScanner has begun.
ThreadCallsRun(i) ==
  /\ ThreadAt(i, "created")
  /\ IF i \in unwound
     THEN crash' = "pure virtual" /\ UNCHANGED thread
     ELSE thread' = [thread EXCEPT ![i] = "in run"] /\ UNCHANGED crash

\* waitForExit's predicate: it lets the thread go if running() is true.
ThreadLooks(i) ==
  /\ ThreadAt(i, "in run")
  /\ thread' = [thread EXCEPT ![i] = IF running[i] THEN "ended" ELSE "blocking"]
  /\ UNCHANGED crash

ThreadSleeps(i) ==
  /\ ThreadAt(i, "blocking")
  /\ thread' = [thread EXCEPT ![i] = "asleep"]
  /\ UNCHANGED crash

Thread(i) == ThreadCallsRun(i) \/ ThreadLooks(i) \/ ThreadSleeps(i)

Next ==
  \/ Main
  \/ Spurious
  \/ \E r \in Ids : Handler(r)
  \/ \E i \in Scanners : Thread(i)

Spec == Init /\ [][Next]_vars

\* Threads run, and sendRestRequest answers (RestSession!CallsPromised).
FairSpec ==
  /\ Spec
  /\ WF_vars(Main)
  /\ \A r \in Ids : WF_vars(Handler(r))
  /\ \A i \in Scanners : WF_vars(Thread(i))

-----------------------------------------------------------------------------
(* Properties.                                                               *)

TypeOK ==
  /\ code \in Programs
  /\ pc \in 1..(Len(code) + 1)
  /\ asleep => code[pc].do \in {"wait", "waitFor"}
  /\ reply \in [Ids -> {"unsent", "sent", "given", "dropped"}]
  /\ missed \in SUBSET Ids
  /\ cvGone \in SUBSET Ids
  /\ early \in 0..(IF code = TestCase THEN 1 ELSE MaxSpurious)
  /\ running \in [Scanners -> BOOLEAN]
  /\ unwound \in SUBSET Scanners
  /\ thread \in [Scanners -> {"none", "created", "in run", "blocking", "asleep", "ended"}]
  /\ crash \in {"none", "dead captures", "exception", "pure virtual"}

\* main goes on after a wait only when the handler of the request it has just
\* sent was called, though the condition variable is shared and the wait has
\* no predicate; unless a wait returned by itself or timed out.
WaitsForOwnReply ==
  early = 0 =>
    \A k \in 1..(pc - 1) : code[k].do \in {"wait", "waitFor"} => reply[code[k].id] = "given"

\* A handler finds what it captured by reference gone only after a wait that
\* returned by itself or timed out: the reply that comes after the test case
\* or getAllSymbols has given up on it.
OnlyLateRepliesCrash == crash = "dead captures" => early > 0

\* A program ends, or its process is ended, or it hangs in one of two ways: the
\* notification came before the wait, or a scanner's thread first looked after
\* stop() and sleeps with nobody left to notify it.
EndsOrHangs ==
  <>[](\/ pc > Len(code)
       \/ crash # "none"
       \/ asleep /\ Id \in missed
       \/ code[pc].do = "join" /\ thread[Id] = "asleep")
=============================================================================
