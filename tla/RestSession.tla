---------------------------- MODULE RestSession ----------------------------
(***************************************************************************)
(* The REST half of binancebeast: start(), sendRestRequest and              *)
(* createRestSession on the caller's thread, the RestSession of each request *)
(* on one of the REST io_contexts, the pool of threads that calls the users' *)
(* handlers, which may send requests themselves, and the destructor.        *)
(*                                                                          *)
(* A session has no state that outlives a completion handler but the        *)
(* operation it is waiting for: each handler starts the next operation,     *)
(* or posts the handler's call to the pool, or (HTTP 404) calls the handler *)
(* on the io thread.                                                        *)
(***************************************************************************)
EXTENDS Naturals, Sequences, FiniteSets, Functions

CONSTANTS
  Requests,     \* the requests of the application
  Parent,       \* the request whose handler sends it, for those sent that way
  Sizes,        \* values of nRestIoContexts that start() may be given
  MaxContexts,  \* the 24 that start() clamps them to
  NumThreads,   \* threads of m_restCallersThreadPool
  MaxSenders    \* threads that may be in sendRestRequest at once

ASSUME RestAssumption ==
  /\ DOMAIN Parent \subseteq Requests
  /\ \A r \in DOMAIN Parent : Parent[r] \in Requests \ {r}
  /\ Sizes \subseteq Nat
  /\ MaxContexts \in Nat \ {0}
  /\ NumThreads \in Nat \ {0}
  /\ MaxSenders \in Nat \ {0}

VARIABLES
  size,     \* m_restIocThreads.size(): io_contexts, one thread each
  next,     \* m_nextRestIoContext
  sending,  \* requests whose caller is between the load and the store of next
  ctx,      \* io_context given to each request
  op,       \* operation each session waits for, "none" before and after
  queue,    \* calls posted to the pool and not begun
  onPool,   \* requests whose handler is running on a pool thread
  onIo,     \* requests whose handler is running on its io thread
  calls,    \* history: calls of each request's handler
  sent,     \* history: requests whose session was given to run()
  phase,    \* before start(); up; ~BinanceBeast destroys the REST contexts,
            \* then the pool; or the process ended in undefined behaviour
  down      \* io_contexts the destructor has joined and destroyed

vars == <<size, next, sending, ctx, op, queue, onPool, onIo, calls, sent, phase, down>>

callerVars == <<next, sending, ctx, sent>>
handlerVars == <<queue, onPool, onIo, calls>>
lifeVars == <<size, phase, down>>

Contexts == 0..(MaxContexts - 1)

IoOps == {"resolve", "connect", "handshake", "write", "read"}

TypeOK ==
  /\ size \in 0..MaxContexts
  /\ next \in Contexts
  /\ sending \in SUBSET Requests
  /\ ctx \in [Requests -> Contexts]
  /\ op \in [Requests -> IoOps \cup {"none"}]
  /\ queue \in Seq(Requests)
  /\ onPool \in SUBSET Requests
  /\ onIo \in SUBSET Requests
  /\ calls \in [Requests -> Nat]
  /\ sent \in SUBSET Requests
  /\ phase \in {"new", "up", "contexts", "pool", "gone", "crashed"}
  /\ down \in 0..size

Init ==
  /\ size = 0
  /\ next = 0
  /\ sending = {}
  /\ ctx = [r \in Requests |-> 0]
  /\ op = [r \in Requests |-> "none"]
  /\ queue = <<>>
  /\ onPool = {}
  /\ onIo = {}
  /\ calls = [r \in Requests |-> 0]
  /\ sent = {}
  /\ phase = "new"
  /\ down = 0

-----------------------------------------------------------------------------
(* start(), called once.  If the certificates do not load it throws before    *)
(* it makes a context, which leaves the object as it was.                     *)

\* Mutant: as many contexts as were asked for.
start_NoClamp(n) ==
  /\ phase = "new"
  /\ sending = {}
  /\ size' = n
  /\ phase' = "up"
  /\ UNCHANGED <<op, down, callerVars, handlerVars>>

start(n) ==
  /\ phase = "new"
  /\ sending = {}
  /\ size' = IF n < MaxContexts THEN n ELSE MaxContexts
  /\ phase' = "up"
  /\ UNCHANGED <<op, down, callerVars, handlerVars>>

-----------------------------------------------------------------------------
(* The caller's thread.  The atomic is loaded and stored, not incremented.  *)

FollowUps == DOMAIN Parent

\* The application's threads leave the object alone once it is being
\* destroyed.  Handlers that are running need not.
MaySend(r) ==
  IF r \in FollowUps THEN Parent[r] \in onPool \cup onIo ELSE phase \in {"new", "up"}

\* Mutant: the index after the last context is used before it wraps.
NextContext_Late(c) == IF c < size THEN c + 1 ELSE 0

NextContext(c) == IF c + 1 < size THEN c + 1 ELSE 0

\* getRestIoContext, the load.
LoadContext(r) ==
  /\ MaySend(r)
  /\ r \notin sent \cup sending
  /\ Cardinality(sending) < MaxSenders
  /\ sending' = sending \cup {r}
  /\ ctx' = [ctx EXCEPT ![r] = next]
  /\ UNCHANGED <<next, op, sent, handlerVars, lifeVars>>

\* The vector has the element and the destructor has not destroyed it.
Live(c) == c \in down..(size - 1)

\* getRestIoContext, the store; then RestSession::run, which fails at once
\* if the host name cannot be set.
StartSession(r) ==
  /\ r \in sending
  /\ Live(ctx[r])
  /\ sending' = sending \ {r}
  /\ next' = NextContext(ctx[r])
  /\ sent' = sent \cup {r}
  /\ \/ op' = [op EXCEPT ![r] = "resolve"] /\ UNCHANGED queue
     \/ queue' = Append(queue, r) /\ UNCHANGED op
  /\ UNCHANGED <<ctx, onPool, onIo, calls, lifeVars>>

\* Nothing compares curr with size(): an element that is not there, or no
\* longer, is used.  The behaviour is undefined; the model ends the process.
UseDeadContext(r) ==
  /\ r \in sending
  /\ ~Live(ctx[r])
  /\ phase' = "crashed"
  /\ sending' = {}
  /\ op' = [q \in Requests |-> "none"]
  /\ queue' = <<>>
  /\ onPool' = {}
  /\ onIo' = {}
  /\ UNCHANGED <<size, next, ctx, calls, sent, down>>

-----------------------------------------------------------------------------
(* Completion handlers, on the thread of the session's io_context.          *)

\* The io_context still runs, and its thread is not inside a user's handler.
IoThreadFree(c) == Live(c) /\ \A r \in onIo : ctx[r] # c

\* The operation r waits for completes: its handler may run.
Completed(r, from) ==
  /\ op[r] = from
  /\ IoThreadFree(ctx[r])
  /\ UNCHANGED <<onPool, callerVars, lifeVars>>

Starts(r, to) ==
  /\ op' = [op EXCEPT ![r] = to]
  /\ UNCHANGED <<queue, onIo, calls>>

\* fail(..., m_threadPool, m_callback), or a reply: the pool is to call it.
Posts(r) ==
  /\ op' = [op EXCEPT ![r] = "none"]
  /\ queue' = Append(queue, r)
  /\ UNCHANGED <<onIo, calls>>

\* fail("path not found", m_callback): the handler is called right here.
CallsHere(r) ==
  /\ op' = [op EXCEPT ![r] = "none"]
  /\ onIo' = onIo \cup {r}
  /\ calls' = [calls EXCEPT ![r] = @ + 1]
  /\ UNCHANGED queue

on_resolve(r) == Completed(r, "resolve") /\ (Starts(r, "connect") \/ Posts(r))

on_connect(r) == Completed(r, "connect") /\ (Starts(r, "handshake") \/ Posts(r))

on_handshake(r) == Completed(r, "handshake") /\ (Starts(r, "write") \/ Posts(r))

\* Mutant: a failed write is reported and the reply is read nevertheless.
on_write_NoElse(r) ==
  /\ Completed(r, "write")
  /\ op' = [op EXCEPT ![r] = "read"]
  /\ queue' \in {queue, Append(queue, r)}
  /\ UNCHANGED <<onIo, calls>>

on_write(r) == Completed(r, "write") /\ (Starts(r, "read") \/ Posts(r))

\* Mutant: a reply that is not JSON is ignored.
on_read_JsonOnly(r) ==
  /\ Completed(r, "read")
  /\ \/ Posts(r)
     \/ CallsHere(r)
     \/ op' = [op EXCEPT ![r] = "none"] /\ UNCHANGED <<queue, onIo, calls>>

\* Error, reply that is not JSON or does not parse, and answer alike are
\* posted; a 404 is not.
on_read(r) == Completed(r, "read") /\ (Posts(r) \/ CallsHere(r))

\* The handler of r is not inside sendRestRequest.
NotSending(r) == \A q \in sending \cap FollowUps : Parent[q] # r

IoHandlerReturns(r) ==
  /\ r \in onIo
  /\ NotSending(r)
  /\ onIo' = onIo \ {r}
  /\ UNCHANGED <<op, queue, onPool, calls, callerVars, lifeVars>>

-----------------------------------------------------------------------------
(* m_restCallersThreadPool, first in first out over NumThreads threads.     *)

PoolCalls ==
  /\ phase \in {"up", "contexts"}
  /\ queue # <<>>
  /\ Cardinality(onPool) < NumThreads
  /\ onPool' = onPool \cup {Head(queue)}
  /\ calls' = [calls EXCEPT ![Head(queue)] = @ + 1]
  /\ queue' = Tail(queue)
  /\ UNCHANGED <<op, onIo, callerVars, lifeVars>>

PoolHandlerReturns(r) ==
  /\ r \in onPool
  /\ NotSending(r)
  /\ onPool' = onPool \ {r}
  /\ UNCHANGED <<op, queue, onIo, calls, callerVars, lifeVars>>

-----------------------------------------------------------------------------
(* ~BinanceBeast.  No application thread is calling the object.             *)

\* stop() reaches m_restIocThreads.clear().
BeginStop ==
  /\ phase \in {"new", "up"}
  /\ sending \subseteq FollowUps
  /\ phase' = "contexts"
  /\ UNCHANGED <<size, op, down, callerVars, handlerVars>>

\* Mutant: the context is stopped and destroyed, its thread not joined.
DestroyContext_NoJoin ==
  /\ phase = "contexts"
  /\ down < size
  /\ down' = down + 1
  /\ op' = [r \in Requests |-> IF ctx[r] = down THEN "none" ELSE op[r]]
  /\ UNCHANGED <<size, phase, callerVars, handlerVars>>

\* Mutant: neither guard.reset() nor stop(), so run() and join never return.
DestroyContext_NoStop ==
  /\ phase = "contexts"
  /\ down < size
  /\ UNCHANGED vars

\* ~IoContext: stop() and join, which waits for the handler that is running;
\* then ~io_context destroys the operations, and with them the sessions.
DestroyContext ==
  /\ phase = "contexts"
  /\ down < size
  /\ IoThreadFree(down)
  /\ down' = down + 1
  /\ op' = [r \in Requests |-> IF ctx[r] = down THEN "none" ELSE op[r]]
  /\ UNCHANGED <<size, phase, callerVars, handlerVars>>

\* ~thread_pool: stop(), what is queued will not run ...
StopPool ==
  /\ phase = "contexts"
  /\ down = size
  /\ phase' = "pool"
  /\ queue' = <<>>
  /\ UNCHANGED <<size, op, onPool, onIo, calls, down, callerVars>>

\* ... and join().
JoinPool ==
  /\ phase = "pool"
  /\ onPool = {}
  /\ phase' = "gone"
  /\ UNCHANGED <<size, op, down, callerVars, handlerVars>>

Ended == phase \in {"gone", "crashed"} /\ UNCHANGED vars

Complete(r) ==
  \/ on_resolve(r)
  \/ on_connect(r)
  \/ on_handshake(r)
  \/ on_write(r)
  \/ on_read(r)

Destructor == DestroyContext \/ StopPool \/ JoinPool

Next ==
  \/ \E r \in Requests : \/ LoadContext(r)
                         \/ StartSession(r)
                         \/ UseDeadContext(r)
                         \/ Complete(r)
                         \/ IoHandlerReturns(r)
                         \/ PoolHandlerReturns(r)
  \/ \E n \in Sizes : start(n)
  \/ PoolCalls
  \/ BeginStop
  \/ Destructor
  \/ Ended

Spec == Init /\ [][Next]_vars

\* Callers finish their call and users' handlers return.  Every operation
\* completes: the resolver gives up by itself, connect, handshake, write and
\* read have the time limits set with expires_after, and an io_context and a
\* pool serve what is ready first come, first served.
Fairness ==
  /\ \A r \in Requests : /\ WF_vars(StartSession(r) \/ UseDeadContext(r))
                         /\ WF_vars(Complete(r))
                         /\ WF_vars(IoHandlerReturns(r))
                         /\ WF_vars(PoolHandlerReturns(r))
  /\ WF_vars(PoolCalls)
  /\ WF_vars(DestroyContext)
  /\ WF_vars(StopPool)
  /\ WF_vars(JoinPool)

FairSpec == Spec /\ Fairness

-----------------------------------------------------------------------------
(* Properties.                                                              *)

\* A request that was sent is in one place: one operation pending, one call
\* queued, or one call made, and in none only when the destructor has taken its
\* io_context away.  So no error path answers twice and none forgets to answer.
OneAnswer ==
  /\ \A i, j \in DOMAIN queue : queue[i] = queue[j] => i = j
  /\ \A r \in sent :
       LET pending == op[r] # "none"
           queued == r \in Range(queue)
       IN  /\ calls[r] <= 1
           /\ ~(pending /\ queued)
           /\ pending \/ queued => calls[r] = 0
           /\ phase \in {"up", "contexts"} /\ Live(ctx[r]) => pending \/ queued \/ calls[r] = 1

\* m_threadPool is a reference: a completion handler that may post to the pool
\* runs only while the pool does, an io thread inside a user's handler belongs
\* to a context that still exists, and a destroyed context leaves no operation.
\* Once the destructor has returned no thread is in a user's handler.
ContextsGoFirst ==
  /\ phase \in {"pool", "gone"} => down = size
  /\ \A r \in Requests : op[r] # "none" \/ r \in onIo => ctx[r] \in down..(size - 1)
  /\ phase = "gone" => onPool = {} /\ onIo = {} /\ queue = <<>>

\* Of all requests only two kinds use an io_context that is not there: one
\* sent to an object that has none (before start(), or after it was asked for
\* 0), and one that a handler sends while the destructor destroys them.  The
\* index never runs past the vector, however many threads move it.
OnlyMisuseCrashes ==
  phase = "crashed" => size = 0 \/ (down > 0 /\ \E r \in FollowUps : r \notin sent /\ calls[Parent[r]] > 0)

\* The destructor comes to its end, also when handlers send requests to the
\* contexts it is destroying, unless one of them meets a context already gone.
DestructorEnds == phase = "contexts" ~> phase \in {"gone", "crashed"}

-----------------------------------------------------------------------------
(* The promise of sendRestRequest, which all this implements: by its         *)
(* fairness a request that was sent is answered, unless the object is        *)
(* destroyed or the process ends first.                                      *)

\* Requests that are nowhere any more and were not answered.
Lost == {r \in sent : op[r] = "none" /\ r \notin Range(queue) /\ calls[r] = 0}

Promise ==
  INSTANCE RestCall WITH
    answers <- calls,
    dropped <- Lost,
    closing <- phase \notin {"new", "up"}

CallsPromised == Promise!CallSpec
=============================================================================
