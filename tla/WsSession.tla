----------------------------- MODULE WsSession -----------------------------
(***************************************************************************)
(* One WebSocket session of binancebeast, from the moment createWsSession  *)
(* has registered and started it until its last shared_ptr is released.    *)
(*                                                                         *)
(* Four parties touch it:                                                  *)
(*   - the io thread, the single thread of the io_context the session was  *)
(*     given, which runs every completion handler of the session one after *)
(*     another (on_resolve ... on_read and the callback given to close);   *)
(*   - the pool thread of the session's OrderedThreadPool(1, 4), which     *)
(*     calls the user's handler with the messages in the queue;            *)
(*   - an application thread calling stopWebSocket, at any moment;         *)
(*   - the network and Binance, which deliver messages and errors.         *)
(*                                                                         *)
(* Messages are numbered by the order in which on_read takes them off the  *)
(* stream; whether their text is valid JSON is all that is kept of them.   *)
(***************************************************************************)
EXTENDS Naturals, Sequences, Functions

CONSTANTS
  QueueCap,   \* results the handler pool queues before Do() blocks (4)
  MaxMsgs,    \* bound: messages Binance sends on this stream
  MaxStops    \* bound: calls of stopWebSocket that find the session

ASSUME QueueCapAssumption == QueueCap \in Nat \ {0}
ASSUME BoundsAssumption == MaxMsgs \in Nat /\ MaxStops \in Nat

VARIABLES
  op,          \* the one asynchronous operation of the chain that is pending
  ws,          \* status of m_ws as Beast keeps it
  io,          \* what the io thread is doing for this session
  rcvd,        \* messages taken off the stream by on_read
  queue,       \* m_handlersPool: message numbers waiting for the pool thread
  handling,    \* message the pool thread is giving to the handler, 0 if none
  registered,  \* the session is in BinanceBeast::m_wsSessions
  closeWaiting,\* async_close operations waiting for the closing handshake
  closeReady,  \* async_close operations completed, callback not yet run
  alive,       \* the object still exists
  good,        \* history: messages whose text was valid JSON
  called,      \* history: messages whose result the handler was called with
  stops,       \* history: stopWebSocket calls that reached close()
  openStop,    \* history: one of them found the stream open
  disconnects  \* history: Disconnect responses given to a handler

vars == <<op, ws, io, rcvd, queue, handling, registered, closeWaiting,
          closeReady, alive, good, called, stops, openStop, disconnects>>

streamVars  == <<op, ws, rcvd, good>>
poolVars    == <<queue, handling, called>>
closeVars   == <<registered, closeWaiting, closeReady, stops, openStop,
                 disconnects>>

ConnectOps == {"resolve", "connect", "ssl_handshake", "handshake"}

TypeOK ==
  /\ op \in ConnectOps \cup {"read", "none"}
  /\ ws \in {"closed", "open", "closing", "done"}
  /\ io \in {"idle", "fail", "json_fail", "pushing", "disconnect", "joining"}
  /\ rcvd \in 0..MaxMsgs
  /\ queue \in Seq(1..MaxMsgs) /\ Len(queue) <= QueueCap
  /\ handling \in 0..MaxMsgs
  /\ registered \in BOOLEAN
  /\ closeWaiting \in Nat
  /\ closeReady \in Nat
  /\ alive \in BOOLEAN
  /\ good \in SUBSET (1..MaxMsgs)
  /\ called \in SUBSET (1..MaxMsgs)
  /\ stops \in 0..MaxStops
  /\ openStop \in BOOLEAN
  /\ disconnects \in Nat

\* The session as createWsSession leaves it: in the map, async_resolve pending.
Init ==
  /\ op = "resolve"
  /\ ws = "closed"
  /\ io = "idle"
  /\ rcvd = 0
  /\ queue = <<>>
  /\ handling = 0
  /\ registered = TRUE
  /\ closeWaiting = 0
  /\ closeReady = 0
  /\ alive = TRUE
  /\ good = {}
  /\ called = {}
  /\ stops = 0
  /\ openStop = FALSE
  /\ disconnects = 0

-----------------------------------------------------------------------------
(* The connection chain.  A completion handler that gets an error calls the *)
(* user's handler on the io thread (fail) and starts nothing more.          *)

Fails ==
  /\ op' = "none"
  /\ io' = "fail"

\* Completion of operation from: its handler starts operation to, or fails.
Completes(from, to) ==
  /\ io = "idle"
  /\ op = from
  /\ \/ op' = to /\ UNCHANGED io
     \/ Fails
  /\ UNCHANGED <<ws, rcvd, good, alive, poolVars, closeVars>>

on_resolve == Completes("resolve", "connect")

\* Covers the SNI failure too, which also ends in fail.
on_connect == Completes("connect", "ssl_handshake")

on_ssl_handshake == Completes("ssl_handshake", "handshake")

\* The stream is open from here on, whatever stopWebSocket did before.
on_handshake ==
  /\ io = "idle"
  /\ op = "handshake"
  /\ \/ op' = "read" /\ ws' = "open" /\ UNCHANGED io
     \/ Fails /\ ws' = "done"
  /\ UNCHANGED <<rcvd, good, alive, poolVars, closeVars>>

-----------------------------------------------------------------------------
(* on_read, one action per outcome of async_read.                           *)

ReadCompletes ==
  /\ io = "idle"
  /\ op = "read"

\* Mutants of Do: no bound; newest first; the oldest result makes room.
Do_Unbounded(m) == queue' = Append(queue, m) /\ UNCHANGED <<op, io>>

Do_Front(m) ==
  IF Len(queue) < QueueCap
  THEN queue' = <<m>> \o queue /\ UNCHANGED <<op, io>>
  ELSE op' = "none" /\ io' = "pushing" /\ UNCHANGED queue

Do_DropOldest(m) ==
  /\ queue' = Append(IF Len(queue) < QueueCap THEN queue ELSE Tail(queue), m)
  /\ UNCHANGED <<op, io>>

\* m_handlersPool->Do: queue the result, or hold the io thread while full.
Do(m) ==
  IF Len(queue) < QueueCap
  THEN queue' = Append(queue, m) /\ UNCHANGED <<op, io>>
  ELSE op' = "none" /\ io' = "pushing" /\ UNCHANGED queue

\* A message whose text parses goes to the pool; then the next async_read.
OnReadMessage ==
  /\ ReadCompletes
  /\ ws \in {"open", "closing"}
  /\ rcvd < MaxMsgs
  /\ rcvd' = rcvd + 1
  /\ good' = good \cup {rcvd'}
  /\ Do(rcvd')
  /\ UNCHANGED <<ws, handling, called, alive, closeVars>>

\* A message whose text does not parse: the handler is called right here.
OnReadBadJson ==
  /\ ReadCompletes
  /\ ws \in {"open", "closing"}
  /\ rcvd < MaxMsgs
  /\ rcvd' = rcvd + 1
  /\ called' = called \cup {rcvd'}
  /\ op' = "none"
  /\ io' = "json_fail"
  /\ UNCHANGED <<ws, good, queue, handling, alive, closeVars>>

\* Network failure, or Binance closed the stream.
OnReadError ==
  /\ ReadCompletes
  /\ ws \in {"open", "closing"}
  /\ Fails
  /\ ws' = "done"
  /\ UNCHANGED <<rcvd, good, alive, poolVars, closeVars>>

\* operation_aborted after close(): return, the chain ends silently.
OnReadAborted ==
  /\ ReadCompletes
  /\ ws = "done"
  /\ op' = "none"
  /\ UNCHANGED <<ws, io, rcvd, good, alive, poolVars, closeVars>>

\* Mutants of DoUnblocks: the held result is not pushed; the wake-up is missed
\* once the pool's thread has taken a second result.
DoUnblocks_Forgets ==
  /\ io = "pushing"
  /\ Len(queue) < QueueCap
  /\ op' = "read"
  /\ io' = "idle"
  /\ UNCHANGED <<ws, rcvd, good, poolVars, alive, closeVars>>

DoUnblocks_MissesWakeup ==
  /\ io = "pushing"
  /\ IF Len(queue) = QueueCap - 1
     THEN /\ queue' = Append(queue, rcvd)
          /\ op' = "read"
          /\ io' = "idle"
     ELSE UNCHANGED <<queue, op, io>>
  /\ UNCHANGED <<ws, rcvd, good, handling, called, alive, closeVars>>

\* Do() returns once the pool thread has made room; on_read goes on reading.
DoUnblocks ==
  /\ io = "pushing"
  /\ Len(queue) < QueueCap
  /\ queue' = Append(queue, rcvd)
  /\ op' = "read"
  /\ io' = "idle"
  /\ UNCHANGED <<ws, rcvd, good, handling, called, alive, closeVars>>

\* The user's handler returns to the completion handler that called it.
IoHandlerReturns ==
  /\ io \in {"fail", "json_fail", "disconnect"}
  /\ io' = "idle"
  /\ op' = IF io = "json_fail" THEN "read" ELSE op
  /\ UNCHANGED <<ws, rcvd, good, alive, poolVars, closeVars>>

-----------------------------------------------------------------------------
(* The handler pool (OrderedThreadPool, one thread).                        *)

\* Mutant: the newest result first.
PoolCallsHandler_Newest ==
  /\ handling = 0
  /\ queue # <<>>
  /\ handling' = queue[Len(queue)]
  /\ called' = called \cup {queue[Len(queue)]}
  /\ queue' = SubSeq(queue, 1, Len(queue) - 1)
  /\ UNCHANGED <<io, alive, streamVars, closeVars>>

PoolCallsHandler ==
  /\ handling = 0
  /\ queue # <<>>
  /\ handling' = Head(queue)
  /\ called' = called \cup {Head(queue)}
  /\ queue' = Tail(queue)
  /\ UNCHANGED <<io, alive, streamVars, closeVars>>

PoolHandlerReturns ==
  /\ handling # 0
  /\ handling' = 0
  /\ UNCHANGED <<io, queue, called, alive, streamVars, closeVars>>

-----------------------------------------------------------------------------
(* stopWebSocket and WsSession::close.                                      *)

\* Mutant: completes at once whatever the stream is doing.
async_close_NoHandshake ==
  /\ closeReady' = closeReady + 1
  /\ UNCHANGED <<ws, closeWaiting>>

\* async_close on an open stream starts the closing handshake; one more waits
\* for that handshake; on a stream that is not open it completes at once.
async_close ==
  \/ /\ ws \in {"open", "closing"}
     /\ ws' = "closing"
     /\ closeWaiting' = closeWaiting + 1
     /\ UNCHANGED closeReady
  \/ /\ ws \in {"closed", "done"}
     /\ closeReady' = closeReady + 1
     /\ UNCHANGED <<ws, closeWaiting>>

stopWebSocket ==
  /\ registered
  /\ stops < MaxStops
  /\ stops' = stops + 1
  /\ openStop' = (openStop \/ ws = "open")
  /\ async_close
  /\ UNCHANGED <<op, io, rcvd, good, alive, registered, disconnects, poolVars>>

\* Mutant: only one of the async_close operations that waited completes.
CloseHandshakeEnds_One ==
  /\ io = "idle"
  /\ closeWaiting > 0
  /\ ws' = "done"
  /\ closeReady' = closeReady + 1
  /\ closeWaiting' = 0
  /\ UNCHANGED <<op, io, rcvd, good, alive, registered, stops, openStop,
                 disconnects, poolVars>>

\* The closing handshake ends (answered, failed or timed out): the stream is
\* closed and every async_close that waited completes.
CloseHandshakeEnds ==
  /\ io = "idle"
  /\ closeWaiting > 0
  /\ ws' = "done"
  /\ closeReady' = closeReady + closeWaiting
  /\ closeWaiting' = 0
  /\ UNCHANGED <<op, io, rcvd, good, alive, registered, stops, openStop,
                 disconnects, poolVars>>

\* Mutant: the session stays in the map.
CloseCallback_NoErase ==
  /\ io = "idle"
  /\ closeReady > 0
  /\ closeReady' = closeReady - 1
  /\ io' = "disconnect"
  /\ disconnects' = disconnects + 1
  /\ UNCHANGED <<registered, closeWaiting, stops, openStop, alive, streamVars,
                 poolVars>>

\* The lambda stopWebSocket gave to close: erase, then call the handler.
CloseCallback ==
  /\ io = "idle"
  /\ closeReady > 0
  /\ closeReady' = closeReady - 1
  /\ registered' = FALSE
  /\ io' = "disconnect"
  /\ disconnects' = disconnects + 1
  /\ UNCHANGED <<closeWaiting, stops, openStop, alive, streamVars, poolVars>>

-----------------------------------------------------------------------------
(* Lifetime: shared_ptrs are held by the map, by the pending operation      *)
(* (shared_from_this) and by the close lambda (session).                    *)

Referenced ==
  \/ registered
  \/ op # "none"
  \/ closeWaiting > 0
  \/ closeReady > 0
  \/ io # "idle"

\* The last shared_ptr goes: ~OrderedThreadPool drops or keeps what is queued.
Destroy ==
  /\ alive
  /\ ~Referenced
  /\ io' = "joining"
  /\ queue' \in {queue, <<>>}
  /\ UNCHANGED <<handling, called, alive, streamVars, closeVars>>

\* Mutant: the pool's thread is not waited for.
Joined_Detached ==
  /\ io = "joining"
  /\ io' = "idle"
  /\ alive' = FALSE
  /\ UNCHANGED <<streamVars, poolVars, closeVars>>

\* ... and has joined its thread.
Joined ==
  /\ io = "joining"
  /\ queue = <<>>
  /\ handling = 0
  /\ io' = "idle"
  /\ alive' = FALSE
  /\ UNCHANGED <<streamVars, poolVars, closeVars>>

\* Nothing is left to happen: the object is gone, or its chain has ended and
\* it stays in m_wsSessions with nobody stopping it.
Quiescent ==
  /\ op = "none"
  /\ io = "idle"
  /\ queue = <<>>
  /\ handling = 0
  /\ closeWaiting + closeReady = 0
  /\ alive => registered
  /\ UNCHANGED vars

OnRead ==
  \/ OnReadMessage
  \/ OnReadBadJson
  \/ OnReadError
  \/ OnReadAborted

IoThread ==
  \/ on_resolve
  \/ on_connect
  \/ on_ssl_handshake
  \/ on_handshake
  \/ OnRead
  \/ DoUnblocks
  \/ IoHandlerReturns
  \/ CloseHandshakeEnds
  \/ CloseCallback
  \/ Destroy
  \/ Joined

PoolThread == PoolCallsHandler \/ PoolHandlerReturns

Next == IoThread \/ PoolThread \/ stopWebSocket \/ Quiescent

Spec == Init /\ [][Next]_vars

\* The threads run and the user's handlers return.  Binance owes no message,
\* so reading has no fairness except that an aborted read is reported.  The
\* closing handshake has Beast's timeout, and an io_context runs its ready
\* handlers first come, first served, so neither is passed over for ever.
Fairness ==
  /\ WF_vars(OnReadAborted)
  /\ WF_vars(DoUnblocks)
  /\ WF_vars(IoHandlerReturns)
  /\ WF_vars(Destroy)
  /\ WF_vars(Joined)
  /\ WF_vars(PoolCallsHandler)
  /\ WF_vars(PoolHandlerReturns)
  /\ SF_vars(CloseHandshakeEnds)
  /\ SF_vars(CloseCallback)

FairSpec == Spec /\ Fairness

-----------------------------------------------------------------------------
(* Properties.                                                              *)

Held == IF io = "pushing" THEN {rcvd} ELSE {}

\* Every message on_read took off the stream is exactly where it should be:
\* its result given to the handler, queued, or held by the blocked Do().  No
\* message is lost however Do() blocks; only destruction may drop the queue.
NothingLost ==
  alive /\ io # "joining" => called \cup Range(queue) \cup Held = 1..rcvd

\* The queue and the held message are in stream order, without duplicates,
\* and newer than every message the pool has handed to the handler.
QueueInOrder ==
  /\ \A i, j \in 1..Len(queue) : i < j => queue[i] < queue[j]
  /\ \A i \in 1..Len(queue) : \A m \in Held : queue[i] < m
  /\ \A k \in called \cap good : \A m \in Range(queue) \cup Held : k < m

\* "handlers are called in the same order as pushed onto the pool": the pool
\* never hands over a message older than one it already handed over.
DataInOrder ==
  [][\A m \in (called' \ called) \cap good :
        \A k \in called \cap good : k < m]_vars

\* Every stopWebSocket that reached close() is owed exactly one Disconnect:
\* it is waiting for the handshake, ready to run, or was delivered.
DisconnectPerStop == stops = closeWaiting + closeReady + disconnects

\* Once a stop that found the stream open has been answered, with every other
\* stop, the stream is closed: nothing more is read from it.
OpenStopCloses == openStop /\ disconnects = stops => ws = "done"

\* The object outlives its work: while an operation, a close callback, a user
\* handler or a queued message is left, the session has not been destroyed.
WorkKeepsAlive ==
  ~alive => /\ ~registered
            /\ op = "none" /\ io = "idle"
            /\ closeWaiting = 0 /\ closeReady = 0
            /\ queue = <<>> /\ handling = 0

\* A session stopped while open is eventually destroyed: no shared_ptr cycle
\* and no forgotten operation keeps it.
OpenStopFrees == openStop ~> ~alive

\* A reader blocked in Do() always gets to go on.
BlockedResumes == io = "pushing" ~> io # "pushing"

-----------------------------------------------------------------------------
(* The promise of WsStream, which all this implements.                      *)

\* What is queued and, behind it, what the io thread holds inside Do().
Backlog == queue \o (IF io = "pushing" THEN <<rcvd>> ELSE <<>>)

Stream ==
  INSTANCE WsStream WITH
    Room <- QueueCap + 1,
    backlog <- Backlog,
    taken <- rcvd,
    given <- called,
    owed <- closeWaiting + closeReady,
    answered <- disconnects,
    ended <- io = "joining" \/ ~alive

\* A session is a stream as WsStream describes it: what the user sees of four
\* parties, a blocked Do() and any number of stops is one backlog in order,
\* with room for one message more than the pool's queue, and one answer each.
\* By WsStream's fairness each message queued reaches the handler unless the
\* session is destroyed first, and each accepted stop is answered.
StreamPromised == Stream!StreamSpec

-----------------------------------------------------------------------------
(* What the comments and the README say, and the code does not do.          *)

\* "the user's handler is documented as non-reentrant": not called on the io
\* thread while the pool thread is still inside it.
NonReentrant == ~(io \in {"fail", "json_fail"} /\ handling # 0)

\* "handler - will be called when the stream is closed": after the Disconnect
\* of every accepted stopWebSocket the stream is not open.
DisconnectedIsClosed == stops > 0 /\ disconnects = stops => ws # "open"
=============================================================================
