-------------------------- MODULE WsSession_proofs --------------------------
(***************************************************************************)
(* Proofs about WsSession, for every queue capacity and every number of    *)
(* messages and of stops.                                                  *)
(*                                                                         *)
(* The invariants of WsSession are not inductive one by one: that the      *)
(* queue is in order needs to know that nothing in it is newer than rcvd,  *)
(* that an answered stop closed the stream needs to know who may hold the  *)
(* stream in "closing".  IInv gathers them with those missing parts.       *)
(***************************************************************************)
EXTENDS WsSession, SequenceLemmas

-----------------------------------------------------------------------------
(* The elements of the pool's queue after a push.                           *)

\* RangeOfAppend, of the pool's queue.
LEMMA RangeOfPush ==
  ASSUME NEW q \in Seq(1..MaxMsgs), NEW m \in 1..MaxMsgs
  PROVE  Range(Append(q, m)) = Range(q) \cup {m}
<1> DEFINE S == 1..MaxMsgs
<1>1. q \in Seq(S) /\ m \in S
  OBVIOUS
<1> HIDE DEF S
<1> QED
  BY <1>1, RangeOfAppend

-----------------------------------------------------------------------------
(* The inductive invariant.                                                 *)

\* Nothing is newer than the last message read, and what Do() holds is good.
Numbering ==
  /\ good \subseteq 1..rcvd
  /\ called \subseteq 1..rcvd
  /\ \A i \in 1..Len(queue) : queue[i] \in 1..rcvd
  /\ io = "pushing" => rcvd \in 1..MaxMsgs

\* While on_read is inside Do() or inside the handler no operation is pending,
\* and until the handshake is over the stream is not open.
ChainState ==
  /\ io \in {"pushing", "json_fail"} => op = "none"
  /\ op \in ConnectOps => ws = "closed" /\ closeWaiting = 0

\* A stop that found the stream open has left it closing or done, and while it
\* is closing some async_close still waits for the handshake.
CloseState ==
  /\ openStop => ws \in {"closing", "done"}
  /\ ws = "closing" => closeWaiting > 0

\* What is true while the destructor runs, and after it.
Lifetime ==
  /\ io = "joining" => /\ alive
                       /\ ~registered
                       /\ op = "none"
                       /\ closeWaiting = 0
                       /\ closeReady = 0
  /\ WorkKeepsAlive

IInv ==
  /\ TypeOK
  /\ Numbering
  /\ QueueInOrder
  /\ NothingLost
  /\ ChainState
  /\ CloseState
  /\ DisconnectPerStop
  /\ Lifetime

\* They hold of a session that has only been made.
LEMMA InitIInv == Init => IInv
<1> SUFFICES ASSUME Init PROVE IInv
  OBVIOUS
<1>1. Range(queue) = {}
  BY DEF Init, Range
<1>2. TypeOK
  <2>1. registered \in BOOLEAN /\ alive \in BOOLEAN /\ openStop \in BOOLEAN
    BY Zenon DEF Init
  <2>2. queue \in Seq(1..MaxMsgs) /\ Len(queue) = 0
    BY EmptyQueue, Zenon DEF Init
  <2>3. /\ Len(queue) <= QueueCap
        /\ rcvd \in 0..MaxMsgs /\ handling \in 0..MaxMsgs
        /\ stops \in 0..MaxStops
        /\ closeWaiting \in Nat /\ closeReady \in Nat /\ disconnects \in Nat
    BY <2>2, QueueCapAssumption, BoundsAssumption DEF Init
  <2>4. good \in SUBSET (1..MaxMsgs) /\ called \in SUBSET (1..MaxMsgs)
    BY DEF Init
  <2>5. /\ op \in ConnectOps \cup {"read", "none"}
        /\ ws \in {"closed", "open", "closing", "done"}
        /\ io \in {"idle", "fail", "json_fail", "pushing", "disconnect",
                  "joining"}
    BY DEF Init, ConnectOps
  <2> QED
    BY <2>1, <2>2, <2>3, <2>4, <2>5, Zenon DEF TypeOK
<1>3. QueueInOrder /\ NothingLost
  BY <1>1 DEF Init, QueueInOrder, NothingLost, Held
<1>4. Numbering /\ ChainState /\ CloseState /\ DisconnectPerStop /\ Lifetime
  BY DEF Init, Numbering, ChainState, CloseState, DisconnectPerStop, Lifetime,
         WorkKeepsAlive, Referenced, ConnectOps
<1> QED
  BY <1>2, <1>3, <1>4 DEF IInv

-----------------------------------------------------------------------------
(* Type correctness.                                                        *)

\* Every step keeps the types; Do() never exceeds the capacity.
LEMMA TypeStep == TypeOK /\ ChainState /\ Numbering /\ [Next]_vars => TypeOK'
<1> SUFFICES ASSUME TypeOK /\ ChainState /\ Numbering, [Next]_vars PROVE TypeOK'
  OBVIOUS
<1> USE QueueCapAssumption, BoundsAssumption
<1> USE DEF TypeOK, ChainState, Numbering, ConnectOps, poolVars, closeVars, streamVars
<1>1. CASE on_resolve
  BY <1>1 DEF on_resolve, Completes, Fails
<1>2. CASE on_connect
  BY <1>2 DEF on_connect, Completes, Fails
<1>3. CASE on_ssl_handshake
  BY <1>3 DEF on_ssl_handshake, Completes, Fails
<1>4. CASE on_handshake
  BY <1>4 DEF on_handshake, Fails
<1>5. CASE OnReadMessage
  <2>1. rcvd' \in 1..MaxMsgs /\ good' \in SUBSET (1..MaxMsgs)
    BY <1>5 DEF OnReadMessage
  <2>2. CASE Len(queue) < QueueCap
    <3>1. queue' = Append(queue, rcvd') /\ op' = op /\ io' = io
      BY <1>5, <2>2 DEF OnReadMessage, Do
    <3>2. queue' \in Seq(1..MaxMsgs) /\ Len(queue') <= QueueCap
      BY <2>1, <2>2, <3>1
    <3> QED
      BY <1>5, <2>1, <3>1, <3>2 DEF OnReadMessage
  <2>3. CASE ~(Len(queue) < QueueCap)
    BY <1>5, <2>1, <2>3 DEF OnReadMessage, Do
  <2> QED
    BY <2>2, <2>3
<1>6. CASE OnReadBadJson
  BY <1>6 DEF OnReadBadJson, ReadCompletes
<1>7. CASE OnReadError
  BY <1>7 DEF OnReadError, ReadCompletes, Fails
<1>8. CASE OnReadAborted
  BY <1>8 DEF OnReadAborted, ReadCompletes
<1>9. CASE DoUnblocks
  BY <1>9 DEF DoUnblocks
<1>10. CASE IoHandlerReturns
  BY <1>10 DEF IoHandlerReturns
<1>11. CASE CloseHandshakeEnds
  BY <1>11 DEF CloseHandshakeEnds
<1>12. CASE CloseCallback
  <2>1. closeReady' \in Nat /\ disconnects' \in Nat
    BY <1>12 DEF CloseCallback
  <2>2. registered' \in BOOLEAN /\ io' = "disconnect"
    BY <1>12, Zenon DEF CloseCallback
  <2> QED
    BY <1>12, <2>1, <2>2, Zenon DEF CloseCallback
<1>13. CASE Destroy
  <2>1. queue' = queue \/ queue' = <<>>
    BY <1>13, Zenon DEF Destroy
  <2>2. queue' \in Seq(1..MaxMsgs) /\ Len(queue') <= QueueCap
    <3>1. <<>> \in Seq(1..MaxMsgs) /\ Len(<<>>) = 0 /\ 0 <= QueueCap
      BY EmptyQueue
    <3>2. <<>> \in Seq(1..MaxMsgs) /\ Len(<<>>) <= QueueCap
      BY <3>1, Zenon
    <3> QED
      BY <2>1, <3>2, Zenon
  <2>3. registered' \in BOOLEAN /\ alive' \in BOOLEAN /\ openStop' \in BOOLEAN
    BY <1>13, Zenon DEF Destroy
  <2> QED
    BY <1>13, <2>2, <2>3, Zenon DEF Destroy
<1>14. CASE Joined
  BY <1>14 DEF Joined
<1>15. CASE PoolCallsHandler
  <2>1. queue # <<>>
    BY <1>15 DEF PoolCallsHandler
  <2>2. /\ Head(queue) \in 1..MaxMsgs
        /\ Tail(queue) \in Seq(1..MaxMsgs)
        /\ Len(Tail(queue)) = Len(queue) - 1
    BY <2>1
  <2>3. queue' \in Seq(1..MaxMsgs) /\ Len(queue') <= QueueCap
    <3>1. Len(queue) \in Nat /\ queue' = Tail(queue)
      BY <1>15 DEF PoolCallsHandler
    <3> QED
      BY <2>2, <3>1
  <2>4. handling' \in 0..MaxMsgs
    BY <1>15, <2>2 DEF PoolCallsHandler
  <2>5. called' \in SUBSET (1..MaxMsgs)
    BY <1>15, <2>2 DEF PoolCallsHandler
  <2>6. /\ registered' \in BOOLEAN /\ alive' \in BOOLEAN /\ openStop' \in BOOLEAN
        /\ UNCHANGED <<op, ws, io, rcvd, good, closeWaiting, closeReady, stops,
                       disconnects>>
    BY <1>15, Zenon DEF PoolCallsHandler
  <2> QED
    BY <2>3, <2>4, <2>5, <2>6, Zenon
<1>16. CASE PoolHandlerReturns
  BY <1>16 DEF PoolHandlerReturns
<1>17. CASE stopWebSocket
  BY <1>17 DEF stopWebSocket, async_close
<1>18. CASE UNCHANGED vars
  BY <1>18 DEF vars
<1> QED
  BY <1>1, <1>2, <1>3, <1>4, <1>5, <1>6, <1>7, <1>8, <1>9, <1>10, <1>11, <1>12, <1>13, <1>14, <1>15, <1>16, <1>17, <1>18
     DEF Next, IoThread, PoolThread, OnRead, Quiescent

-----------------------------------------------------------------------------
(* The messages.  Only six actions move a message; for every other step the *)
(* part of the state the message invariants read is the same.               *)

Moves ==
  \/ OnReadMessage
  \/ OnReadBadJson
  \/ DoUnblocks
  \/ Destroy
  \/ Joined
  \/ PoolCallsHandler

MovesNothing ==
  /\ UNCHANGED <<rcvd, queue, called, good, alive>>
  /\ io' = "pushing" <=> io = "pushing"
  /\ io' = "joining" <=> io = "joining"

\* Every other step leaves the messages where they are.
LEMMA OthersMoveNothing == [Next]_vars => Moves \/ MovesNothing
<1> SUFFICES ASSUME [Next]_vars, ~Moves PROVE MovesNothing
  OBVIOUS
<1> USE DEF MovesNothing, poolVars, streamVars, closeVars
<1>1. CASE on_resolve \/ on_connect \/ on_ssl_handshake
  BY <1>1 DEF on_resolve, on_connect, on_ssl_handshake, Completes, Fails
<1>2. CASE on_handshake
  BY <1>2 DEF on_handshake, Fails
<1>3. CASE OnReadError
  BY <1>3 DEF OnReadError, ReadCompletes, Fails
<1>4. CASE OnReadAborted
  BY <1>4 DEF OnReadAborted
<1>5. CASE IoHandlerReturns
  BY <1>5 DEF IoHandlerReturns
<1>6. CASE CloseHandshakeEnds
  BY <1>6 DEF CloseHandshakeEnds
<1>7. CASE CloseCallback
  BY <1>7 DEF CloseCallback
<1>8. CASE PoolHandlerReturns
  BY <1>8 DEF PoolHandlerReturns
<1>9. CASE stopWebSocket
  BY <1>9 DEF stopWebSocket
<1>10. CASE UNCHANGED vars
  BY <1>10 DEF vars
<1> QED
  BY <1>1, <1>2, <1>3, <1>4, <1>5, <1>6, <1>7, <1>8, <1>9, <1>10
     DEF Moves, Next, IoThread, PoolThread, OnRead, Quiescent

\* Numbers are given in stream order and every queued result has one.
LEMMA NumberingStep ==
  TypeOK /\ Numbering /\ [Next]_vars => Numbering'
<1> SUFFICES ASSUME TypeOK, Numbering, [Next]_vars PROVE Numbering'
  OBVIOUS
<1>0. /\ rcvd \in Nat /\ rcvd \in 0..MaxMsgs /\ MaxMsgs \in Nat
      /\ queue \in Seq(1..MaxMsgs) /\ Len(queue) \in Nat
  BY BoundsAssumption DEF TypeOK
<1>1. CASE OnReadMessage
  <2>1. rcvd' = rcvd + 1 /\ rcvd' \in 1..MaxMsgs /\ called' = called
    BY <1>0, <1>1 DEF OnReadMessage
  <2>2. good' \subseteq 1..rcvd' /\ called' \subseteq 1..rcvd'
    BY <1>0, <1>1, <2>1 DEF OnReadMessage, Numbering
  <2>3. queue' = queue \/ queue' = Append(queue, rcvd')
    BY <1>1 DEF OnReadMessage, Do
  <2>4. \A i \in 1..Len(queue') : queue'[i] \in 1..rcvd'
    <3>1. \A i \in 1..Len(queue) : queue[i] \in 1..rcvd'
      BY <1>0, <2>1 DEF Numbering
    <3>2. CASE queue' = queue
      BY <3>1, <3>2, Zenon
    <3>3. CASE queue' = Append(queue, rcvd')
      BY <1>0, <2>1, <3>1, <3>3
    <3> QED
      BY <2>3, <3>2, <3>3
  <2> QED
    BY <2>1, <2>2, <2>4 DEF Numbering
<1>2. CASE OnReadBadJson
  BY <1>0, <1>2 DEF OnReadBadJson, Numbering
<1>3. CASE DoUnblocks
  <2>1. rcvd \in 1..MaxMsgs
    BY <1>3 DEF DoUnblocks, Numbering
  <2>2. queue' = Append(queue, rcvd) /\ UNCHANGED <<rcvd, good, called>>
    BY <1>3 DEF DoUnblocks
  <2>3. \A i \in 1..Len(queue') : queue'[i] \in 1..rcvd
    BY <1>0, <2>1, <2>2 DEF Numbering
  <2> QED
    BY <1>3, <2>2, <2>3 DEF DoUnblocks, Numbering
<1>4. CASE Destroy
  <2>1. \A i \in 1..Len(queue') : queue'[i] \in 1..rcvd
    <3>1. CASE queue' = queue
      BY <3>1, Zenon DEF Numbering
    <3>2. CASE queue' = <<>>
      <4>1. Len(queue') = 0
        BY <3>2, EmptyQueue
      <4> QED
        BY <4>1
    <3> QED
      BY <1>4, <3>1, <3>2 DEF Destroy
  <2> QED
    BY <1>4, <2>1 DEF Destroy, Numbering, poolVars, streamVars
<1>5. CASE Joined
  BY <1>5 DEF Joined, Numbering, poolVars, streamVars
<1>6. CASE PoolCallsHandler
  <2>1. /\ queue # <<>>
        /\ queue' = Tail(queue)
        /\ called' = called \cup {Head(queue)}
        /\ UNCHANGED <<rcvd, good, io>>
    BY <1>6 DEF PoolCallsHandler, streamVars
  <2>2. /\ Head(queue) = queue[1]
        /\ 1 \in 1..Len(queue)
        /\ Len(Tail(queue)) = Len(queue) - 1
        /\ \A i \in 1..Len(Tail(queue)) :
             i + 1 \in 1..Len(queue) /\ Tail(queue)[i] = queue[i + 1]
    BY <1>0, <2>1
  <2>3. Head(queue) \in 1..rcvd
    BY <2>2 DEF Numbering
  <2>4. \A i \in 1..Len(Tail(queue)) : Tail(queue)[i] \in 1..rcvd
    BY <2>2 DEF Numbering
  <2> QED
    BY <2>1, <2>3, <2>4 DEF Numbering
<1>7. CASE MovesNothing
  BY <1>7 DEF MovesNothing, Numbering
<1> QED
  BY <1>1, <1>2, <1>3, <1>4, <1>5, <1>6, <1>7, OthersMoveNothing DEF Moves

\* No message is lost: each move takes it from one place to the next.
LEMMA NothingLostStep ==
  TypeOK /\ Numbering /\ NothingLost /\ [Next]_vars => NothingLost'
<1> SUFFICES ASSUME TypeOK, Numbering, NothingLost, [Next]_vars
             PROVE  NothingLost'
  OBVIOUS
<1>0. rcvd \in Nat /\ queue \in Seq(1..MaxMsgs)
  BY BoundsAssumption DEF TypeOK
<1>1. CASE OnReadMessage
  <2>1. /\ io = "idle"
        /\ rcvd' = rcvd + 1
        /\ rcvd' \in 1..MaxMsgs
        /\ UNCHANGED <<called, alive>>
    BY <1>0, <1>1, BoundsAssumption DEF OnReadMessage, ReadCompletes, TypeOK
  <2>2. SUFFICES ASSUME alive
                 PROVE  called' \cup Range(queue') \cup Held' = 1..rcvd'
    BY <2>1 DEF NothingLost
  <2>3. called \cup Range(queue) = 1..rcvd
    BY <2>1, <2>2 DEF NothingLost, Held
  <2>4. Range(queue') \cup Held' = Range(queue) \cup {rcvd'}
    <3>1. CASE Len(queue) < QueueCap
      <4>1. queue' = Append(queue, rcvd') /\ io' = "idle"
        BY <1>1, <2>1, <3>1 DEF OnReadMessage, Do
      <4>2. Range(Append(queue, rcvd')) = Range(queue) \cup {rcvd'}
        BY <1>0, <2>1, RangeOfPush
      <4> QED
        BY <4>1, <4>2 DEF Held
    <3>2. CASE ~(Len(queue) < QueueCap)
      <4>1. queue' = queue /\ io' = "pushing"
        BY <1>1, <3>2 DEF OnReadMessage, Do
      <4> QED
        BY <4>1 DEF Held
    <3> QED
      BY <3>1, <3>2
  <2>5. 1..rcvd' = (1..rcvd) \cup {rcvd'}
    BY <1>0, <2>1
  <2> QED
    BY <2>1, <2>3, <2>4, <2>5
<1>2. CASE OnReadBadJson
  <2>1. /\ io = "idle" /\ io' = "json_fail"
        /\ rcvd' = rcvd + 1
        /\ called' = called \cup {rcvd'}
        /\ UNCHANGED <<queue, alive>>
    BY <1>2 DEF OnReadBadJson, ReadCompletes
  <2>2. 1..rcvd' = (1..rcvd) \cup {rcvd'}
    BY <1>0, <2>1
  <2> QED
    BY <2>1, <2>2 DEF NothingLost, Held
<1>3. CASE DoUnblocks
  <2>1. /\ io = "pushing" /\ io' = "idle"
        /\ queue' = Append(queue, rcvd)
        /\ rcvd \in 1..MaxMsgs
        /\ UNCHANGED <<rcvd, called, alive>>
    BY <1>3 DEF DoUnblocks, Numbering
  <2>2. Range(Append(queue, rcvd)) = Range(queue) \cup {rcvd}
    BY <1>0, <2>1, RangeOfPush
  <2> QED
    BY <2>1, <2>2 DEF NothingLost, Held
<1>4. CASE Destroy
  BY <1>4 DEF Destroy, NothingLost
<1>5. CASE Joined
  BY <1>5 DEF Joined, NothingLost
<1>6. CASE PoolCallsHandler
  <2>1. /\ queue # <<>>
        /\ queue' = Tail(queue)
        /\ called' = called \cup {Head(queue)}
        /\ UNCHANGED <<rcvd, io, alive>>
    BY <1>6 DEF PoolCallsHandler, streamVars
  <2>2. Range(queue) = {Head(queue)} \cup Range(Tail(queue))
    BY <1>0, <2>1, RangeOfTail
  <2> QED
    BY <2>1, <2>2 DEF NothingLost, Held
<1>7. CASE MovesNothing
  BY <1>7 DEF MovesNothing, NothingLost, Held
<1> QED
  BY <1>1, <1>2, <1>3, <1>4, <1>5, <1>6, <1>7, OthersMoveNothing DEF Moves

\* The queue stays in stream order: a push is newer than all of it, a pop
\* takes the oldest.
LEMMA QueueInOrderStep ==
  TypeOK /\ Numbering /\ QueueInOrder /\ [Next]_vars => QueueInOrder'
<1> SUFFICES ASSUME TypeOK, Numbering, QueueInOrder, [Next]_vars
             PROVE  QueueInOrder'
  OBVIOUS
<1>0. /\ rcvd \in Nat /\ queue \in Seq(1..MaxMsgs) /\ Len(queue) \in Nat
      /\ \A k \in called \cup good : k \in Nat /\ k <= rcvd
      /\ \A i \in 1..Len(queue) : queue[i] \in Nat /\ queue[i] <= rcvd
  BY BoundsAssumption DEF TypeOK, Numbering
<1>1. ASSUME NEW m \in 1..MaxMsgs,
             queue' = Append(queue, m), Held' = {},
             \A i \in 1..Len(queue) : queue[i] < m,
             \A k \in called' \cap good' : k < m,
             called' \cap good' = called \cap good
      PROVE  QueueInOrder'
  <2>1. /\ Len(queue') = Len(queue) + 1
        /\ queue'[Len(queue) + 1] = m
        /\ \A i \in 1..Len(queue) : queue'[i] = queue[i]
    BY <1>0, <1>1
  <2>2. \A i, j \in 1..Len(queue') : i < j => queue'[i] < queue'[j]
    <3> SUFFICES ASSUME NEW i \in 1..Len(queue'), NEW j \in 1..Len(queue'), i < j
                 PROVE  queue'[i] < queue'[j]
      OBVIOUS
    <3>1. i \in 1..Len(queue)
      BY <1>0, <2>1
    <3>2. CASE j = Len(queue) + 1
      BY <1>1, <2>1, <3>1, <3>2
    <3>3. CASE j # Len(queue) + 1
      <4>1. j \in 1..Len(queue)
        <5>1. j \in 1..(Len(queue) + 1)
          BY <2>1, Zenon
        <5> QED
          BY <1>0, <3>3, <5>1
      <4> QED
        BY <2>1, <3>1, <4>1 DEF QueueInOrder
    <3> QED
      BY <3>2, <3>3
  <2>3. Range(queue') = Range(queue) \cup {m}
    <3>1. Range(Append(queue, m)) = Range(queue) \cup {m}
      BY <1>0, RangeOfPush
    <3> QED
      BY <1>1, <3>1, Zenon
  <2>4. \A k \in called' \cap good' : \A n \in Range(queue') \cup Held' : k < n
    BY <1>1, <2>3 DEF QueueInOrder
  <2> QED
    BY <1>1, <2>2, <2>4 DEF QueueInOrder
<1>2. CASE OnReadMessage
  <2>1. /\ io = "idle"
        /\ rcvd' = rcvd + 1 /\ rcvd' \in 1..MaxMsgs
        /\ good' = good \cup {rcvd'} /\ called' = called
    BY <1>0, <1>2, BoundsAssumption DEF OnReadMessage, ReadCompletes, TypeOK
  <2>2. called' \cap good' = called \cap good
    BY <1>0, <2>1
  <2>3. /\ \A k \in called' \cap good' : k < rcvd'
        /\ \A i \in 1..Len(queue) : queue[i] < rcvd'
    BY <1>0, <2>1
  <2>4. CASE Len(queue) < QueueCap
    <3>1. queue' = Append(queue, rcvd') /\ Held' = {}
      BY <1>2, <2>1, <2>4 DEF OnReadMessage, Do, Held
    <3> QED
      BY <1>1, <2>1, <2>2, <2>3, <3>1
  <2>5. CASE ~(Len(queue) < QueueCap)
    <3>1. queue' = queue /\ Held' = {rcvd'}
      BY <1>2, <2>5 DEF OnReadMessage, Do, Held
    <3> QED
      BY <2>2, <2>3, <3>1 DEF QueueInOrder
  <2> QED
    BY <2>4, <2>5
<1>3. CASE OnReadBadJson
  <2>1. called' \cap good' = called \cap good
    BY <1>0, <1>3 DEF OnReadBadJson
  <2>2. queue' = queue /\ Held' = {}
    BY <1>3 DEF OnReadBadJson, Held
  <2> QED
    BY <2>1, <2>2 DEF QueueInOrder
<1>4. CASE DoUnblocks
  <2>1. /\ queue' = Append(queue, rcvd) /\ rcvd \in 1..MaxMsgs
        /\ Held = {rcvd} /\ Held' = {}
        /\ called' = called /\ good' = good
    BY <1>4 DEF DoUnblocks, Held, Numbering
  <2>2. /\ \A i \in 1..Len(queue) : queue[i] < rcvd
        /\ \A k \in called' \cap good' : k < rcvd
    BY <2>1 DEF QueueInOrder
  <2> QED
    BY <1>1, <2>1, <2>2
<1>5. CASE Destroy
  <2>1. Held' = {} /\ UNCHANGED <<called, good>>
    BY <1>5 DEF Destroy, Held, poolVars, streamVars
  <2>2. CASE queue' = queue
    BY <2>1, <2>2 DEF QueueInOrder
  <2>3. CASE queue' = <<>>
    <3>1. Len(queue') = 0 /\ Range(queue') = {}
      BY <2>3, EmptyQueue DEF Range
    <3> QED
      BY <2>1, <3>1 DEF QueueInOrder
  <2> QED
    BY <1>5, <2>2, <2>3 DEF Destroy
<1>6. CASE Joined
  <2>1. Held' = {} /\ UNCHANGED <<queue, called, good>>
    BY <1>6 DEF Joined, Held, poolVars, streamVars
  <2> QED
    BY <2>1 DEF QueueInOrder
<1>7. CASE PoolCallsHandler
  <2>1. /\ queue # <<>>
        /\ queue' = Tail(queue)
        /\ called' = called \cup {Head(queue)}
        /\ UNCHANGED <<good>> /\ Held' = Held
    BY <1>7 DEF PoolCallsHandler, streamVars, Held
  <2>2. /\ Head(queue) = queue[1]
        /\ 1 \in 1..Len(queue)
        /\ Len(queue') = Len(queue) - 1
        /\ \A i \in 1..Len(queue') :
             i + 1 \in 1..Len(queue) /\ queue'[i] = queue[i + 1]
    BY <1>0, <2>1
  <2>3. \A i, j \in 1..Len(queue') : i < j => queue'[i] < queue'[j]
    <3> SUFFICES ASSUME NEW i \in 1..Len(queue'), NEW j \in 1..Len(queue'), i < j
                 PROVE  queue'[i] < queue'[j]
      OBVIOUS
    <3>1. i + 1 \in 1..Len(queue) /\ j + 1 \in 1..Len(queue) /\ i + 1 < j + 1
      BY <2>2
    <3>2. queue[i + 1] < queue[j + 1]
      BY <3>1 DEF QueueInOrder
    <3> QED
      BY <2>2, <3>2
  <2>4. \A i \in 1..Len(queue') : \A m \in Held' : queue'[i] < m
    BY <2>1, <2>2 DEF QueueInOrder
  <2>5. Range(queue) = {Head(queue)} \cup Range(queue')
    BY <1>0, <2>1, RangeOfTail
  <2>6. \A m \in Range(queue') \cup Held' : Head(queue) < m
    <3>1. \A m \in Held' : Head(queue) < m
      BY <2>1, <2>2 DEF QueueInOrder
    <3>2. ASSUME NEW m \in Range(queue') PROVE Head(queue) < m
      <4>1. queue' \in Seq(1..MaxMsgs)
        BY <1>0, <2>1
      <4>2. DOMAIN queue' = 1..Len(queue')
        BY <4>1
      <4>3. PICK i \in 1..Len(queue') : m = queue'[i]
        BY <3>2, <4>2 DEF Range
      <4>4. 1 < i + 1 /\ i + 1 \in 1..Len(queue) /\ m = queue[i + 1]
        BY <2>2, <4>3
      <4> QED
        BY <2>2, <4>4 DEF QueueInOrder
    <3> QED
      BY <3>1, <3>2
  <2>7. \A k \in called' \cap good' : \A m \in Range(queue') \cup Held' : k < m
    BY <2>1, <2>5, <2>6 DEF QueueInOrder
  <2> QED
    BY <2>3, <2>4, <2>7 DEF QueueInOrder
<1>8. CASE MovesNothing
  <2>1. Held' = Held /\ UNCHANGED <<queue, called, good>>
    BY <1>8 DEF MovesNothing, Held
  <2> QED
    BY <2>1 DEF QueueInOrder
<1> QED
  BY <1>2, <1>3, <1>4, <1>5, <1>6, <1>7, <1>8, OthersMoveNothing DEF Moves

-----------------------------------------------------------------------------
(* The chain of operations, the stops and the lifetime.                     *)

\* No operation is pending inside Do() or inside the handler.
LEMMA ChainStep == ChainState /\ [Next]_vars => ChainState'
<1> SUFFICES ASSUME ChainState, [Next]_vars PROVE ChainState'
  OBVIOUS
<1> USE DEF ChainState, ConnectOps, poolVars, closeVars, streamVars
<1>1. CASE on_resolve
  BY <1>1 DEF on_resolve, Completes, Fails
<1>2. CASE on_connect
  BY <1>2 DEF on_connect, Completes, Fails
<1>3. CASE on_ssl_handshake
  BY <1>3 DEF on_ssl_handshake, Completes, Fails
<1>4. CASE on_handshake
  BY <1>4 DEF on_handshake, Fails
<1>5. CASE OnReadMessage
  BY <1>5 DEF OnReadMessage, ReadCompletes, Do
<1>6. CASE OnReadBadJson
  BY <1>6 DEF OnReadBadJson, ReadCompletes
<1>7. CASE OnReadError
  BY <1>7 DEF OnReadError, ReadCompletes, Fails
<1>8. CASE OnReadAborted
  BY <1>8 DEF OnReadAborted, ReadCompletes
<1>9. CASE DoUnblocks
  BY <1>9 DEF DoUnblocks
<1>10. CASE IoHandlerReturns
  BY <1>10 DEF IoHandlerReturns
<1>11. CASE CloseHandshakeEnds
  BY <1>11 DEF CloseHandshakeEnds
<1>12. CASE CloseCallback
  BY <1>12 DEF CloseCallback
<1>13. CASE Destroy
  BY <1>13 DEF Destroy, Referenced
<1>14. CASE Joined
  BY <1>14 DEF Joined
<1>15. CASE PoolCallsHandler
  BY <1>15 DEF PoolCallsHandler
<1>16. CASE PoolHandlerReturns
  BY <1>16 DEF PoolHandlerReturns
<1>17. CASE stopWebSocket
  BY <1>17 DEF stopWebSocket, async_close
<1>18. CASE UNCHANGED vars
  BY <1>18 DEF vars
<1> QED
  BY <1>1, <1>2, <1>3, <1>4, <1>5, <1>6, <1>7, <1>8, <1>9,
     <1>10, <1>11, <1>12, <1>13, <1>14, <1>15, <1>16, <1>17, <1>18
     DEF Next, IoThread, PoolThread, OnRead, Quiescent

\* A stream found open by a stop never becomes open again.
LEMMA CloseStep == TypeOK /\ ChainState /\ CloseState /\ [Next]_vars => CloseState'
<1> SUFFICES ASSUME TypeOK, ChainState, CloseState, [Next]_vars PROVE CloseState'
  OBVIOUS
<1> USE DEF TypeOK, ChainState, CloseState, ConnectOps, poolVars, closeVars, streamVars
<1>1. CASE on_resolve
  BY <1>1 DEF on_resolve, Completes, Fails
<1>2. CASE on_connect
  BY <1>2 DEF on_connect, Completes, Fails
<1>3. CASE on_ssl_handshake
  BY <1>3 DEF on_ssl_handshake, Completes, Fails
<1>4. CASE on_handshake
  BY <1>4 DEF on_handshake, Fails
<1>5. CASE OnReadMessage
  BY <1>5 DEF OnReadMessage, ReadCompletes, Do
<1>6. CASE OnReadBadJson
  BY <1>6 DEF OnReadBadJson, ReadCompletes
<1>7. CASE OnReadError
  BY <1>7 DEF OnReadError, ReadCompletes, Fails
<1>8. CASE OnReadAborted
  BY <1>8 DEF OnReadAborted, ReadCompletes
<1>9. CASE DoUnblocks
  BY <1>9 DEF DoUnblocks
<1>10. CASE IoHandlerReturns
  BY <1>10 DEF IoHandlerReturns
<1>11. CASE CloseHandshakeEnds
  BY <1>11 DEF CloseHandshakeEnds
<1>12. CASE CloseCallback
  BY <1>12 DEF CloseCallback
<1>13. CASE Destroy
  BY <1>13 DEF Destroy, Referenced
<1>14. CASE Joined
  BY <1>14 DEF Joined
<1>15. CASE PoolCallsHandler
  BY <1>15 DEF PoolCallsHandler
<1>16. CASE PoolHandlerReturns
  BY <1>16 DEF PoolHandlerReturns
<1>17. CASE stopWebSocket
  BY <1>17 DEF stopWebSocket, async_close
<1>18. CASE UNCHANGED vars
  BY <1>18 DEF vars
<1> QED
  BY <1>1, <1>2, <1>3, <1>4, <1>5, <1>6, <1>7, <1>8, <1>9,
     <1>10, <1>11, <1>12, <1>13, <1>14, <1>15, <1>16, <1>17, <1>18
     DEF Next, IoThread, PoolThread, OnRead, Quiescent

\* An answer is owed from the stop that asked for it until it is given.
LEMMA DisconnectStep == TypeOK /\ DisconnectPerStop /\ [Next]_vars => DisconnectPerStop'
<1> SUFFICES ASSUME TypeOK, DisconnectPerStop, [Next]_vars PROVE DisconnectPerStop'
  OBVIOUS
<1> USE DEF TypeOK, DisconnectPerStop, poolVars, closeVars, streamVars
<1>1. CASE on_resolve
  BY <1>1 DEF on_resolve, Completes, Fails
<1>2. CASE on_connect
  BY <1>2 DEF on_connect, Completes, Fails
<1>3. CASE on_ssl_handshake
  BY <1>3 DEF on_ssl_handshake, Completes, Fails
<1>4. CASE on_handshake
  BY <1>4 DEF on_handshake, Fails
<1>5. CASE OnReadMessage
  BY <1>5 DEF OnReadMessage, ReadCompletes, Do
<1>6. CASE OnReadBadJson
  BY <1>6 DEF OnReadBadJson, ReadCompletes
<1>7. CASE OnReadError
  BY <1>7 DEF OnReadError, ReadCompletes, Fails
<1>8. CASE OnReadAborted
  BY <1>8 DEF OnReadAborted, ReadCompletes
<1>9. CASE DoUnblocks
  BY <1>9 DEF DoUnblocks
<1>10. CASE IoHandlerReturns
  BY <1>10 DEF IoHandlerReturns
<1>11. CASE CloseHandshakeEnds
  BY <1>11 DEF CloseHandshakeEnds
<1>12. CASE CloseCallback
  BY <1>12 DEF CloseCallback
<1>13. CASE Destroy
  BY <1>13 DEF Destroy, Referenced
<1>14. CASE Joined
  BY <1>14 DEF Joined
<1>15. CASE PoolCallsHandler
  BY <1>15 DEF PoolCallsHandler
<1>16. CASE PoolHandlerReturns
  BY <1>16 DEF PoolHandlerReturns
<1>17. CASE stopWebSocket
  BY <1>17 DEF stopWebSocket, async_close
<1>18. CASE UNCHANGED vars
  BY <1>18 DEF vars
<1> QED
  BY <1>1, <1>2, <1>3, <1>4, <1>5, <1>6, <1>7, <1>8, <1>9,
     <1>10, <1>11, <1>12, <1>13, <1>14, <1>15, <1>16, <1>17, <1>18
     DEF Next, IoThread, PoolThread, OnRead, Quiescent

\* Nothing refers to the object once its destructor runs.
LEMMA LifetimeStep == TypeOK /\ Lifetime /\ [Next]_vars => Lifetime'
<1> SUFFICES ASSUME TypeOK, Lifetime, [Next]_vars PROVE Lifetime'
  OBVIOUS
<1> USE DEF TypeOK, Lifetime, WorkKeepsAlive, poolVars, closeVars, streamVars
<1>1. CASE on_resolve
  BY <1>1 DEF on_resolve, Completes, Fails
<1>2. CASE on_connect
  BY <1>2 DEF on_connect, Completes, Fails
<1>3. CASE on_ssl_handshake
  BY <1>3 DEF on_ssl_handshake, Completes, Fails
<1>4. CASE on_handshake
  BY <1>4 DEF on_handshake, Fails
<1>5. CASE OnReadMessage
  BY <1>5 DEF OnReadMessage, ReadCompletes, Do
<1>6. CASE OnReadBadJson
  BY <1>6 DEF OnReadBadJson, ReadCompletes
<1>7. CASE OnReadError
  BY <1>7 DEF OnReadError, ReadCompletes, Fails
<1>8. CASE OnReadAborted
  BY <1>8 DEF OnReadAborted, ReadCompletes
<1>9. CASE DoUnblocks
  BY <1>9 DEF DoUnblocks
<1>10. CASE IoHandlerReturns
  BY <1>10 DEF IoHandlerReturns
<1>11. CASE CloseHandshakeEnds
  BY <1>11 DEF CloseHandshakeEnds
<1>12. CASE CloseCallback
  BY <1>12 DEF CloseCallback
<1>13. CASE Destroy
  BY <1>13 DEF Destroy, Referenced
<1>14. CASE Joined
  BY <1>14 DEF Joined
<1>15. CASE PoolCallsHandler
  BY <1>15 DEF PoolCallsHandler
<1>16. CASE PoolHandlerReturns
  BY <1>16 DEF PoolHandlerReturns
<1>17. CASE stopWebSocket
  BY <1>17 DEF stopWebSocket, async_close
<1>18. CASE UNCHANGED vars
  BY <1>18 DEF vars
<1> QED
  BY <1>1, <1>2, <1>3, <1>4, <1>5, <1>6, <1>7, <1>8, <1>9,
     <1>10, <1>11, <1>12, <1>13, <1>14, <1>15, <1>16, <1>17, <1>18
     DEF Next, IoThread, PoolThread, OnRead, Quiescent

-----------------------------------------------------------------------------
(* The theorems.                                                            *)

\* Every step preserves them together.
LEMMA IInvStep == IInv /\ [Next]_vars => IInv'
BY TypeStep, NumberingStep, NothingLostStep, QueueInOrderStep, ChainStep,
   CloseStep, DisconnectStep, LifetimeStep DEF IInv

\* Every state the session can reach satisfies the inductive invariant.
THEOREM Inductive == Spec => []IInv
BY InitIInv, IInvStep, PTL DEF Spec

\* The pool never queues more than its capacity, whatever the messages, and
\* every variable keeps its type.
THEOREM TypeCorrect == Spec => []TypeOK
BY Inductive, PTL DEF IInv

\* No message on_read took off the stream is lost while the session lives,
\* for every capacity of the pool's queue and every number of messages.
THEOREM MessagesKept == Spec => []NothingLost
<1>1. IInv => NothingLost
  BY DEF IInv
<1> QED
  BY <1>1, Inductive, PTL

\* The pool's queue and the message Do() holds are always in stream order.
THEOREM QueueOrdered == Spec => []QueueInOrder
<1>1. IInv => QueueInOrder
  BY DEF IInv
<1> QED
  BY <1>1, Inductive, PTL

\* Exactly one Disconnect is owed or was delivered per accepted stop.
THEOREM OneDisconnectPerStop == Spec => []DisconnectPerStop
<1>1. IInv => DisconnectPerStop
  BY DEF IInv
<1> QED
  BY <1>1, Inductive, PTL

\* A stream that was open when it was stopped is closed by the time every
\* stop has been answered.
THEOREM OpenStopsClose == Spec => []OpenStopCloses
<1>1. IInv => OpenStopCloses
  <2> SUFFICES ASSUME IInv, openStop, disconnects = stops PROVE ws = "done"
    BY DEF OpenStopCloses
  <2>1. closeWaiting = 0
    BY DEF IInv, TypeOK, DisconnectPerStop
  <2> QED
    BY <2>1 DEF IInv, CloseState
<1> QED
  BY <1>1, Inductive, PTL

\* The session is destroyed only when nothing of it is left to run.
THEOREM WorkOutlived == Spec => []WorkKeepsAlive
<1>1. IInv => WorkKeepsAlive
  BY DEF IInv, Lifetime
<1> QED
  BY <1>1, Inductive, PTL

\* The only steps that call the handler with a valid message are the pool's,
\* and the message it takes is newer than all it has handed over.
LEMMA StepInOrder ==
  IInv /\ [Next]_vars =>
    [\A m \in (called' \ called) \cap good :
       \A k \in called \cap good : k < m]_vars
<1> SUFFICES ASSUME IInv, [Next]_vars,
                    NEW m \in (called' \ called) \cap good,
                    NEW k \in called \cap good
             PROVE  k < m
  OBVIOUS
<1>1. CASE PoolCallsHandler
  <2>1. m = Head(queue) /\ queue # <<>>
    BY <1>1 DEF PoolCallsHandler
  <2>2. queue \in Seq(1..MaxMsgs)
    BY DEF IInv, TypeOK
  <2>3. m \in Range(queue)
    BY <2>1, <2>2, RangeOfTail
  <2> QED
    BY <2>3 DEF IInv, QueueInOrder
<1>2. CASE OnReadBadJson
  <2>1. m = rcvd + 1
    BY <1>2 DEF OnReadBadJson
  <2> QED
    BY <2>1 DEF IInv, TypeOK, Numbering
<1>3. CASE OnReadMessage \/ DoUnblocks \/ Destroy \/ Joined \/ MovesNothing
  <2>1. called' = called
    BY <1>3 DEF OnReadMessage, DoUnblocks, Destroy, Joined, MovesNothing, poolVars
  <2> QED
    BY <2>1
<1> QED
  BY <1>1, <1>2, <1>3, OthersMoveNothing DEF Moves

\* Valid messages reach the handler in the order they were read.
THEOREM HandlerInOrder == Spec => DataInOrder
BY Inductive, StepInOrder, PTL DEF Spec, DataInOrder

-----------------------------------------------------------------------------
(* WsSession implements WsStream: the initial states map to initial states   *)
(* and every step to a step of WsStream or a stutter.  It rests on the       *)
(* inductive invariant, which knows that a blocked Do() holds the newest     *)
(* message, that the queue never exceeds its capacity and that a session     *)
(* being destroyed reads nothing and is owed nothing.  (That answers and     *)
(* results are given at all is left to the model checker.)                   *)


\* Nothing behind the queue is the queue; one message behind it is a push.
LEMMA Behind ==
  ASSUME NEW S, NEW q \in Seq(S), NEW m \in S
  PROVE  q \o <<>> = q /\ q \o <<m>> = Append(q, m)
OBVIOUS

\* The backlog of WsStream is the queue with the held message pushed.
LEMMA BacklogIs ==
  ASSUME NEW q \in Seq(1..MaxMsgs), NEW m, NEW held \in BOOLEAN,
         held => m \in 1..MaxMsgs
  PROVE  q \o (IF held THEN <<m>> ELSE <<>>) = IF held THEN Append(q, m) ELSE q
<1> DEFINE S == 1..MaxMsgs
<1>1. q \in Seq(S) /\ (held => m \in S)
  OBVIOUS
<1> HIDE DEF S
<1>2. CASE held
  <2>1. q \o <<m>> = Append(q, m)
    BY <1>1, <1>2, Behind
  <2> QED
    BY <1>2, <2>1, Zenon
<1>3. CASE ~held
  <2>1. q \o <<>> = q
    BY <1>1
  <2> QED
    BY <1>3, <2>1, Zenon
<1> QED
  BY <1>2, <1>3

\* A session just created is a stream with nothing taken, given or owed.
LEMMA StreamInit == Init => Stream!StreamInit
<1> SUFFICES ASSUME Init PROVE Stream!StreamInit
  OBVIOUS
<1>1. Backlog = <<>>
  BY DEF Init, Backlog
<1> QED
  BY <1>1 DEF Init, Stream!StreamInit

\* What the proof of a step uses of the invariant, before and after it.
LEMMA StreamState ==
  ASSUME IInv
  PROVE  /\ Backlog = IF io = "pushing" THEN Append(queue, rcvd) ELSE queue
         /\ queue \in Seq(1..MaxMsgs) /\ Len(queue) <= QueueCap
         /\ op # "none" \/ registered \/ closeReady > 0 => io # "joining" /\ alive
         /\ io = "pushing" => alive
         /\ closeWaiting \in Nat /\ closeReady \in Nat /\ disconnects \in Nat
         /\ rcvd \in Nat
<1>1. /\ queue \in Seq(1..MaxMsgs)
      /\ io = "pushing" => rcvd \in 1..MaxMsgs
  BY DEF IInv, TypeOK, Numbering
<1>2. Backlog = IF io = "pushing" THEN Append(queue, rcvd) ELSE queue
  <2>1. (io = "pushing") \in BOOLEAN
    OBVIOUS
  <2> QED
    BY <1>1, <2>1, BacklogIs, Zenon DEF Backlog
<1>3. Len(queue) <= QueueCap /\ rcvd \in Nat
  BY BoundsAssumption DEF IInv, TypeOK
<1>4. closeWaiting \in Nat /\ closeReady \in Nat /\ disconnects \in Nat
  BY DEF IInv, TypeOK
<1>5. /\ op # "none" \/ registered \/ closeReady > 0 => io # "joining" /\ alive
      /\ io = "pushing" => alive
  BY DEF IInv, Lifetime, WorkKeepsAlive
<1> QED
  BY <1>1, <1>2, <1>3, <1>4, <1>5, Zenon

\* The same of the state after the step.
LEMMA BacklogNext ==
  ASSUME IInv'
  PROVE  Backlog' = IF io' = "pushing" THEN Append(queue', rcvd') ELSE queue'
<1>1. /\ queue' \in Seq(1..MaxMsgs)
      /\ io' = "pushing" => rcvd' \in 1..MaxMsgs
  BY DEF IInv, TypeOK, Numbering
<1>2. (io' = "pushing") \in BOOLEAN
  OBVIOUS
<1> QED
  BY <1>1, <1>2, BacklogIs, Zenon DEF Backlog

\* Only three actions touch what is owed to those who stopped the session.
LEMMA OthersStopNothing ==
  [Next]_vars =>
    stopWebSocket \/ CloseHandshakeEnds \/ CloseCallback \/ UNCHANGED closeVars
<1> SUFFICES ASSUME [Next]_vars
             PROVE  \/ stopWebSocket \/ CloseHandshakeEnds \/ CloseCallback
                    \/ UNCHANGED closeVars
  OBVIOUS
<1>1. CASE on_resolve \/ on_connect \/ on_ssl_handshake \/ on_handshake
  BY <1>1 DEF on_resolve, on_connect, on_ssl_handshake, on_handshake, Completes
<1>2. CASE OnRead
  BY <1>2 DEF OnRead, OnReadMessage, OnReadBadJson, OnReadError, OnReadAborted
<1>3. CASE DoUnblocks \/ IoHandlerReturns \/ Destroy \/ Joined
  BY <1>3 DEF DoUnblocks, IoHandlerReturns, Destroy, Joined
<1>4. CASE PoolThread
  BY <1>4 DEF PoolThread, PoolCallsHandler, PoolHandlerReturns
<1>5. CASE UNCHANGED vars
  BY <1>5 DEF vars, closeVars
<1> QED
  BY <1>1, <1>2, <1>3, <1>4, <1>5 DEF Next, IoThread, Quiescent

\* Every step of the session is one of the stream's, or changes nothing the
\* user can see.
LEMMA StreamStep ==
  ASSUME IInv, IInv', [Next]_vars
  PROVE  [Stream!StreamNext]_(Stream!streamPromise)
<1> DEFINE ended == io = "joining" \/ ~alive
<1> DEFINE owed == closeWaiting + closeReady
<1> USE QueueCapAssumption
<1>0. /\ Backlog = IF io = "pushing" THEN Append(queue, rcvd) ELSE queue
      /\ Backlog' = IF io' = "pushing" THEN Append(queue', rcvd') ELSE queue'
  BY StreamState, BacklogNext
<1>1. CASE OnReadMessage
  <2>1. Backlog = queue /\ Len(queue) < QueueCap + 1 /\ ~ended
    BY <1>0, <1>1, StreamState DEF OnReadMessage, ReadCompletes
  <2>2. Backlog' = Append(queue, rcvd')
    BY <1>0, <1>1 DEF OnReadMessage, ReadCompletes, Do
  <2>3. rcvd' = rcvd + 1 /\ ~ended' /\ UNCHANGED <<called, owed, disconnects>>
    BY <1>1, <2>1 DEF OnReadMessage, ReadCompletes, Do, closeVars
  <2> QED
    BY <2>1, <2>2, <2>3 DEF Stream!StreamNext, Stream!Take
<1>2. CASE OnReadBadJson
  <2>1. Backlog = queue /\ Len(queue) < QueueCap + 1 /\ ~ended
    BY <1>0, <1>2, StreamState DEF OnReadBadJson, ReadCompletes
  <2>2. Backlog' = queue
    BY <1>0, <1>2 DEF OnReadBadJson
  <2>3. /\ rcvd' = rcvd + 1 /\ called' = called \cup {rcvd'}
        /\ ~ended' /\ UNCHANGED <<owed, disconnects>>
    BY <1>2, <2>1 DEF OnReadBadJson, closeVars
  <2> QED
    BY <2>1, <2>2, <2>3 DEF Stream!StreamNext, Stream!Take
<1>3. CASE PoolCallsHandler
  <2>1. queue # <<>> /\ queue' = Tail(queue) /\ UNCHANGED <<io, rcvd>>
    BY <1>3 DEF PoolCallsHandler, streamVars
  <2>2. Backlog # <<>> /\ Head(Backlog) = Head(queue) /\ Backlog' = Tail(Backlog)
    <3> DEFINE S == 1..MaxMsgs
    <3>1. queue \in Seq(S) /\ (io = "pushing" => rcvd \in S)
      BY DEF IInv, TypeOK, Numbering
    <3> HIDE DEF S
    <3>2. CASE io = "pushing"
      BY <1>0, <2>1, <3>1, <3>2
    <3>3. CASE io # "pushing"
      BY <1>0, <2>1, <3>1, <3>3
    <3> QED
      BY <3>2, <3>3
  <2>3. /\ called' = called \cup {Head(queue)}
        /\ UNCHANGED <<io, alive, owed, disconnects>>
    BY <1>3 DEF PoolCallsHandler, closeVars
  <2> QED
    BY <2>1, <2>2, <2>3 DEF Stream!StreamNext, Stream!Give
<1>4. CASE stopWebSocket
  <2>1. Backlog' = Backlog /\ ~ended
    BY <1>0, <1>4, StreamState DEF stopWebSocket, poolVars
  <2>2. owed' = owed + 1
    BY <1>4, StreamState DEF stopWebSocket, async_close
  <2>3. UNCHANGED <<rcvd, called, io, alive, disconnects>>
    BY <1>4 DEF stopWebSocket, poolVars
  <2> QED
    BY <2>1, <2>2, <2>3 DEF Stream!StreamNext, Stream!Stop
<1>5. CASE CloseCallback
  <2>1. Backlog' = Backlog /\ ~ended
    BY <1>0, <1>5, StreamState DEF CloseCallback, poolVars, streamVars
  <2>2. owed > 0 /\ owed' = owed - 1 /\ disconnects' = disconnects + 1
    BY <1>5, StreamState DEF CloseCallback
  <2>3. UNCHANGED <<rcvd, called, alive>> /\ ~ended'
    BY <1>5, <2>1 DEF CloseCallback, poolVars, streamVars
  <2> QED
    BY <2>1, <2>2, <2>3 DEF Stream!StreamNext, Stream!Answer
<1>6. CASE Destroy
  <2>1. ~ended /\ ended' /\ owed = 0
    BY <1>6, StreamState DEF Destroy, Referenced
  <2>2. Backlog = queue /\ Backlog' \in {queue, <<>>}
    BY <1>0, <1>6 DEF Destroy, Referenced
  <2>3. UNCHANGED <<rcvd, called, owed, disconnects>>
    BY <1>6 DEF Destroy, streamVars, closeVars
  <2> QED
    BY <2>1, <2>2, <2>3 DEF Stream!StreamNext, Stream!End
<1>7. CASE DoUnblocks
  BY <1>0, <1>7, StreamState DEF DoUnblocks, closeVars, Stream!streamPromise
<1>8. CASE CloseHandshakeEnds
  BY <1>0, <1>8, StreamState DEF CloseHandshakeEnds, poolVars, Stream!streamPromise
<1>9. CASE Joined
  BY <1>0, <1>9 DEF Joined, streamVars, poolVars, closeVars, Stream!streamPromise
<1>10. CASE MovesNothing /\ UNCHANGED closeVars
  BY <1>0, <1>10 DEF MovesNothing, closeVars, Stream!streamPromise
<1> QED
  BY <1>1, <1>2, <1>3, <1>4, <1>5, <1>6, <1>7, <1>8, <1>9, <1>10,
     OthersMoveNothing, OthersStopNothing DEF Moves

\* A WebSocket session, as its threads run it, is a stream as WsStream
\* describes it: one backlog in order, of at most one message more than the
\* pool's queue, and one Disconnect for each stop.
THEOREM ImplementsStream == Spec => Stream!StreamSafety
BY Inductive, StreamInit, StreamStep, PTL DEF Spec, Stream!StreamSafety
=============================================================================
