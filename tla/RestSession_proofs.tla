------------------------- MODULE RestSession_proofs -------------------------
(***************************************************************************)
(* Proofs about RestSession, for any requests and any choice of those that  *)
(* handlers send, any number of contexts, pool threads and concurrent       *)
(* senders.                                                                 *)
(*                                                                          *)
(* That no request is answered twice needs to know that a request is in one *)
(* place at a time, and that only misuse reaches a dead context needs to     *)
(* know what every index loaded and not yet used may be by then.  IInv       *)
(* gathers this.                                                            *)
(***************************************************************************)
EXTENDS RestSession, SequenceLemmas

-----------------------------------------------------------------------------
(* The inductive invariant.                                                 *)

\* What each phase of the object's life leaves behind.
Life ==
  /\ phase = "new" => size = 0 /\ sent = {}
  /\ phase \in {"new", "up"} => down = 0
  /\ phase \in {"pool", "gone"} => down = size /\ queue = <<>>
  /\ phase = "gone" => onPool = {}
  /\ phase = "crashed" => /\ sending = {} /\ onPool = {} /\ onIo = {} /\ queue = <<>>
                          /\ \A r \in Requests : op[r] = "none"

\* An index loaded from m_nextRestIoContext is one of the vector, if it has any.
Indices ==
  /\ size = 0 => next = 0
  /\ size # 0 => next < size
  /\ \A r \in sending : size # 0 => ctx[r] < size

\* A thread inside sendRestRequest is the application's, or a pool or io thread
\* inside the handler that called it.
Callers ==
  /\ sending \cap sent = {}
  /\ phase \notin {"new", "up"} => sending \subseteq FollowUps
  /\ \A r \in sending \cap FollowUps : Parent[r] \in onPool \cup onIo
  /\ \A r \in onPool \cup onIo : calls[r] = 1

\* Before it is sent a request is nowhere, then in at most one place.
Places ==
  /\ \A r \in Requests \ sent : op[r] = "none" /\ r \notin Range(queue) /\ calls[r] = 0
  /\ \A r \in Requests : /\ calls[r] <= 1
                         /\ op[r] # "none" => r \notin Range(queue) /\ calls[r] = 0
                         /\ r \in Range(queue) => calls[r] = 0
  /\ Distinct(queue)
  /\ \A r \in Requests : phase \in {"up", "contexts"} /\ r \in sent /\ Live(ctx[r])
                           => op[r] # "none" \/ r \in Range(queue) \/ calls[r] = 1

\* Operations and running handlers belong to contexts that are there.
Alive == \A r \in Requests : op[r] # "none" \/ r \in onIo => Live(ctx[r])

IInv ==
  /\ TypeOK
  /\ Life
  /\ Indices
  /\ Callers
  /\ Places
  /\ Alive
  /\ OnlyMisuseCrashes

\* A new object satisfies it.
LEMMA InitIInv == Init => IInv
<1> SUFFICES ASSUME Init PROVE IInv
  OBVIOUS
<1>1. Range(queue) = {} /\ queue \in Seq(Requests) /\ Distinct(queue)
  BY DEF Init, Range, Distinct
<1>2. TypeOK
  BY <1>1, RestAssumption DEF Init, TypeOK, Contexts
<1> QED
  BY <1>1, <1>2 DEF Init, IInv, Life, Indices, Callers, Places, Alive, OnlyMisuseCrashes

-----------------------------------------------------------------------------
(* Steps.                                                                   *)

\* What pushing a request onto the pool's queue does.
LEMMA Push ==
  ASSUME TypeOK, NEW r \in Requests
  PROVE  /\ Append(queue, r) \in Seq(Requests)
         /\ Range(Append(queue, r)) = Range(queue) \cup {r}
         /\ Distinct(queue) /\ r \notin Range(queue) => Distinct(Append(queue, r))
<1>1. queue \in Seq(Requests)
  BY DEF TypeOK
<1> QED
  BY <1>1, RangeOfAppend, DistinctAppend

\* What the pool takes off it.
LEMMA Pop ==
  ASSUME TypeOK, queue # <<>>
  PROVE  /\ Head(queue) \in Requests /\ Tail(queue) \in Seq(Requests)
         /\ Range(queue) = {Head(queue)} \cup Range(Tail(queue))
         /\ Distinct(queue) => Distinct(Tail(queue)) /\ Head(queue) \notin Range(Tail(queue))
<1>1. queue \in Seq(Requests)
  BY DEF TypeOK
<1>2. Head(queue) \in Requests /\ Tail(queue) \in Seq(Requests)
  BY <1>1
<1> QED
  BY <1>1, <1>2, RangeOfTail, DistinctTail

\* An empty queue has no elements.
LEMMA Empty ==
  /\ Range(<<>>) = {}
  /\ Distinct(<<>>)
  /\ \A S : <<>> \in Seq(S)
BY DEF Range, Distinct

\* The values of an index: one of MaxContexts.
LEMMA IndexType ==
  ASSUME TypeOK, NEW c \in Contexts
  PROVE  NextContext(c) \in Contexts
BY RestAssumption DEF TypeOK, Contexts, NextContext

\* A completion handler ends the operation in one of three ways.
LEMMA Completions ==
  ASSUME NEW r \in Requests, Complete(r)
  PROVE  /\ op[r] # "none" /\ IoThreadFree(ctx[r])
         /\ UNCHANGED <<onPool, callerVars, lifeVars>>
         /\ \/ Posts(r)
            \/ CallsHere(r)
            \/ \E to \in IoOps : Starts(r, to)
<1>1. CASE on_resolve(r)
  BY <1>1 DEF on_resolve, Completed, IoOps
<1>2. CASE on_connect(r)
  BY <1>2 DEF on_connect, Completed, IoOps
<1>3. CASE on_handshake(r)
  BY <1>3 DEF on_handshake, Completed, IoOps
<1>4. CASE on_write(r)
  BY <1>4 DEF on_write, Completed, IoOps
<1>5. CASE on_read(r)
  BY <1>5 DEF on_read, Completed, IoOps
<1> QED
  BY <1>1, <1>2, <1>3, <1>4, <1>5 DEF Complete

-----------------------------------------------------------------------------
(* Each action keeps the invariant.                                          *)

\* start() gives the object its contexts while nothing has been sent.
LEMMA StartStep == ASSUME IInv, NEW n \in Sizes, start(n) PROVE IInv'
<1> USE DEF IInv, start, callerVars, handlerVars
<1>1. n \in Nat /\ MaxContexts \in Nat \ {0}
  BY RestAssumption
<1>2. TypeOK'
  BY <1>1 DEF TypeOK, Life
<1>3. Life' /\ Indices' /\ Callers'
  BY <1>1 DEF TypeOK, Life, Indices, Callers
<1>4. \A r \in Requests : op[r] = "none" /\ r \notin onIo
  BY DEF Alive, Live, Life, TypeOK
<1>5. Places' /\ Alive' /\ OnlyMisuseCrashes'
  BY <1>4 DEF Places, Alive, Life, OnlyMisuseCrashes
<1> QED
  BY <1>2, <1>3, <1>5

\* The load of the index.
LEMMA LoadStep == ASSUME IInv, NEW r \in Requests, LoadContext(r) PROVE IInv'
<1> USE DEF IInv, LoadContext, handlerVars, lifeVars
<1>1. TypeOK'
  BY DEF TypeOK
<1>2. Life' /\ Indices'
  BY DEF Life, Indices, TypeOK, MaySend
<1>3. Callers'
  BY DEF Callers, MaySend
<1>4. \A q \in Requests : q # r => ctx'[q] = ctx[q]
  BY DEF TypeOK
<1>5. Places' /\ Alive'
  BY <1>4 DEF Places, Alive, Live, Callers
<1>6. OnlyMisuseCrashes'
  BY DEF OnlyMisuseCrashes
<1> QED
  BY <1>1, <1>2, <1>3, <1>5, <1>6

\* The store of the index, and the session's first operation or failure.
LEMMA StartSessionStep == ASSUME IInv, NEW r \in Requests, StartSession(r) PROVE IInv'
<1> USE DEF IInv, StartSession, lifeVars
<1>1. /\ r \notin sent /\ op[r] = "none" /\ r \notin Range(queue) /\ calls[r] = 0
      /\ r \notin onPool \cup onIo
  BY DEF Callers, Places
<1>2. /\ next' \in Contexts /\ size # 0 /\ next' < size
      /\ phase # "new" /\ phase \notin {"pool", "gone", "crashed"}
  <2>1. ctx[r] \in Contexts /\ Live(ctx[r])
    BY DEF TypeOK
  <2>2. next' \in Contexts
    BY <2>1, IndexType
  <2> QED
    BY <2>1, <2>2 DEF Live, Life, TypeOK, NextContext, Contexts
<1>3. /\ queue' \in Seq(Requests) /\ Distinct(queue')
      /\ \/ queue' = queue /\ op' = [op EXCEPT ![r] = "resolve"]
         \/ Range(queue') = Range(queue) \cup {r} /\ op' = op
  BY <1>1, Push DEF TypeOK, Places
<1>4. TypeOK'
  BY <1>2, <1>3 DEF TypeOK, IoOps
<1>5. Life' /\ Indices' /\ Callers'
  BY <1>1, <1>2 DEF Life, Indices, Callers, TypeOK
<1>6. Places' /\ Alive'
  BY <1>1, <1>3 DEF Places, Alive, Live, TypeOK
<1>7. OnlyMisuseCrashes'
  BY <1>2 DEF OnlyMisuseCrashes
<1> QED
  BY <1>4, <1>5, <1>6, <1>7

\* A context that is not there is used: only by the two kinds of misuse.
LEMMA DeadContextStep == ASSUME IInv, NEW r \in Requests, UseDeadContext(r) PROVE IInv'
<1> USE DEF IInv, UseDeadContext
<1>1. TypeOK'
  BY Empty DEF TypeOK, IoOps
<1>2. size = 0 \/ (down > 0 /\ r \in FollowUps /\ r \notin sent /\ calls[Parent[r]] > 0)
  <2>1. ctx[r] \in Contexts /\ size \in Nat /\ down \in Nat /\ next \in Nat
    BY RestAssumption DEF TypeOK, Contexts
  <2>2. size # 0 => ctx[r] < down
    BY <2>1 DEF Indices, Live, Contexts
  <2>3. size # 0 => phase \notin {"new", "up"} /\ down > 0
    BY <2>1, <2>2 DEF Life, Contexts
  <2> QED
    BY <2>3 DEF Callers
<1>3. Life' /\ Indices' /\ Callers' /\ Alive'
  BY DEF Life, Indices, Callers, Alive
<1>4. Places'
  BY Empty DEF Places
<1>5. OnlyMisuseCrashes'
  BY <1>2 DEF OnlyMisuseCrashes
<1> QED
  BY <1>1, <1>3, <1>4, <1>5

\* A completion handler moves the request on, to the pool, or to the handler.
LEMMA CompleteStep == ASSUME IInv, NEW r \in Requests, Complete(r) PROVE IInv'
<1> USE DEF IInv, callerVars, lifeVars
<1>1. /\ op[r] # "none" /\ IoThreadFree(ctx[r])
      /\ UNCHANGED <<onPool, next, sending, ctx, sent, size, phase, down>>
      /\ Posts(r) \/ CallsHere(r) \/ \E to \in IoOps : Starts(r, to)
  BY Completions
<1>2. /\ r \in sent /\ r \notin Range(queue) /\ calls[r] = 0
      /\ r \notin onPool \cup onIo /\ Live(ctx[r])
      /\ phase \notin {"new", "pool", "gone", "crashed"}
  <2>1. r \in sent /\ r \notin Range(queue) /\ calls[r] = 0 /\ Live(ctx[r])
    BY <1>1 DEF Places, Alive
  <2>2. phase \notin {"pool", "gone"}
    BY <2>1 DEF Life, Live, TypeOK, Contexts
  <2>3. phase # "crashed"
    BY <1>1 DEF Life
  <2> QED
    BY <2>1, <2>2, <2>3 DEF Callers, Life
<1>3. CASE Posts(r)
  <2>1. /\ queue' \in Seq(Requests) /\ Distinct(queue')
        /\ Range(queue') = Range(queue) \cup {r}
        /\ op' = [op EXCEPT ![r] = "none"] /\ UNCHANGED <<onIo, calls>>
    BY <1>2, <1>3, Push DEF Posts, TypeOK, Places
  <2> QED
    BY <1>1, <1>2, <2>1
       DEF TypeOK, Life, Indices, Callers, Places, Alive, Live, OnlyMisuseCrashes
<1>4. CASE CallsHere(r)
  <2>1. /\ op' = [op EXCEPT ![r] = "none"] /\ onIo' = onIo \cup {r}
        /\ calls' = [calls EXCEPT ![r] = 1] /\ queue' = queue
    BY <1>2, <1>4 DEF CallsHere, TypeOK
  <2>2. TypeOK' /\ Life' /\ Indices' /\ OnlyMisuseCrashes'
    BY <1>1, <1>2, <2>1 DEF TypeOK, Life, Indices, OnlyMisuseCrashes
  <2>3. Callers' /\ Places' /\ Alive'
    BY <1>1, <1>2, <2>1 DEF TypeOK, Callers, Places, Alive, Live
  <2> QED
    BY <2>2, <2>3
<1>5. CASE \E to \in IoOps : Starts(r, to)
  <2>1. PICK to \in IoOps : Starts(r, to)
    BY <1>5
  <2>2. to # "none" /\ op' = [op EXCEPT ![r] = to] /\ UNCHANGED <<queue, onIo, calls>>
    BY <2>1 DEF Starts, IoOps
  <2> QED
    BY <1>1, <1>2, <2>2
       DEF TypeOK, Life, Indices, Callers, Places, Alive, Live, OnlyMisuseCrashes
<1> QED
  BY <1>1, <1>3, <1>4, <1>5

\* A user's handler returns, on an io thread or on a thread of the pool.
LEMMA ReturnStep ==
  ASSUME IInv, NEW r \in Requests, IoHandlerReturns(r) \/ PoolHandlerReturns(r)
  PROVE  IInv'
<1> USE DEF IInv, callerVars, lifeVars
<1>1. /\ UNCHANGED <<op, queue, calls, next, sending, ctx, sent, size, phase, down>>
      /\ onIo' \subseteq onIo /\ onPool' \subseteq onPool
      /\ onPool \cup onIo \subseteq onPool' \cup onIo' \cup {r}
      /\ NotSending(r)
  BY DEF IoHandlerReturns, PoolHandlerReturns
<1>2. Callers'
  BY <1>1 DEF Callers, NotSending
<1> QED
  BY <1>1, <1>2 DEF TypeOK, Life, Indices, Places, Alive, Live, OnlyMisuseCrashes

\* A thread of the pool takes the oldest call.
LEMMA PoolCallsStep == ASSUME IInv, PoolCalls PROVE IInv'
<1> USE DEF IInv, PoolCalls, callerVars, lifeVars
<1> DEFINE r == Head(queue)
<1>1. /\ r \in Requests /\ queue' \in Seq(Requests)
      /\ Range(queue) = {r} \cup Range(queue')
      /\ Distinct(queue') /\ r \notin Range(queue')
  BY Pop DEF Places
<1>2. r \in sent /\ op[r] = "none" /\ calls[r] = 0
  BY <1>1 DEF Places
<1> HIDE DEF r
<1>3. calls' = [calls EXCEPT ![r] = 1] /\ onPool' = onPool \cup {r}
  BY <1>1, <1>2 DEF r, TypeOK
<1>4. TypeOK' /\ Life' /\ Indices' /\ Alive' /\ OnlyMisuseCrashes'
  BY <1>1, <1>3 DEF TypeOK, Life, Indices, Alive, Live, OnlyMisuseCrashes
<1>5. Callers' /\ Places'
  BY <1>1, <1>2, <1>3 DEF TypeOK, Callers, Places, Live
<1> QED
  BY <1>4, <1>5

\* The destructor begins, or destroys a context whose thread is idle, or ends
\* the pool.
LEMMA DestructorStep == ASSUME IInv, BeginStop \/ Destructor PROVE IInv'
<1> USE DEF IInv, callerVars, handlerVars
<1>1. CASE BeginStop
  BY <1>1 DEF BeginStop, TypeOK, Life, Indices, Callers, Places, Alive, Live,
              OnlyMisuseCrashes
<1>2. CASE DestroyContext
  <2>1. /\ phase = "contexts" /\ down < size /\ IoThreadFree(down) /\ down' = down + 1
        /\ op' = [r \in Requests |-> IF ctx[r] = down THEN "none" ELSE op[r]]
        /\ UNCHANGED <<size, phase, next, sending, ctx, sent, queue, onPool, onIo, calls>>
    BY <1>2 DEF DestroyContext
  <2>2. down \in Nat /\ size \in Nat
    BY DEF TypeOK
  <2>3. \A r \in Requests : Live(ctx[r])' <=> Live(ctx[r]) /\ ctx[r] # down
    BY <2>1, <2>2 DEF Live, TypeOK, Contexts
  <2>4. TypeOK' /\ Life' /\ Indices' /\ Callers' /\ OnlyMisuseCrashes'
    BY <2>1, <2>2 DEF TypeOK, Life, Indices, Callers, OnlyMisuseCrashes
  <2>5. Places'
    BY <2>1, <2>3 DEF Places
  <2>6. Alive'
    BY <2>1, <2>3 DEF Alive, IoThreadFree
  <2> QED
    BY <2>4, <2>5, <2>6
<1>3. CASE StopPool
  <2>1. \A r \in Requests : op[r] = "none" /\ r \notin onIo
    BY <1>3 DEF StopPool, Alive, Live, TypeOK
  <2> QED
    BY <1>3, <2>1, Empty
       DEF StopPool, TypeOK, Life, Indices, Callers, Places, Alive, OnlyMisuseCrashes
<1>4. CASE JoinPool
  BY <1>4 DEF JoinPool, TypeOK, Life, Indices, Callers, Places, Alive, Live,
              OnlyMisuseCrashes
<1> QED
  BY <1>1, <1>2, <1>3, <1>4 DEF Destructor

\* Steps that leave every variable as it is.
LEMMA StutterStep == ASSUME IInv, UNCHANGED vars PROVE IInv'
BY DEF vars, IInv, TypeOK, Life, Indices, Callers, Places, Alive, Live, OnlyMisuseCrashes

\* Every step keeps the invariant.
LEMMA NextStep == IInv /\ [Next]_vars => IInv'
<1> SUFFICES ASSUME IInv, [Next]_vars PROVE IInv'
  OBVIOUS
<1>1. CASE \E r \in Requests : LoadContext(r) \/ StartSession(r) \/ UseDeadContext(r)
  BY <1>1, LoadStep, StartSessionStep, DeadContextStep
<1>2. CASE \E r \in Requests : Complete(r)
  BY <1>2, CompleteStep
<1>3. CASE \E r \in Requests : IoHandlerReturns(r) \/ PoolHandlerReturns(r)
  BY <1>3, ReturnStep
<1>4. CASE \E n \in Sizes : start(n)
  BY <1>4, StartStep
<1>5. CASE PoolCalls
  BY <1>5, PoolCallsStep
<1>6. CASE BeginStop \/ Destructor
  BY <1>6, DestructorStep
<1>7. CASE Ended \/ UNCHANGED vars
  BY <1>7, StutterStep DEF Ended
<1> QED
  BY <1>1, <1>2, <1>3, <1>4, <1>5, <1>6, <1>7 DEF Next

\* The invariant holds of every behaviour.
LEMMA Inductive == Spec => []IInv
BY InitIInv, NextStep, PTL DEF Spec

-----------------------------------------------------------------------------
(* Theorems.                                                                *)

\* Types: no index passes the contexts there may be, however many threads load
\* and store it, and start() keeps to the limit whatever it is asked for.
THEOREM TypeCorrect == Spec => []TypeOK
<1>1. IInv => TypeOK
  BY DEF IInv
<1> QED
  BY <1>1, Inductive, PTL

\* No error path answers a request twice, and while its io_context is there
\* none loses it.
THEOREM AnsweredOnce == Spec => []OneAnswer
<1>1. IInv => OneAnswer
  BY DEF IInv, TypeOK, Places, OneAnswer, Distinct
<1> QED
  BY <1>1, Inductive, PTL

\* The contexts, with their threads and operations, go before the pool they
\* post to, and nothing runs when the destructor has returned.
THEOREM ContextsBeforePool == Spec => []ContextsGoFirst
<1>1. IInv => ContextsGoFirst
  <2> SUFFICES ASSUME IInv PROVE ContextsGoFirst
    OBVIOUS
  <2>1. \A r \in Requests : op[r] # "none" \/ r \in onIo => ctx[r] \in down..(size - 1)
    BY DEF IInv, Alive, Live
  <2>2. phase = "gone" => onPool = {} /\ onIo = {} /\ queue = <<>>
    BY <2>1 DEF IInv, Life, TypeOK, Contexts
  <2> QED
    BY <2>1, <2>2 DEF IInv, Life, ContextsGoFirst
<1> QED
  BY <1>1, Inductive, PTL

\* An io_context that is not there is used only after one of two misuses.
THEOREM MisuseOnly == Spec => []OnlyMisuseCrashes
<1>1. IInv => OnlyMisuseCrashes
  BY DEF IInv
<1> QED
  BY <1>1, Inductive, PTL

-----------------------------------------------------------------------------
(* RestSession implements RestCall.                                          *)

\* Nothing is seen of a step that sends, answers and loses nothing and does
\* not begin the destruction.
LEMMA Unseen ==
  ASSUME UNCHANGED <<sent, calls>>, Lost' = Lost,
         phase' \in {"new", "up"} <=> phase \in {"new", "up"}
  PROVE  UNCHANGED Promise!callVars
<1>1. (phase \notin {"new", "up"})' = (phase \notin {"new", "up"})
  OBVIOUS
<1> QED
  BY <1>1, Zenon DEF Promise!callVars

\* Destruction or the end of the process leaves waiting requests unanswered.
LEMMA SeenAsClose ==
  ASSUME UNCHANGED <<sent, calls>>, Lost \subseteq Lost', phase' \notin {"new", "up"}
  PROVE  Promise!Close
<1> DEFINE lost == Lost' \ Lost
<1>1. (phase \notin {"new", "up"})' = TRUE
  OBVIOUS
<1>2. lost \in SUBSET Promise!Waiting /\ Lost' = Lost \cup lost
  BY DEF Lost, Promise!Waiting
<1> HIDE DEF lost
<1>3. \E l \in SUBSET Promise!Waiting : Lost' = Lost \cup l
  BY <1>2, Zenon
<1> QED
  BY <1>1, <1>3, Zenon DEF Promise!Close

\* A call of the handler is the answer of a request that waited for it.
LEMMA SeenAsAnswer ==
  ASSUME NEW r \in Requests, r \in sent, calls[r] = 0,
         op[r] # "none" \/ r \in Range(queue),
         calls' = [calls EXCEPT ![r] = 1], Lost' = Lost, UNCHANGED <<sent, phase>>
  PROVE  Promise!Answer(r)
<1>1. r \in Promise!Waiting
  BY DEF Lost, Promise!Waiting
<1>2. (phase \notin {"new", "up"})' = (phase \notin {"new", "up"})
  OBVIOUS
<1> QED
  BY <1>1, <1>2, Zenon DEF Promise!Answer

\* A new object has sent nothing.
LEMMA CallInit == Init => Promise!CallInit
BY DEF Init, Lost, Promise!CallInit

\* Every step sends one request, answers one, is part of the destruction, or
\* is not seen.
LEMMA CallStep == IInv /\ [Next]_vars => [Promise!CallNext]_(Promise!callVars)
<1> SUFFICES ASSUME IInv, [Next]_vars
             PROVE  Promise!CallNext \/ UNCHANGED Promise!callVars
  OBVIOUS
<1> USE DEF IInv, callerVars, handlerVars, lifeVars
<1>1. ASSUME NEW r \in Requests, StartSession(r) PROVE Promise!Send(r)
  <2>1. r \notin sent /\ sent' = sent \cup {r} /\ calls' = calls /\ phase' = phase
    BY <1>1 DEF StartSession, Callers
  <2>2. Lost' = Lost
    <3>1. queue' = queue \/ Range(queue') = Range(queue) \cup {r}
      BY <1>1, Push DEF StartSession
    <3>2. op'[r] # "none" \/ r \in Range(queue')
      BY <1>1, Push DEF StartSession, TypeOK
    <3>3. \A q \in sent : op'[q] = op[q] /\ (q \in Range(queue') <=> q \in Range(queue))
      BY <1>1, <2>1, <3>1 DEF StartSession, TypeOK
    <3> QED
      BY <2>1, <3>2, <3>3 DEF Lost
  <2>3. (phase \notin {"new", "up"})' = (phase \notin {"new", "up"})
    BY <2>1
  <2> QED
    BY <2>1, <2>2, <2>3, Zenon DEF Promise!Send
<1>2. ASSUME NEW r \in Requests, Complete(r)
      PROVE  Promise!Answer(r) \/ UNCHANGED Promise!callVars
  <2>1. /\ op[r] # "none" /\ UNCHANGED <<sent, phase>>
        /\ Posts(r) \/ CallsHere(r) \/ \E to \in IoOps : Starts(r, to)
    BY <1>2, Completions
  <2>2. r \in sent /\ calls[r] = 0 /\ r \notin Range(queue)
    BY <2>1 DEF Places
  <2>3. CASE Posts(r)
    <3>1. Range(queue') = Range(queue) \cup {r} /\ calls' = calls
      BY <2>3, Push DEF Posts
    <3>2. Lost' = Lost
      BY <2>1, <2>3, <3>1 DEF Posts, Lost, TypeOK
    <3> QED
      BY <2>1, <3>1, <3>2, Unseen
  <2>4. CASE CallsHere(r)
    <3>1. calls' = [calls EXCEPT ![r] = 1] /\ Lost' = Lost
      BY <2>1, <2>2, <2>4 DEF CallsHere, Lost, TypeOK
    <3> QED
      BY <2>1, <2>2, <3>1, SeenAsAnswer
  <2>5. CASE \E to \in IoOps : Starts(r, to)
    <3>1. PICK to \in IoOps : Starts(r, to)
      BY <2>5
    <3>2. UNCHANGED <<calls, queue>> /\ op' = [op EXCEPT ![r] = to] /\ to # "none"
      BY <3>1 DEF Starts, IoOps
    <3>3. Lost' = Lost
      BY <2>1, <3>2 DEF Lost, TypeOK
    <3> QED
      BY <2>1, <3>2, <3>3, Unseen
  <2> QED
    BY <2>1, <2>3, <2>4, <2>5
<1>3. ASSUME PoolCalls PROVE \E r \in Requests : Promise!Answer(r)
  <2> DEFINE r == Head(queue)
  <2>1. /\ r \in Requests /\ r \in Range(queue) /\ r \notin Range(queue')
        /\ Range(queue) = {r} \cup Range(queue')
        /\ UNCHANGED <<op, sent, phase>>
    BY <1>3, Pop DEF PoolCalls, Places
  <2>2. r \in sent /\ calls[r] = 0
    BY <2>1 DEF Places
  <2> HIDE DEF r
  <2>3. calls' = [calls EXCEPT ![r] = 1]
    BY <1>3, <2>1, <2>2 DEF PoolCalls, r
  <2>4. Lost' = Lost
    BY <2>1, <2>2, <2>3 DEF Lost, TypeOK
  <2> QED
    BY <2>1, <2>2, <2>3, <2>4, SeenAsAnswer
<1>4. ASSUME NEW r \in Requests, UseDeadContext(r) PROVE Promise!Close
  <2>1. UNCHANGED <<sent, calls>> /\ phase' = "crashed"
    BY <1>4 DEF UseDeadContext
  <2>2. queue' = <<>> /\ op' = [q \in Requests |-> "none"]
    BY <1>4 DEF UseDeadContext
  <2>3. Lost \subseteq Lost'
    BY <2>1, <2>2, Empty DEF Lost, TypeOK
  <2> QED
    BY <2>1, <2>3, SeenAsClose
<1>5. ASSUME BeginStop \/ DestroyContext \/ StopPool PROVE Promise!Close
  <2>1. UNCHANGED <<sent, calls>> /\ phase' \notin {"new", "up"}
    BY <1>5 DEF BeginStop, DestroyContext, StopPool
  <2>2. Lost \subseteq Lost'
    BY <1>5, <2>1, Empty DEF BeginStop, DestroyContext, StopPool, Lost, TypeOK
  <2> QED
    BY <2>1, <2>2, SeenAsClose
<1>6. ASSUME NEW r \in Requests,
             LoadContext(r) \/ IoHandlerReturns(r) \/ PoolHandlerReturns(r)
      PROVE  UNCHANGED Promise!callVars
  BY <1>6, Unseen DEF LoadContext, IoHandlerReturns, PoolHandlerReturns, Lost
<1>7. ASSUME (\E n \in Sizes : start(n)) \/ JoinPool \/ Ended \/ UNCHANGED vars
      PROVE  UNCHANGED Promise!callVars
  <2>1. UNCHANGED <<sent, calls, op, queue>>
    BY <1>7 DEF start, JoinPool, Ended, vars
  <2>2. phase' \in {"new", "up"} <=> phase \in {"new", "up"}
    BY <1>7 DEF start, JoinPool, Ended, vars
  <2> QED
    BY <2>1, <2>2, Unseen DEF Lost
<1> QED
  BY <1>1, <1>2, <1>3, <1>4, <1>5, <1>6, <1>7
     DEF Next, Destructor, Promise!CallNext

\* sendRestRequest keeps its promise, for any requests, contexts and threads:
\* a handler is called once, and requests are left without an answer only by
\* the destructor or the end of the process.  (That they are answered at all
\* is left to the model checker.)
THEOREM ImplementsCall == Spec => Promise!CallSafety
BY CallInit, CallStep, Inductive, PTL DEF Spec, Promise!CallSafety
=============================================================================
