----------------------------- MODULE WsRegistry -----------------------------
(***************************************************************************)
(* m_wsSessions, the map from token ids to WebSocket sessions: the          *)
(* application threads that call startWebSocket (createWsSession) and       *)
(* stopWebSocket, the io threads that run the callback given to             *)
(* WsSession::close, and ~BinanceBeast.                                     *)
(*                                                                          *)
(* "std::scoped_lock (m_wsSessionsMux);" declares a lock of that name over  *)
(* no mutex, so nothing is locked: each call of a map member is a step of   *)
(* its own, and steps of other threads come between them.  (Two such calls  *)
(* that overlap are undefined behaviour; here each is one step.)  Any       *)
(* thread may start streams, and a token may be stopped again.              *)
(***************************************************************************)
EXTENDS Naturals, FiniteSets

CONSTANTS
  Threads,       \* application threads
  MaxSessions,   \* bound: sessions created
  StopsPerToken, \* bound: calls of stopWebSocket with one token
  IdMod          \* values of TokenId (2^32)

ASSUME RegistryAssumption ==
  /\ MaxSessions \in Nat
  /\ StopsPerToken \in Nat
  /\ IdMod \in Nat \ {0, 1}

Ids == 0..(IdMod - 1)
Sessions == 1..MaxSessions

\* A shared_ptr<WsSession> in the map or in a lambda may be null.
Null == 0

VARIABLES
  nextWsId,  \* m_nextWsId
  made,      \* sessions constructed so far
  idOf,      \* wsid of each session
  returned,  \* sessions whose token the application has
  sessions,  \* m_wsSessions
  pc,        \* where each thread is in its call
  cur,       \* the session it creates, or the one whose token it stops
  target,    \* the session its stopWebSocket calls close() on
  stops,     \* stopWebSocket calls with each session's token
  pending,   \* close callbacks that wait for their async_close
  running,   \* close callbacks on an io thread, with their handler chosen
  closed,    \* history: session meant and session closed, per stop
  overlap,   \* history: a thread drew an id while another was drawing one
  phase,     \* of ~BinanceBeast
  crash      \* the session whose stop followed a null shared_ptr, or Null

vars == <<nextWsId, made, idOf, returned, sessions, pc, cur, target, stops,
          pending, running, closed, overlap, phase, crash>>

idVars   == <<nextWsId, made, idOf, returned, overlap>>
stopVars == <<target, stops, pending, running, closed>>

Callbacks == [meant : Sessions, nth : 1..StopsPerToken,
              session : Sessions \cup {Null}, own : BOOLEAN]

TypeOK ==
  /\ nextWsId \in Ids
  /\ made \in 0..MaxSessions
  /\ idOf \in [Sessions -> Ids]
  /\ returned \subseteq Sessions
  /\ DOMAIN sessions \subseteq Ids
  /\ \A i \in DOMAIN sessions : sessions[i] \in Sessions \cup {Null}
  /\ pc \in [Threads -> {"idle", "store", "insert", "deref", "capture"}]
  /\ cur \in [Threads -> Sessions \cup {Null}]
  /\ target \in [Threads -> Sessions \cup {Null}]
  /\ stops \in [Sessions -> 0..StopsPerToken]
  /\ pending \subseteq Callbacks
  /\ running \subseteq Callbacks
  /\ closed \subseteq [meant : Sessions, closed : Sessions]
  /\ overlap \in BOOLEAN
  /\ phase \in {"up", "cleared", "joined", "gone"}
  /\ crash \in Sessions \cup {Null}

\* start() has returned; ids begin at 1, since 0 is not a valid token.
Init ==
  /\ nextWsId = 1
  /\ made = 0
  /\ idOf = [s \in Sessions |-> 0]
  /\ returned = {}
  /\ sessions = [i \in {} |-> Null]
  /\ pc = [t \in Threads |-> "idle"]
  /\ cur = [t \in Threads |-> Null]
  /\ target = [t \in Threads |-> Null]
  /\ stops = [s \in Sessions |-> 0]
  /\ pending = {}
  /\ running = {}
  /\ closed = {}
  /\ overlap = FALSE
  /\ phase = "up"
  /\ crash = Null

-----------------------------------------------------------------------------
(* Members of std::map.                                                      *)

Put(i, s) == [j \in DOMAIN sessions \cup {i} |-> IF j = i THEN s ELSE sessions[j]]

Erase(i) == [j \in DOMAIN sessions \ {i} |-> sessions[j]]

\* operator[] makes an entry with a null pointer for a key it does not find.
Subscript(i) == IF i \in DOMAIN sessions THEN sessions ELSE Put(i, Null)

At(i) == IF i \in DOMAIN sessions THEN sessions[i] ELSE Null

-----------------------------------------------------------------------------
(* createWsSession.                                                          *)

Runs(t, here, there) ==
  /\ crash = Null
  /\ phase = "up"
  /\ pc[t] = here
  /\ pc' = [pc EXCEPT ![t] = there]

\* Mutant: the id is taken from the size of the map.
LoadId_Size(t) ==
  /\ Runs(t, "idle", "store")
  /\ made < MaxSessions
  /\ made' = made + 1
  /\ cur' = [cur EXCEPT ![t] = made']
  /\ idOf' = [idOf EXCEPT ![made'] = (Cardinality(DOMAIN sessions) + 1) % IdMod]
  /\ overlap' = (overlap \/ \E u \in Threads : pc[u] = "store")
  /\ UNCHANGED <<nextWsId, returned, sessions, stopVars, phase, crash>>

\* make_shared, and wsid = m_nextWsId.load()
LoadId(t) ==
  /\ Runs(t, "idle", "store")
  /\ made < MaxSessions
  /\ made' = made + 1
  /\ cur' = [cur EXCEPT ![t] = made']
  /\ idOf' = [idOf EXCEPT ![made'] = nextWsId]
  /\ overlap' = (overlap \/ \E u \in Threads : pc[u] = "store")
  /\ UNCHANGED <<nextWsId, returned, sessions, stopVars, phase, crash>>

\* Mutants: the id does not move on; it is not kept in its width.
StoreId_Same(t) ==
  /\ Runs(t, "store", "insert")
  /\ nextWsId' = idOf[cur[t]]
  /\ UNCHANGED <<made, idOf, returned, overlap, sessions, cur, stopVars, phase, crash>>

StoreId_Wide(t) ==
  /\ Runs(t, "store", "insert")
  /\ nextWsId' = idOf[cur[t]] + 1
  /\ UNCHANGED <<made, idOf, returned, overlap, sessions, cur, stopVars, phase, crash>>

\* m_nextWsId.store(wsid + 1U)
StoreId(t) ==
  /\ Runs(t, "store", "insert")
  /\ nextWsId' = (idOf[cur[t]] + 1) % IdMod
  /\ UNCHANGED <<made, idOf, returned, overlap, sessions, cur, stopVars, phase, crash>>

\* m_wsSessions[wsid] = session; run; return the token.
Insert(t) ==
  /\ Runs(t, "insert", "idle")
  /\ sessions' = Put(idOf[cur[t]], cur[t])
  /\ returned' = returned \cup {cur[t]}
  /\ cur' = [cur EXCEPT ![t] = Null]
  /\ UNCHANGED <<nextWsId, made, idOf, overlap, stopVars, phase, crash>>

-----------------------------------------------------------------------------
(* stopWebSocket, with the token of session s.                               *)

\* m_wsSessions.find(token.id): without an entry the call does nothing.
Find(t, s) ==
  /\ s \in returned
  /\ stops[s] < StopsPerToken
  /\ stops' = [stops EXCEPT ![s] = @ + 1]
  /\ \/ /\ idOf[s] \in DOMAIN sessions
        /\ Runs(t, "idle", "deref")
        /\ cur' = [cur EXCEPT ![t] = s]
     \/ /\ idOf[s] \notin DOMAIN sessions
        /\ Runs(t, "idle", "idle")
        /\ UNCHANGED cur
  /\ UNCHANGED <<idVars, sessions, target, pending, running, closed, phase, crash>>

\* Mutant: the entry goes with the call, not with its callback.
Deref_Erases(t) ==
  /\ Runs(t, "deref", "capture")
  /\ sessions' = Erase(idOf[cur[t]])
  /\ target' = [target EXCEPT ![t] = At(idOf[cur[t]])]
  /\ crash' = IF target'[t] = Null THEN cur[t] ELSE Null
  /\ UNCHANGED <<idVars, cur, stops, pending, running, closed, phase>>

\* m_wsSessions[token.id]->
Deref(t) ==
  /\ Runs(t, "deref", "capture")
  /\ sessions' = Subscript(idOf[cur[t]])
  /\ target' = [target EXCEPT ![t] = At(idOf[cur[t]])]
  /\ crash' = IF target'[t] = Null THEN cur[t] ELSE Null
  /\ UNCHANGED <<idVars, cur, stops, pending, running, closed, phase>>

\* session = m_wsSessions[token.id] in the lambda; then close(lambda).  The
\* lambda has the caller's handler, or is to use the session's own.
Capture(t) ==
  /\ Runs(t, "capture", "idle")
  /\ sessions' = Subscript(idOf[cur[t]])
  /\ closed' = closed \cup {[meant |-> cur[t], closed |-> target[t]]}
  /\ \E own \in BOOLEAN :
       pending' = pending \cup {[meant |-> cur[t], nth |-> stops[cur[t]],
                                 session |-> At(idOf[cur[t]]), own |-> own]}
  /\ cur' = [cur EXCEPT ![t] = Null]
  /\ target' = [target EXCEPT ![t] = Null]
  /\ UNCHANGED <<idVars, stops, running, phase, crash>>

\* The lambda, on an io thread once async_close has completed, takes the handler
\* to call: from the session, if stopWebSocket was given none.
TakeHandler(p) ==
  /\ crash = Null
  /\ p \in pending
  /\ pending' = pending \ {p}
  /\ running' = running \cup {p}
  /\ crash' = IF p.own /\ p.session = Null THEN p.meant ELSE Null
  /\ UNCHANGED <<idVars, sessions, pc, cur, target, stops, closed, phase>>

\* Mutant: the lambda has the token by reference, and erases another's entry.
EraseEntry_ByReference(p) ==
  /\ crash = Null
  /\ p \in running
  /\ running' = running \ {p}
  /\ \E i \in DOMAIN sessions \cup {0} : sessions' = Erase(i)
  /\ UNCHANGED <<idVars, pc, cur, target, stops, pending, closed, phase, crash>>

\* m_wsSessions.erase(token.id); cb is called.
EraseEntry(p) ==
  /\ crash = Null
  /\ p \in running
  /\ running' = running \ {p}
  /\ sessions' = Erase(idOf[p.meant])
  /\ UNCHANGED <<idVars, pc, cur, target, stops, pending, closed, phase, crash>>

-----------------------------------------------------------------------------
(* ~BinanceBeast, when no application thread is in a call.                   *)

\* Mutant: stop() does not clear the map.
ClearSessions_Kept ==
  /\ crash = Null
  /\ phase = "up"
  /\ \A t \in Threads : pc[t] = "idle"
  /\ phase' = "cleared"
  /\ UNCHANGED <<idVars, sessions, pc, cur, stopVars, crash>>

\* stop(): m_wsSessions.clear()
ClearSessions ==
  /\ crash = Null
  /\ phase = "up"
  /\ \A t \in Threads : pc[t] = "idle"
  /\ phase' = "cleared"
  /\ sessions' = [i \in {} |-> Null]
  /\ UNCHANGED <<idVars, pc, cur, stopVars, crash>>

\* m_wsIocThreads.clear(), one context: its thread is joined, the others' still
\* run, and a callback it has not run is destroyed with it.
DropCallback(p) ==
  /\ crash = Null
  /\ phase = "cleared"
  /\ p \in pending
  /\ pending' = pending \ {p}
  /\ UNCHANGED <<idVars, sessions, pc, cur, target, stops, running, closed, phase, crash>>

\* The last of them: no io thread is left, nor any callback.
JoinWsThreads ==
  /\ crash = Null
  /\ phase = "cleared"
  /\ pending = {} /\ running = {}
  /\ phase' = "joined"
  /\ UNCHANGED <<idVars, sessions, pc, cur, stopVars, crash>>

\* m_nextWsId.store(0); the members end.
EndObject ==
  /\ crash = Null
  /\ phase = "joined"
  /\ phase' = "gone"
  /\ nextWsId' = 0
  /\ UNCHANGED <<made, idOf, returned, overlap, sessions, pc, cur, stopVars, crash>>

Ended == (crash # Null \/ phase = "gone") /\ UNCHANGED vars

Create(t) == LoadId(t) \/ StoreId(t) \/ Insert(t)

Stop(t) == (\E s \in Sessions : Find(t, s)) \/ Deref(t) \/ Capture(t)

Destroy ==
  \/ ClearSessions
  \/ \E p \in pending : DropCallback(p)
  \/ JoinWsThreads
  \/ EndObject

Next ==
  \/ \E t \in Threads : Create(t) \/ Stop(t)
  \/ \E p \in pending : TakeHandler(p)
  \/ \E p \in running : EraseEntry(p)
  \/ Destroy
  \/ Ended

Spec == Init /\ [][Next]_vars

-----------------------------------------------------------------------------
(* Properties.                                                               *)

\* Another session has the id, and so the token, of session s.
Shared(s) == \E u \in 1..made : u # s /\ idOf[u] = idOf[s]

\* Two sessions have one id only if a thread loaded m_nextWsId between another's
\* load and store, or as many sessions were started as there are ids.
OnlyOverlapShares ==
  (\E s \in 1..made : Shared(s)) => overlap \/ made >= IdMod

\* While nobody has stopped it, a session with an id of its own can be found
\* under its token: no other session's creation, stop or end takes its entry.
TokenNamesSession ==
  phase = "up" =>
    \A s \in returned : stops[s] = 0 => At(idOf[s]) = s \/ Shared(s)

\* "Closes a websocket connection.  token - the token, as returned from
\* startWebSocket()": however late and however often a token is stopped, the
\* session closed is its own, unless ids were drawn as in OnlyOverlapShares.
StopReachesOwn ==
  \A c \in closed : c.closed = c.meant \/ overlap \/ made >= IdMod

\* Stopping follows a null session, to close it or to find its handler, only
\* when the token, or another of the same id, is also stopped elsewhere.
OnlySecondStopCrashes ==
  crash # Null =>
    \/ stops[crash] > 1
    \/ \E u \in returned : u # crash /\ idOf[u] = idOf[crash] /\ stops[u] > 0

\* A session's stream belongs to an io context: when ~BinanceBeast has destroyed
\* the contexts, no entry and no callback is left that holds a session.
SessionsEndFirst ==
  phase \in {"joined", "gone"} => DOMAIN sessions = {} /\ pending \cup running = {}

\* "If nullptr then the existing handler will be used", under a lock of
\* m_wsSessionsMux from the search to the call: stopping follows no null session.
NoNullSession == crash = Null
=============================================================================
