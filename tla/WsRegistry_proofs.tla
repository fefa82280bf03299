-------------------------- MODULE WsRegistry_proofs --------------------------
(***************************************************************************)
(* The session map without its lock, for any number of threads that start   *)
(* streams and stop them as they like.  One invariant carries all: what a   *)
(* call in progress knows, who may draw the next id, what an entry of the   *)
(* map can be, and who else stopped the token of an entry that is gone.     *)
(***************************************************************************)
EXTENDS WsRegistry, TLAPS

-----------------------------------------------------------------------------
(* The parts of the inductive invariant.                                     *)

\* What a lookup of i finds in the map m.
Look(m, i) == IF i \in DOMAIN m THEN m[i] ELSE Null

\* With r the tokens out, ids their ids and n their stops: s was stopped twice,
\* or another session of its id was stopped.
Elsewhere(s, r, ids, n) ==
  \/ n[s] > 1
  \/ \E u \in r : u # s /\ ids[u] = ids[s] /\ n[u] > 0

\* Some session with the id of s was stopped.
SomeStop(s, r, ids, n) == \E u \in r : ids[u] = ids[s] /\ n[u] > 0

\* A call knows the session it is about, and has a session to close once it has
\* dereferenced the map's entry.
CallsKnow ==
  /\ returned \subseteq 1..made
  /\ \A t \in Threads :
       /\ pc[t] \in {"store", "insert"} =>
            cur[t] \in Sessions /\ cur[t] \in 1..made /\ cur[t] \notin returned
       /\ pc[t] \in {"deref", "capture"} =>
            cur[t] \in returned /\ stops[cur[t]] \in 1..StopsPerToken
       /\ pc[t] = "capture" => target[t] \in Sessions \/ crash # Null
  /\ \A t, u \in Threads :
       pc[t] \in {"store", "insert"} /\ pc[u] \in {"store", "insert"} /\ cur[t] = cur[u] =>
         t = u
  /\ \A p \in pending \cup running : p.meant \in returned /\ stops[p.meant] > 0

\* What the destructor has ended stays ended.
Ends ==
  /\ phase # "up" => DOMAIN sessions = {}
  /\ phase \in {"joined", "gone"} => pending = {} /\ running = {}

\* As long as no two draws overlap, sessions have their numbers as ids, and the
\* next id is the next number unless a thread is about to store it.
Drawn ==
  ~overlap /\ made < IdMod =>
    /\ \A s \in 1..made : idOf[s] = s
    /\ \A t, u \in Threads : pc[t] = "store" /\ pc[u] = "store" => t = u
    /\ \A t \in Threads : pc[t] = "store" => cur[t] = made
    /\ phase # "gone" /\ (\A t \in Threads : pc[t] # "store") =>
         nextWsId = (made + 1) % IdMod

\* An entry that is not null is a session under its own id, so that is what a
\* stop finds.
OwnEntries ==
  /\ \A i \in DOMAIN sessions :
       sessions[i] # Null => sessions[i] \in returned /\ idOf[sessions[i]] = i
  /\ \A t \in Threads : pc[t] = "capture" /\ crash = Null =>
       target[t] \in returned /\ idOf[target[t]] = idOf[cur[t]]
  /\ \A c \in closed :
       c.closed \in returned /\ c.meant \in returned /\ idOf[c.closed] = idOf[c.meant]

\* While nobody stops it, a session of an id of its own is found.
Named ==
  phase = "up" =>
    \A s \in returned : stops[s] = 0 => Look(sessions, idOf[s]) = s \/ Shared(s)

\* A token found in two places was stopped twice.
TwoStops ==
  /\ \A t, u \in Threads :
       pc[t] \in {"deref", "capture"} /\ pc[u] \in {"deref", "capture"} /\ cur[t] = cur[u] =>
         t = u \/ stops[cur[t]] > 1
  /\ \A t \in Threads, p \in pending \cup running :
       pc[t] \in {"deref", "capture"} /\ cur[t] = p.meant => stops[cur[t]] > 1

\* An entry is missing, or null, because somebody stopped its id; where a stop
\* relies on the entry, somebody else did.
Missing ==
  /\ phase = "up" =>
       /\ \A s \in returned :
            Look(sessions, idOf[s]) = Null => SomeStop(s, returned, idOf, stops)
       /\ \A t \in Threads :
            pc[t] \in {"deref", "capture"} /\ Look(sessions, idOf[cur[t]]) = Null =>
              Elsewhere(cur[t], returned, idOf, stops)
  /\ \A p \in pending \cup running :
       p.session = Null => Elsewhere(p.meant, returned, idOf, stops)
  /\ crash # Null => crash \in returned /\ Elsewhere(crash, returned, idOf, stops)

Known == TypeOK /\ CallsKnow

IInv ==
  /\ Known
  /\ Ends
  /\ Drawn
  /\ OwnEntries /\ Named
  /\ TwoStops /\ Missing

-----------------------------------------------------------------------------
(* Lemmas.                                                                   *)

\* What a 32-bit id does to a number, and to one that fits.
LEMMA IdWidth ==
  ASSUME NEW n \in Nat
  PROVE  n % IdMod \in Ids /\ (n < IdMod => n % IdMod = n)
<1>1. IdMod \in Nat /\ IdMod > 0
  BY RegistryAssumption
<1>2. QED
  BY <1>1 DEF Ids

\* What the map members return.
LEMMA MapMembers ==
  ASSUME NEW i
  PROVE  /\ \A s : /\ DOMAIN Put(i, s) = DOMAIN sessions \cup {i}
                   /\ Put(i, s)[i] = s
                   /\ \A j \in DOMAIN sessions \ {i} : Put(i, s)[j] = sessions[j]
         /\ DOMAIN Erase(i) = DOMAIN sessions \ {i}
         /\ \A j \in DOMAIN sessions \ {i} : Erase(i)[j] = sessions[j]
BY DEF Put, Erase

\* An entry put into the map leaves its type as it was.
LEMMA PutType ==
  ASSUME TypeOK, NEW i \in Ids, NEW s \in Sessions \cup {Null}
  PROVE  /\ DOMAIN Put(i, s) \subseteq Ids
         /\ \A j \in DOMAIN Put(i, s) : Put(i, s)[j] \in Sessions \cup {Null}
<1>1. DOMAIN sessions \subseteq Ids
      /\ \A j \in DOMAIN sessions : sessions[j] \in Sessions \cup {Null}
  BY DEF TypeOK
<1>2. DOMAIN Put(i, s) = DOMAIN sessions \cup {i}
  BY MapMembers
<1>3. ASSUME NEW j \in DOMAIN Put(i, s)
      PROVE  Put(i, s)[j] \in Sessions \cup {Null}
  <2>1. CASE j = i
    BY <2>1, MapMembers
  <2>2. CASE j # i
    <3>1. j \in DOMAIN sessions \ {i}
      BY <1>2, <1>3, <2>2
    <3>2. Put(i, s)[j] = sessions[j]
      BY <3>1, <2>2 DEF Put
    <3>3. QED
      BY <1>1, <3>1, <3>2
  <2>3. QED
    BY <2>1, <2>2
<1>4. QED
  BY <1>1, <1>2, <1>3

\* The map's type survives its other members.
LEMMA MapTypes ==
  ASSUME TypeOK, NEW i \in Ids
  PROVE  /\ At(i) \in Sessions \cup {Null}
         /\ DOMAIN Subscript(i) \subseteq Ids
         /\ \A j \in DOMAIN Subscript(i) : Subscript(i)[j] \in Sessions \cup {Null}
         /\ DOMAIN Erase(i) \subseteq Ids
         /\ \A j \in DOMAIN Erase(i) : Erase(i)[j] \in Sessions \cup {Null}
<1>1. DOMAIN sessions \subseteq Ids
      /\ \A j \in DOMAIN sessions : sessions[j] \in Sessions \cup {Null}
  BY DEF TypeOK
<1>2. DOMAIN Erase(i) \subseteq Ids
      /\ \A j \in DOMAIN Erase(i) : Erase(i)[j] \in Sessions \cup {Null}
  BY <1>1, MapMembers
<1>3. CASE i \in DOMAIN sessions
  BY <1>1, <1>2, <1>3 DEF Subscript, At
<1>4. CASE i \notin DOMAIN sessions
  <2>1. Subscript(i) = Put(i, Null) /\ At(i) = Null
    BY <1>4 DEF Subscript, At
  <2>2. Null \in Sessions \cup {Null}
    OBVIOUS
  <2>3. QED
    BY <1>2, <2>1, <2>2, PutType
<1>5. QED
  BY <1>3, <1>4

\* What a lookup finds after each member: Subscript changes no lookup.
LEMMA Lookups ==
  ASSUME NEW i, NEW s, NEW j
  PROVE  /\ Look(Put(i, s), j) = IF j = i THEN s ELSE Look(sessions, j)
         /\ Look(Erase(i), j) = IF j = i THEN Null ELSE Look(sessions, j)
         /\ Look(Subscript(i), j) = Look(sessions, j)
<1>1. /\ Look(Put(i, s), j) = IF j = i THEN s ELSE Look(sessions, j)
      /\ Look(Erase(i), j) = IF j = i THEN Null ELSE Look(sessions, j)
  BY DEF Look, Put, Erase
<1>2. Look(Put(i, Null), j) = IF j = i THEN Null ELSE Look(sessions, j)
  BY DEF Look, Put
<1>3. Look(Subscript(i), j) = Look(sessions, j)
  <2>1. CASE i \in DOMAIN sessions
    BY <2>1 DEF Subscript
  <2>2. CASE i \notin DOMAIN sessions
    BY <1>2, <2>2 DEF Look, Subscript
  <2>3. QED
    BY <2>1, <2>2
<1>4. QED
  BY <1>1, <1>3

\* At looks a key up.
LEMMA AtLooks == ASSUME NEW i PROVE At(i) = Look(sessions, i)
BY DEF At, Look

\* More tokens and more stops leave a stop found elsewhere where it was.
LEMMA MoreStops ==
  ASSUME NEW r, NEW r2, r \subseteq r2, r2 \subseteq Sessions,
         NEW ids, NEW ids2, \A u \in r : ids2[u] = ids[u],
         NEW n \in [Sessions -> Nat], NEW n2 \in [Sessions -> Nat],
         \A u \in Sessions : n2[u] >= n[u],
         NEW s \in r
  PROVE  /\ Elsewhere(s, r, ids, n) => Elsewhere(s, r2, ids2, n2)
         /\ SomeStop(s, r, ids, n) => SomeStop(s, r2, ids2, n2)
<1>1. /\ s \in Sessions /\ n[s] \in Nat /\ n2[s] \in Nat /\ n2[s] >= n[s]
      /\ ids2[s] = ids[s]
  OBVIOUS
<1>2. ASSUME NEW u \in r, ids[u] = ids[s], n[u] > 0
      PROVE  u \in r2 /\ ids2[u] = ids2[s] /\ n2[u] > 0
  <2>1. u \in Sessions /\ n[u] \in Nat /\ n2[u] \in Nat /\ n2[u] >= n[u]
    OBVIOUS
  <2>2. QED
    BY <1>1, <1>2, <2>1
<1>3. n[s] > 1 => n2[s] > 1
  BY <1>1
<1>4. QED
  BY <1>2, <1>3 DEF Elsewhere, SomeStop

-----------------------------------------------------------------------------
(* Types, and what the calls know.                                           *)

\* Nothing has been called.
LEMMA InitIInv == Init => IInv
<1> SUFFICES ASSUME Init PROVE IInv
  OBVIOUS
<1>1. /\ 0 \in Ids /\ 1 \in Ids /\ 0 \in 0..MaxSessions /\ 0 \in 0..StopsPerToken
      /\ 1..0 = {}
  BY RegistryAssumption DEF Ids
<1>2. DOMAIN sessions = {} /\ pending = {} /\ running = {} /\ closed = {} /\ returned = {}
  BY DEF Init
<1>3. TypeOK
  BY <1>1, <1>2 DEF Init, TypeOK
<1>4. CallsKnow /\ Ends
  BY <1>1, <1>2 DEF Init, CallsKnow, Ends
<1>5. Drawn
  <2>1. 1 % IdMod = 1
    BY IdWidth, RegistryAssumption
  <2>2. QED
    BY <1>1, <2>1 DEF Init, Drawn
<1>6. OwnEntries /\ Named /\ TwoStops /\ Missing
  BY <1>2 DEF Init, OwnEntries, Named, TwoStops, Missing
<1>7. QED
  BY <1>3, <1>4, <1>5, <1>6 DEF IInv, Known

\* The id of a session that exists is an id.
LEMMA IdIsId == ASSUME TypeOK, NEW s \in Sessions PROVE idOf[s] \in Ids
BY DEF TypeOK

\* createWsSession.
LEMMA CreateKnown ==
  ASSUME Known, NEW t \in Threads, Create(t)
  PROVE  Known'
<1>0. TypeOK /\ CallsKnow /\ made \in Nat /\ MaxSessions \in Nat
  BY RegistryAssumption DEF Known, TypeOK
<1>1. CASE LoadId(t)
  <2>1. /\ made' = made + 1 /\ made' \in Sessions /\ made' \in 0..MaxSessions
        /\ made' \in 1..made' /\ 1..made \subseteq 1..made' /\ made' \notin 1..made
    BY <1>0, <1>1 DEF LoadId, Sessions
  <2>2. TypeOK'
    BY <1>0, <1>1, <2>1 DEF TypeOK, LoadId, Runs, stopVars
  <2>3. CallsKnow'
    BY <1>0, <1>1, <2>1 DEF TypeOK, CallsKnow, LoadId, Runs, stopVars
  <2>4. QED
    BY <2>2, <2>3 DEF Known
<1>2. CASE StoreId(t)
  <2>1. cur[t] \in Sessions /\ idOf[cur[t]] \in Ids
    BY <1>0, <1>2, IdIsId DEF CallsKnow, StoreId, Runs
  <2>2. nextWsId' \in Ids
    <3>1. idOf[cur[t]] + 1 \in Nat
      BY <2>1, RegistryAssumption DEF Ids
    <3>2. QED
      BY <1>2, <3>1, IdWidth DEF StoreId
  <2>3. TypeOK'
    BY <1>0, <1>2, <2>2 DEF TypeOK, StoreId, Runs, stopVars
  <2>4. CallsKnow'
    BY <1>0, <1>2 DEF TypeOK, CallsKnow, StoreId, Runs, stopVars
  <2>5. QED
    BY <2>3, <2>4 DEF Known
<1>3. CASE Insert(t)
  <2>1. cur[t] \in Sessions /\ cur[t] \in 1..made /\ idOf[cur[t]] \in Ids
    BY <1>0, <1>3, IdIsId DEF CallsKnow, Insert, Runs
  <2>2. DOMAIN sessions' \subseteq Ids
        /\ \A j \in DOMAIN sessions' : sessions'[j] \in Sessions \cup {Null}
    <3>1. sessions' = Put(idOf[cur[t]], cur[t])
      BY <1>3 DEF Insert
    <3>2. QED
      BY <1>0, <2>1, <3>1, PutType
  <2>3. TypeOK'
    BY <1>0, <1>3, <2>1, <2>2 DEF TypeOK, Insert, Runs, stopVars
  <2>4. CallsKnow'
    <3>1. \A u \in Threads : pc'[u] # "idle" => u # t /\ pc'[u] = pc[u] /\ cur'[u] = cur[u]
      BY <1>0, <1>3 DEF TypeOK, Insert, Runs
    <3>2. \A u \in Threads : pc[u] \in {"store", "insert"} /\ u # t => cur[u] # cur[t]
      BY <1>0, <1>3 DEF CallsKnow, Insert, Runs
    <3>3. /\ returned' = returned \cup {cur[t]}
          /\ UNCHANGED <<made, target, stops, pending, running, crash>>
      BY <1>3 DEF Insert, stopVars
    <3>4. QED
      BY <1>0, <2>1, <3>1, <3>2, <3>3 DEF CallsKnow
  <2>5. QED
    BY <2>3, <2>4 DEF Known
<1>4. QED
  BY <1>1, <1>2, <1>3 DEF Create

\* stopWebSocket.
LEMMA StopKnown ==
  ASSUME Known, NEW t \in Threads, Stop(t)
  PROVE  Known'
<1>0. TypeOK /\ CallsKnow /\ StopsPerToken \in Nat
  BY RegistryAssumption DEF Known
<1>1. ASSUME NEW s \in Sessions, Find(t, s)
      PROVE  Known'
  <2>1. /\ s \in returned /\ phase = "up" /\ pc[t] = "idle"
        /\ stops' = [stops EXCEPT ![s] = stops[s] + 1] /\ stops[s] < StopsPerToken
        /\ \/ pc' = [pc EXCEPT ![t] = "deref"] /\ cur' = [cur EXCEPT ![t] = s]
           \/ pc' = [pc EXCEPT ![t] = "idle"] /\ cur' = cur
        /\ UNCHANGED <<idVars, sessions, target, pending, running, closed, phase, crash>>
    BY <1>1 DEF Find, Runs
  <2>2. /\ stops' \in [Sessions -> 0..StopsPerToken]
        /\ \A u \in Sessions : stops[u] \in 1..StopsPerToken => stops'[u] \in 1..StopsPerToken
        /\ \A u \in Sessions : stops[u] > 0 => stops'[u] > 0
        /\ stops'[s] \in 1..StopsPerToken
    BY <1>0, <2>1 DEF TypeOK
  <2>3. TypeOK'
    BY <1>0, <2>1, <2>2 DEF TypeOK, idVars
  <2>4. CallsKnow'
    <3>1. \A u \in Threads : u # t => pc'[u] = pc[u] /\ cur'[u] = cur[u]
      BY <1>0, <2>1 DEF TypeOK
    <3>2. pc'[t] = "idle" \/ (pc'[t] = "deref" /\ cur'[t] = s)
      BY <1>0, <2>1 DEF TypeOK
    <3>3. returned \subseteq Sessions
      BY <1>0 DEF TypeOK
    <3>4. QED
      BY <1>0, <2>1, <2>2, <3>1, <3>2, <3>3 DEF CallsKnow, idVars
  <2>5. QED
    BY <2>3, <2>4 DEF Known
<1>2. CASE Deref(t)
  <2>1. cur[t] \in Sessions /\ idOf[cur[t]] \in Ids
    BY <1>0, <1>2, IdIsId DEF TypeOK, CallsKnow, Deref, Runs
  <2>2. /\ target' \in [Threads -> Sessions \cup {Null}]
        /\ crash' \in Sessions \cup {Null}
        /\ target'[t] \in Sessions \/ crash' # Null
    <3>1. 0 \notin Sessions
      BY RegistryAssumption DEF Sessions
    <3>2. target'[t] = At(idOf[cur[t]]) /\ At(idOf[cur[t]]) \in Sessions \cup {Null}
      BY <1>0, <1>2, <2>1, MapTypes DEF TypeOK, Deref
    <3>3. QED
      BY <1>0, <1>2, <2>1, <3>1, <3>2 DEF TypeOK, Deref, Null
  <2>3. TypeOK'
    BY <1>0, <1>2, <2>1, <2>2, MapTypes DEF TypeOK, Deref, Runs, idVars
  <2>4. CallsKnow'
    <3>1. crash = Null /\ \A u \in Threads : u # t => pc'[u] = pc[u] /\ target'[u] = target[u]
      BY <1>0, <1>2 DEF TypeOK, Deref, Runs
    <3>2. pc[t] = "deref" /\ pc'[t] = "capture"
      BY <1>0, <1>2 DEF TypeOK, Deref, Runs
    <3>3. UNCHANGED <<idVars, cur, stops, pending, running>>
      BY <1>2 DEF Deref
    <3>4. QED
      BY <1>0, <2>2, <3>1, <3>2, <3>3 DEF CallsKnow, idVars
  <2>5. QED
    BY <2>3, <2>4 DEF Known
<1>3. CASE Capture(t)
  <2>1. /\ cur[t] \in Sessions /\ cur[t] \in returned
        /\ idOf[cur[t]] \in Ids /\ target[t] \in Sessions
        /\ stops[cur[t]] \in 1..StopsPerToken
    BY <1>0, <1>3, IdIsId DEF TypeOK, CallsKnow, Capture, Runs
  <2>2. closed' \subseteq [meant : Sessions, closed : Sessions]
    BY <1>0, <1>3, <2>1 DEF TypeOK, Capture
  <2>3. PICK own \in BOOLEAN :
          pending' = pending \cup {[meant |-> cur[t], nth |-> stops[cur[t]],
                                    session |-> At(idOf[cur[t]]), own |-> own]}
    BY <1>3 DEF Capture
  <2>4. pending' \subseteq Callbacks
    <3>1. At(idOf[cur[t]]) \in Sessions \cup {Null}
      BY <1>0, <2>1, MapTypes
    <3>2. QED
      BY <1>0, <2>1, <2>3, <3>1 DEF TypeOK, Callbacks
  <2>5. TypeOK'
    BY <1>0, <1>3, <2>1, <2>2, <2>4, MapTypes DEF TypeOK, Capture, Runs, idVars
  <2>6. CallsKnow'
    <3>1. \A u \in Threads : pc'[u] # "idle" =>
            u # t /\ pc'[u] = pc[u] /\ cur'[u] = cur[u] /\ target'[u] = target[u]
      BY <1>0, <1>3 DEF TypeOK, Capture, Runs
    <3>2. \A p \in pending' : p \in pending \/ p.meant = cur[t]
      BY <2>3
    <3>3. UNCHANGED <<idVars, stops, running, crash>>
      BY <1>3 DEF Capture
    <3>4. stops[cur[t]] > 0
      BY <2>1, <1>0
    <3>5. QED
      BY <1>0, <2>1, <3>1, <3>2, <3>3, <3>4 DEF CallsKnow, idVars
  <2>7. QED
    BY <2>5, <2>6 DEF Known
<1>4. QED
  BY <1>1, <1>2, <1>3 DEF Stop

\* The io threads' callbacks.
LEMMA CallbackKnown ==
  ASSUME Known, NEW p, (p \in pending /\ TakeHandler(p)) \/ (p \in running /\ EraseEntry(p))
  PROVE  Known'
<1>0. TypeOK /\ CallsKnow /\ p \in Callbacks /\ p.meant \in Sessions
  BY DEF Known, TypeOK, Callbacks
<1>1. TypeOK'
  BY <1>0, IdIsId, MapTypes DEF TypeOK, TakeHandler, EraseEntry, idVars
<1>2. CallsKnow'
  BY <1>0 DEF CallsKnow, TakeHandler, EraseEntry, idVars
<1>3. QED
  BY <1>1, <1>2 DEF Known

\* The destructor.
LEMMA DestructionKnown ==
  ASSUME Known, Destroy
  PROVE  Known'
<1>0. TypeOK /\ CallsKnow /\ 0 \in Ids
  BY RegistryAssumption DEF Known, Ids
<1>1. TypeOK'
  BY <1>0 DEF TypeOK, Destroy, ClearSessions, DropCallback, JoinWsThreads, EndObject,
              idVars, stopVars
<1>2. CallsKnow'
  BY <1>0 DEF CallsKnow, Destroy, ClearSessions, DropCallback, JoinWsThreads, EndObject,
              idVars, stopVars
<1>3. QED
  BY <1>1, <1>2 DEF Known

\* Every step keeps the types.
LEMMA NextKnown == ASSUME Known, Next PROVE Known'
<1>1. Ended => Known'
  BY DEF Ended, vars, Known, TypeOK, CallsKnow
<1>2. QED
  BY <1>1, CreateKnown, StopKnown, CallbackKnown, DestructionKnown DEF Next

-----------------------------------------------------------------------------
(* Creating.                                                                 *)

Rest == Ends /\ Drawn /\ OwnEntries /\ Named /\ TwoStops /\ Missing

\* The tokens out are sessions made, and their stops are numbers.
LEMMA TokensOut ==
  ASSUME Known
  PROVE  /\ returned \subseteq Sessions /\ returned \subseteq 1..made
         /\ made \in Nat /\ MaxSessions \in Nat
         /\ stops \in [Sessions -> Nat]
BY RegistryAssumption DEF Known, TypeOK, CallsKnow

\* A session that shares its id goes on sharing it.
LEMMA SharedStays ==
  ASSUME Known, made' \in Nat, made' >= made, \A u \in 1..made : idOf'[u] = idOf[u],
         NEW s \in returned, Shared(s)
  PROVE  Shared(s)'
<1>1. PICK u \in 1..made : u # s /\ idOf[u] = idOf[s]
  BY DEF Shared
<1>2. s \in 1..made /\ u \in 1..made'
  BY TokensOut
<1>3. idOf'[u] = idOf'[s]
  BY <1>1, <1>2
<1>4. QED
  BY <1>1, <1>2, <1>3 DEF Shared

\* make_shared and the load: nothing in the map changes.
LEMMA LoadKeeps ==
  ASSUME IInv, NEW t \in Threads, LoadId(t), Known'
  PROVE  Rest'
<1>0. /\ Known /\ TypeOK /\ Rest /\ phase = "up" /\ phase' = phase /\ crash = Null
      /\ pc[t] = "idle" /\ pc' = [pc EXCEPT ![t] = "store"]
      /\ made < MaxSessions /\ made' = made + 1
      /\ cur' = [cur EXCEPT ![t] = made'] /\ idOf' = [idOf EXCEPT ![made'] = nextWsId]
      /\ overlap' = (overlap \/ \E u \in Threads : pc[u] = "store")
      /\ UNCHANGED <<nextWsId, returned, sessions, target, stops, pending, running, closed, crash>>
  BY DEF IInv, Known, Rest, LoadId, Runs, stopVars
<1>1. /\ made \in Nat /\ made' \in Sessions /\ made' \notin 1..made /\ 1..made' = 1..made \cup {made'}
      /\ 1..made \subseteq Sessions /\ returned \subseteq 1..made
  BY <1>0, TokensOut DEF Sessions
<1>2. /\ \A s \in 1..made : idOf'[s] = idOf[s]
      /\ idOf'[made'] = nextWsId
      /\ \A u \in Threads \ {t} : pc'[u] = pc[u] /\ cur'[u] = cur[u]
      /\ pc'[t] = "store" /\ cur'[t] = made'
  BY <1>0, <1>1 DEF TypeOK
<1>3. Ends'
  BY <1>0 DEF Rest, Ends
<1>4. Drawn'
  <2> SUFFICES ASSUME ~overlap', made' < IdMod
               PROVE  /\ \A s \in 1..made' : idOf'[s] = s
                      /\ \A v, u \in Threads : pc'[v] = "store" /\ pc'[u] = "store" => v = u
                      /\ \A v \in Threads : pc'[v] = "store" => cur'[v] = made'
                      /\ ~(\A v \in Threads : pc'[v] # "store")
    BY DEF Drawn
  <2>1. ~overlap /\ made < IdMod /\ \A u \in Threads : pc[u] # "store"
    <3>1. ~overlap /\ \A u \in Threads : pc[u] # "store"
      BY <1>0, Zenon
    <3>2. made < IdMod
      BY <1>0, <1>1, RegistryAssumption
    <3>3. QED
      BY <3>1, <3>2
  <2>2. nextWsId = made + 1
    <3>1. made + 1 \in Nat /\ made + 1 < IdMod
      BY <1>0, <1>1
    <3>2. (made + 1) % IdMod = made + 1
      BY <3>1, IdWidth
    <3>3. QED
      BY <1>0, <2>1, <3>2 DEF Rest, Drawn
  <2>3. \A s \in 1..made : idOf[s] = s
    BY <1>0, <2>1 DEF Rest, Drawn
  <2>4. \A u \in Threads : pc'[u] = "store" => u = t
    BY <1>2, <2>1
  <2>5. QED
    BY <1>0, <1>1, <1>2, <2>2, <2>3, <2>4
<1>5. OwnEntries'
  <2>1. \A u \in Threads : pc'[u] = "capture" =>
          pc[u] = "capture" /\ cur'[u] = cur[u] /\ cur[u] \in returned /\ target[u] \in returned
    BY <1>0, <1>2 DEF Known, CallsKnow, Rest, OwnEntries
  <2>2. QED
    BY <1>0, <1>1, <1>2, <2>1 DEF Rest, OwnEntries
<1>6. Named'
  <2>1. ASSUME NEW s \in returned, Shared(s)
        PROVE  Shared(s)'
    BY <1>0, <1>1, <1>2, <2>1, SharedStays
  <2>2. QED
    BY <1>0, <1>1, <1>2, <2>1 DEF Rest, Named
<1>7. \A u \in Threads : pc'[u] \in {"deref", "capture"} =>
        pc[u] = pc'[u] /\ cur'[u] = cur[u] /\ cur[u] \in returned
  BY <1>0, <1>2 DEF Known, CallsKnow
<1>8. TwoStops'
  BY <1>0, <1>7 DEF Rest, TwoStops
<1>9. Missing'
  <2>1. ASSUME NEW s \in returned
        PROVE  /\ Elsewhere(s, returned, idOf, stops) => Elsewhere(s, returned, idOf', stops)
               /\ SomeStop(s, returned, idOf, stops) => SomeStop(s, returned, idOf', stops)
               /\ idOf'[s] = idOf[s]
    <3>1. \A u \in returned : idOf'[u] = idOf[u]
      BY <1>1, <1>2
    <3>2. QED
      BY <3>1 DEF Elsewhere, SomeStop
  <2>2. \A p \in pending \cup running : p.meant \in returned
    BY <1>0 DEF Known, CallsKnow
  <2>3. ASSUME NEW s \in returned', Look(sessions, idOf'[s]) = Null
        PROVE  SomeStop(s, returned, idOf', stops)
    BY <1>0, <2>1, <2>3 DEF Rest, Missing
  <2>4. ASSUME NEW u \in Threads, pc'[u] \in {"deref", "capture"},
               Look(sessions, idOf'[cur'[u]]) = Null
        PROVE  Elsewhere(cur'[u], returned, idOf', stops)
    BY <1>0, <1>7, <2>1, <2>4 DEF Rest, Missing
  <2>5. ASSUME NEW p \in pending \cup running, p.session = Null
        PROVE  Elsewhere(p.meant, returned, idOf', stops)
    BY <1>0, <2>1, <2>2, <2>5 DEF Rest, Missing
  <2>6. QED
    BY <1>0, <2>3, <2>4, <2>5 DEF Missing
<1>10. QED
  BY <1>3, <1>4, <1>5, <1>6, <1>8, <1>9 DEF Rest

\* The store: the next number, as long as there is one.
LEMMA StoreKeeps ==
  ASSUME IInv, NEW t \in Threads, StoreId(t), Known'
  PROVE  Rest'
<1>0. /\ Known /\ TypeOK /\ Rest /\ phase = "up" /\ phase' = phase
      /\ pc[t] = "store" /\ pc' = [pc EXCEPT ![t] = "insert"]
      /\ nextWsId' = (idOf[cur[t]] + 1) % IdMod
      /\ UNCHANGED <<made, idOf, returned, overlap, sessions, cur, target, stops, pending,
                     running, closed, crash>>
  BY DEF IInv, Known, Rest, StoreId, Runs, stopVars
<1>1. /\ \A u \in Threads \ {t} : pc'[u] = pc[u]
      /\ pc'[t] = "insert"
  BY <1>0 DEF TypeOK
<1>2. Ends'
  BY <1>0 DEF Rest, Ends
<1>3. Drawn'
  <2> SUFFICES ASSUME ~overlap, made < IdMod
               PROVE  /\ \A s \in 1..made : idOf[s] = s
                      /\ \A v \in Threads : pc'[v] # "store"
                      /\ nextWsId' = (made + 1) % IdMod
    BY <1>0 DEF Drawn
  <2>1. /\ \A s \in 1..made : idOf[s] = s
        /\ cur[t] = made
        /\ \A u \in Threads : pc[u] = "store" => u = t
    BY <1>0 DEF Rest, Drawn
  <2>2. cur[t] \in 1..made
    BY <1>0 DEF Known, CallsKnow
  <2>3. idOf[cur[t]] = made
    BY <2>1, <2>2
  <2>4. QED
    BY <1>0, <1>1, <2>1, <2>3
<1>4. \A u \in Threads : pc'[u] \in {"deref", "capture"} => pc'[u] = pc[u]
  BY <1>1
<1>5. OwnEntries'
  BY <1>0, <1>4 DEF Rest, OwnEntries
<1>6. Named'
  BY <1>0 DEF Rest, Named, Shared
<1>7. TwoStops'
  BY <1>0, <1>4 DEF Rest, TwoStops
<1>8. Missing'
  BY <1>0, <1>4 DEF Rest, Missing
<1>9. QED
  BY <1>2, <1>3, <1>5, <1>6, <1>7, <1>8 DEF Rest

\* The insertion: an entry over another's shares its id.
LEMMA InsertKeeps ==
  ASSUME IInv, NEW t \in Threads, Insert(t), Known'
  PROVE  Rest'
<1> DEFINE c == cur[t]
<1>0. /\ Known /\ TypeOK /\ Rest /\ phase = "up" /\ phase' = phase
      /\ pc[t] = "insert" /\ pc' = [pc EXCEPT ![t] = "idle"]
      /\ sessions' = Put(idOf[c], c) /\ returned' = returned \cup {c}
      /\ cur' = [cur EXCEPT ![t] = Null]
      /\ UNCHANGED <<nextWsId, made, idOf, overlap, target, stops, pending, running, closed, crash>>
  BY DEF IInv, Known, Rest, Insert, Runs, stopVars
<1>1. c \in Sessions /\ c \in 1..made /\ c \notin returned /\ c # Null
  <2>1. c \in Sessions /\ c \in 1..made /\ c \notin returned
    BY <1>0 DEF Known, CallsKnow
  <2>2. 0 \notin Sessions
    BY RegistryAssumption DEF Sessions
  <2>3. QED
    BY <2>1, <2>2 DEF Null
<1>2. /\ \A u \in Threads \ {t} : pc'[u] = pc[u] /\ cur'[u] = cur[u]
      /\ pc'[t] = "idle"
  BY <1>0 DEF TypeOK
<1>3. \A j : Look(sessions', j) = IF j = idOf[c] THEN c ELSE Look(sessions, j)
  BY <1>0, Lookups
<1>4. Ends'
  BY <1>0 DEF Rest, Ends
<1>5. Drawn'
  <2>1. \A u \in Threads : (pc'[u] = "store") <=> (pc[u] = "store")
    BY <1>0, <1>2
  <2>2. \A u \in Threads : pc[u] = "store" => cur'[u] = cur[u]
    BY <1>0, <1>2
  <2>3. QED
    BY <1>0, <2>1, <2>2 DEF Rest, Drawn
<1>6. \A u \in Threads : pc'[u] \in {"deref", "capture"} => pc'[u] = pc[u] /\ cur'[u] = cur[u]
  BY <1>2
<1>7. OwnEntries'
  <2>1. ASSUME NEW i \in DOMAIN sessions', sessions'[i] # Null
        PROVE  sessions'[i] \in returned' /\ idOf[sessions'[i]] = i
    <3>1. CASE i = idOf[c]
      BY <1>0, <3>1 DEF Put
    <3>2. CASE i # idOf[c]
      <4>1. i \in DOMAIN sessions /\ sessions'[i] = sessions[i]
        BY <1>0, <3>2 DEF Put
      <4>2. QED
        BY <1>0, <2>1, <4>1 DEF Rest, OwnEntries
    <3>3. QED
      BY <3>1, <3>2
  <2>2. \A u \in Threads : pc'[u] = "capture" /\ crash' = Null =>
          target'[u] \in returned' /\ idOf'[target'[u]] = idOf'[cur'[u]]
    BY <1>0, <1>6 DEF Rest, OwnEntries
  <2>3. QED
    BY <1>0, <2>1, <2>2 DEF Rest, OwnEntries
<1>8. Named'
  <2> SUFFICES ASSUME NEW s \in returned', stops[s] = 0
               PROVE  Look(sessions', idOf[s]) = s \/ Shared(s)
    BY <1>0 DEF Named, Shared
  <2>1. CASE s = c
    BY <1>3, <2>1
  <2>2. CASE s # c /\ idOf[s] = idOf[c]
    BY <1>1, <2>2 DEF Shared
  <2>3. CASE s # c /\ idOf[s] # idOf[c]
    <3>1. s \in returned
      BY <1>0, <2>3
    <3>2. QED
      BY <1>0, <1>3, <2>3, <3>1 DEF Rest, Named
  <2>4. QED
    BY <2>1, <2>2, <2>3
<1>9. TwoStops'
  BY <1>0, <1>6 DEF Rest, TwoStops
<1>10. Missing'
  <2>1. ASSUME NEW s \in returned
        PROVE  /\ Elsewhere(s, returned, idOf, stops) => Elsewhere(s, returned', idOf, stops)
               /\ SomeStop(s, returned, idOf, stops) => SomeStop(s, returned', idOf, stops)
    BY <1>0 DEF Elsewhere, SomeStop
  <2>2. /\ \A p \in pending \cup running : p.meant \in returned
        /\ \A u \in Threads : pc'[u] \in {"deref", "capture"} => cur[u] \in returned
    BY <1>0, <1>6 DEF Known, CallsKnow
  <2>3. ASSUME NEW s \in returned', Look(sessions', idOf[s]) = Null
        PROVE  s \in returned /\ Look(sessions, idOf[s]) = Null
    <3>1. idOf[s] # idOf[c]
      BY <1>1, <1>3, <2>3
    <3>2. QED
      BY <1>0, <1>3, <2>3, <3>1
  <2>4. ASSUME NEW u \in Threads, pc'[u] \in {"deref", "capture"},
               Look(sessions', idOf[cur[u]]) = Null
        PROVE  Look(sessions, idOf[cur[u]]) = Null
    BY <1>1, <1>3, <2>4
  <2>5. QED
    BY <1>0, <1>6, <2>1, <2>2, <2>3, <2>4 DEF Rest, Missing
<1>11. QED
  BY <1>4, <1>5, <1>7, <1>8, <1>9, <1>10 DEF Rest

-----------------------------------------------------------------------------
(* Stopping.                                                                 *)

\* find: a null entry that is found was stopped before, so this is another stop.
LEMMA FindKeeps ==
  ASSUME IInv, NEW t \in Threads, NEW s \in Sessions, Find(t, s), Known'
  PROVE  Rest'
<1>0. /\ Known /\ TypeOK /\ Rest /\ phase = "up" /\ phase' = phase /\ crash = Null
      /\ s \in returned /\ pc[t] = "idle"
      /\ stops' = [stops EXCEPT ![s] = stops[s] + 1]
      /\ \/ pc' = [pc EXCEPT ![t] = "deref"] /\ cur' = [cur EXCEPT ![t] = s]
         \/ pc' = [pc EXCEPT ![t] = "idle"] /\ cur' = cur
      /\ UNCHANGED <<nextWsId, made, idOf, returned, overlap, sessions, target, pending, running,
                     closed, crash>>
  BY DEF IInv, Known, Rest, Find, Runs, idVars
<1>1. /\ \A u \in Threads \ {t} : pc'[u] = pc[u] /\ cur'[u] = cur[u]
      /\ pc'[t] = "idle" \/ (pc'[t] = "deref" /\ cur'[t] = s)
  BY <1>0 DEF TypeOK
<1>2. /\ returned \subseteq Sessions /\ stops \in [Sessions -> Nat] /\ stops' \in [Sessions -> Nat]
      /\ \A u \in Sessions : stops'[u] >= stops[u] /\ (u # s => stops'[u] = stops[u])
      /\ stops'[s] = stops[s] + 1
  <2>1. returned \subseteq Sessions /\ stops \in [Sessions -> Nat]
    BY <1>0, TokensOut
  <2>2. QED
    BY <1>0, <2>1
<1>3. ASSUME NEW r \in returned
      PROVE  /\ Elsewhere(r, returned, idOf, stops) => Elsewhere(r, returned, idOf, stops')
             /\ SomeStop(r, returned, idOf, stops) => SomeStop(r, returned, idOf, stops')
  BY <1>2, MoreStops
<1>4. Ends'
  BY <1>0 DEF Rest, Ends
<1>5. Drawn'
  <2>1. \A u \in Threads : (pc'[u] = "store") <=> (pc[u] = "store")
    BY <1>0, <1>1
  <2>2. \A u \in Threads : pc[u] = "store" => cur'[u] = cur[u]
    BY <1>0, <1>1
  <2>3. QED
    BY <1>0, <2>1, <2>2 DEF Rest, Drawn
<1>6. OwnEntries'
  <2>1. \A u \in Threads : pc'[u] = "capture" => pc'[u] = pc[u] /\ cur'[u] = cur[u]
    BY <1>1
  <2>2. QED
    BY <1>0, <2>1 DEF Rest, OwnEntries
<1>7. Named'
  <2>1. \A r \in returned : stops'[r] = 0 => stops[r] = 0
    BY <1>2
  <2>2. QED
    BY <1>0, <2>1 DEF Rest, Named, Shared
<1>8. /\ \A u \in Threads \ {t} : pc'[u] \in {"deref", "capture"} =>
           /\ cur[u] \in returned /\ stops[cur[u]] > 0
           /\ cur[u] = s => stops'[s] > 1
      /\ \A p \in pending \cup running :
           p.meant \in returned /\ stops[p.meant] > 0 /\ (p.meant = s => stops'[s] > 1)
  <2>1. ASSUME NEW u \in Threads \ {t}, pc'[u] \in {"deref", "capture"}
        PROVE  /\ cur[u] \in returned /\ stops[cur[u]] > 0
               /\ cur[u] = s => stops'[s] > 1
    <3>1. cur[u] \in returned /\ stops[cur[u]] \in 1..StopsPerToken
      BY <1>0, <1>1, <2>1 DEF Known, CallsKnow
    <3>2. QED
      BY <1>2, <3>1, RegistryAssumption
  <2>2. \A p \in pending \cup running : p.meant \in returned /\ stops[p.meant] > 0
    BY <1>0 DEF Known, CallsKnow
  <2>3. stops[s] \in Nat /\ (stops[s] > 0 => stops'[s] > 1)
    BY <1>2
  <2>4. QED
    BY <2>1, <2>2, <2>3
<1>9. TwoStops'
  <2>1. ASSUME NEW u \in Threads, NEW v \in Threads, u # v, cur'[u] = cur'[v],
               pc'[u] \in {"deref", "capture"}, pc'[v] \in {"deref", "capture"}
        PROVE  stops'[cur'[u]] > 1
    <3>1. CASE u = t
      BY <1>1, <1>8, <2>1, <3>1
    <3>2. CASE v = t
      BY <1>1, <1>8, <2>1, <3>2
    <3>3. CASE u # t /\ v # t
      <4>1. stops[cur[u]] > 1 /\ cur[u] \in returned
        BY <1>0, <1>1, <1>8, <2>1, <3>3 DEF Rest, TwoStops
      <4>2. QED
        BY <1>1, <1>2, <2>1, <3>3, <4>1
    <3>4. QED
      BY <3>1, <3>2, <3>3
  <2>2. ASSUME NEW u \in Threads, NEW p \in pending \cup running,
               pc'[u] \in {"deref", "capture"}, cur'[u] = p.meant
        PROVE  stops'[cur'[u]] > 1
    <3>1. CASE u = t
      BY <1>1, <1>8, <2>2, <3>1
    <3>2. CASE u # t
      <4>1. stops[cur[u]] > 1 /\ cur[u] \in returned
        BY <1>0, <1>1, <1>8, <2>2, <3>2 DEF Rest, TwoStops
      <4>2. QED
        BY <1>1, <1>2, <2>2, <3>2, <4>1
    <3>3. QED
      BY <3>1, <3>2
  <2>3. QED
    BY <1>0, <2>1, <2>2 DEF TwoStops
<1>10. Missing'
  <2>1. ASSUME NEW r \in returned, Look(sessions, idOf[r]) = Null
        PROVE  SomeStop(r, returned, idOf, stops')
    BY <1>0, <1>3, <2>1 DEF Rest, Missing
  <2>2. ASSUME NEW u \in Threads, pc'[u] \in {"deref", "capture"},
               Look(sessions, idOf[cur'[u]]) = Null
        PROVE  Elsewhere(cur'[u], returned, idOf, stops')
    <3>1. CASE u # t
      BY <1>0, <1>1, <1>3, <1>8, <2>2, <3>1 DEF Rest, Missing
    <3>2. CASE u = t
      <4>1. cur'[u] = s /\ SomeStop(s, returned, idOf, stops)
        BY <1>0, <1>1, <2>2, <3>2 DEF Rest, Missing
      <4>2. PICK r \in returned : idOf[r] = idOf[s] /\ stops[r] > 0
        BY <4>1 DEF SomeStop
      <4>3. CASE r = s
        <5>1. stops[s] \in Nat /\ stops'[s] > 1
          BY <1>2, <4>2, <4>3
        <5>2. QED
          BY <4>1, <5>1 DEF Elsewhere
      <4>4. CASE r # s
        <5>1. stops'[r] > 0
          BY <1>2, <4>2, <4>4
        <5>2. QED
          BY <4>1, <4>2, <4>4, <5>1 DEF Elsewhere
      <4>5. QED
        BY <4>3, <4>4
    <3>3. QED
      BY <3>1, <3>2
  <2>3. ASSUME NEW p \in pending \cup running, p.session = Null
        PROVE  Elsewhere(p.meant, returned, idOf, stops')
    BY <1>0, <1>3, <1>8, <2>3 DEF Rest, Missing
  <2>4. QED
    BY <1>0, <2>1, <2>2, <2>3 DEF Missing
<1>11. QED
  BY <1>4, <1>5, <1>6, <1>7, <1>9, <1>10 DEF Rest

\* The dereference: what a stop finds under its id has that id.
LEMMA DerefKeeps ==
  ASSUME IInv, NEW t \in Threads, Deref(t), Known'
  PROVE  Rest'
<1> DEFINE c == cur[t]
<1>0. /\ Known /\ TypeOK /\ Rest /\ phase = "up" /\ phase' = phase /\ crash = Null
      /\ pc[t] = "deref" /\ pc' = [pc EXCEPT ![t] = "capture"]
      /\ sessions' = Subscript(idOf[c])
      /\ target' = [target EXCEPT ![t] = At(idOf[c])]
      /\ crash' = IF target'[t] = Null THEN c ELSE Null
      /\ UNCHANGED <<nextWsId, made, idOf, returned, overlap, cur, stops, pending, running, closed>>
  BY DEF IInv, Known, Rest, Deref, Runs, idVars
<1>1. /\ \A u \in Threads \ {t} : pc'[u] = pc[u] /\ target'[u] = target[u]
      /\ pc'[t] = "capture" /\ target'[t] = Look(sessions, idOf[c])
  <2>1. target'[t] = At(idOf[c])
    BY <1>0 DEF TypeOK
  <2>2. QED
    BY <1>0, <2>1, AtLooks DEF TypeOK
<1>2. /\ \A j : Look(sessions', j) = Look(sessions, j)
      /\ c \in returned
  <2>1. c \in returned
    BY <1>0 DEF Known, CallsKnow
  <2>2. QED
    BY <1>0, <2>1, Lookups
<1>3. Ends'
  BY <1>0 DEF Rest, Ends
<1>4. Drawn'
  <2>1. \A u \in Threads : (pc'[u] = "store") <=> (pc[u] = "store")
    BY <1>0, <1>1
  <2>2. QED
    BY <1>0, <2>1 DEF Rest, Drawn
<1>5. OwnEntries'
  <2>1. ASSUME NEW i \in DOMAIN sessions', sessions'[i] # Null
        PROVE  i \in DOMAIN sessions /\ sessions'[i] = sessions[i]
    <3>1. Look(sessions', i) = Look(sessions, i)
      BY <1>2
    <3>2. QED
      BY <2>1, <3>1 DEF Look
  <2>2. ASSUME NEW u \in Threads, pc'[u] = "capture", crash' = Null
        PROVE  target'[u] \in returned /\ idOf[target'[u]] = idOf[cur[u]]
    <3>1. CASE u # t
      BY <1>0, <1>1, <2>2, <3>1 DEF Rest, OwnEntries
    <3>2. CASE u = t
      <4>1. c # Null
        <5>1. c \in Sessions /\ 0 \notin Sessions
          BY <1>0, <1>2, RegistryAssumption DEF TypeOK, Sessions
        <5>2. QED
          BY <5>1 DEF Null
      <4>2. target'[t] # Null
        BY <1>0, <2>2, <4>1
      <4>3. idOf[c] \in DOMAIN sessions /\ target'[t] = sessions[idOf[c]]
        BY <1>1, <4>2 DEF Look
      <4>4. QED
        BY <1>0, <3>2, <4>2, <4>3 DEF Rest, OwnEntries
    <3>3. QED
      BY <3>1, <3>2
  <2>3. QED
    BY <1>0, <2>1, <2>2 DEF Rest, OwnEntries
<1>6. Named'
  BY <1>0, <1>2 DEF Rest, Named, Shared
<1>7. \A u \in Threads : pc'[u] \in {"deref", "capture"} => pc[u] \in {"deref", "capture"}
  BY <1>0, <1>1
<1>8. TwoStops'
  BY <1>0, <1>7 DEF Rest, TwoStops
<1>9. Missing'
  <2>1. crash' # Null => crash' \in returned /\ Elsewhere(crash', returned, idOf, stops)
    <3>1. crash' # Null => crash' = c /\ Look(sessions, idOf[c]) = Null
      BY <1>0, <1>1
    <3>2. QED
      BY <1>0, <1>2, <3>1 DEF Rest, Missing
  <2>2. QED
    BY <1>0, <1>2, <1>7, <2>1 DEF Rest, Missing
<1>10. QED
  BY <1>3, <1>4, <1>5, <1>6, <1>8, <1>9 DEF Rest

\* The capture: the lambda gets what is then under the id.
LEMMA CaptureKeeps ==
  ASSUME IInv, NEW t \in Threads, Capture(t), Known'
  PROVE  Rest'
<1> DEFINE c == cur[t]
<1>0. /\ Known /\ TypeOK /\ Rest /\ phase = "up" /\ phase' = phase /\ crash = Null
      /\ pc[t] = "capture" /\ pc' = [pc EXCEPT ![t] = "idle"]
      /\ sessions' = Subscript(idOf[c])
      /\ closed' = closed \cup {[meant |-> c, closed |-> target[t]]}
      /\ cur' = [cur EXCEPT ![t] = Null]
      /\ target' = [target EXCEPT ![t] = Null]
      /\ UNCHANGED <<nextWsId, made, idOf, returned, overlap, stops, running, crash>>
  BY DEF IInv, Known, Rest, Capture, Runs, idVars
<1>1. PICK own \in BOOLEAN :
        pending' = pending \cup {[meant |-> c, nth |-> stops[c],
                                  session |-> At(idOf[c]), own |-> own]}
  BY DEF Capture
<1>2. /\ \A u \in Threads \ {t} : pc'[u] = pc[u] /\ cur'[u] = cur[u] /\ target'[u] = target[u]
      /\ pc'[t] = "idle"
  BY <1>0 DEF TypeOK
<1>3. /\ \A j : Look(sessions', j) = Look(sessions, j)
      /\ c \in returned
      /\ \A p \in pending' : p \in pending \/ (p.meant = c /\ p.session = Look(sessions, idOf[c]))
  <2>1. c \in returned
    BY <1>0 DEF Known, CallsKnow
  <2>2. At(idOf[c]) = Look(sessions, idOf[c])
    BY AtLooks
  <2>3. \A p \in pending' : p \in pending \/ (p.meant = c /\ p.session = Look(sessions, idOf[c]))
    BY <1>1, <2>2
  <2>4. QED
    BY <1>0, <2>1, <2>3, Lookups
<1>4. Ends'
  BY <1>0 DEF Rest, Ends
<1>5. Drawn'
  <2>1. \A u \in Threads : (pc'[u] = "store") <=> (pc[u] = "store")
    BY <1>0, <1>2
  <2>2. \A u \in Threads : pc[u] = "store" => cur'[u] = cur[u]
    BY <1>0, <1>2
  <2>3. QED
    BY <1>0, <2>1, <2>2 DEF Rest, Drawn
<1>6. \A u \in Threads : pc'[u] \in {"deref", "capture"} =>
        u # t /\ pc'[u] = pc[u] /\ cur'[u] = cur[u] /\ target'[u] = target[u]
  BY <1>2
<1>7. OwnEntries'
  <2>1. ASSUME NEW i \in DOMAIN sessions', sessions'[i] # Null
        PROVE  i \in DOMAIN sessions /\ sessions'[i] = sessions[i]
    <3>1. Look(sessions', i) = Look(sessions, i)
      BY <1>3
    <3>2. QED
      BY <2>1, <3>1 DEF Look
  <2>2. target[t] \in returned /\ idOf[target[t]] = idOf[c]
    BY <1>0 DEF Rest, OwnEntries
  <2>3. \A e \in closed' : e \in closed \/ (e.meant = c /\ e.closed = target[t])
    BY <1>0
  <2>4. QED
    BY <1>0, <1>3, <1>6, <2>1, <2>2, <2>3 DEF Rest, OwnEntries
<1>8. Named'
  BY <1>0, <1>3 DEF Rest, Named, Shared
<1>9. TwoStops'
  <2>1. ASSUME NEW u \in Threads, NEW p \in pending' \cup running,
               pc'[u] \in {"deref", "capture"}, cur'[u] = p.meant
        PROVE  stops[cur'[u]] > 1
    <3>1. CASE p \in pending \cup running
      BY <1>0, <1>6, <2>1, <3>1 DEF Rest, TwoStops
    <3>2. CASE p.meant = c
      <4>1. u # t /\ cur[u] = c /\ pc[u] \in {"deref", "capture"} /\ pc[t] \in {"deref", "capture"}
        BY <1>0, <1>6, <2>1, <3>2
      <4>2. stops[cur[u]] > 1
        BY <1>0, <4>1 DEF Rest, TwoStops
      <4>3. QED
        BY <1>6, <2>1, <4>2
    <3>3. QED
      BY <1>3, <2>1, <3>1, <3>2
  <2>2. ASSUME NEW u \in Threads, NEW v \in Threads, u # v, cur'[u] = cur'[v],
               pc'[u] \in {"deref", "capture"}, pc'[v] \in {"deref", "capture"}
        PROVE  stops[cur'[u]] > 1
    BY <1>0, <1>6, <2>2 DEF Rest, TwoStops
  <2>3. QED
    BY <1>0, <2>1, <2>2 DEF TwoStops
<1>10. Missing'
  <2>1. Look(sessions, idOf[c]) = Null => Elsewhere(c, returned, idOf, stops)
    BY <1>0 DEF Rest, Missing
  <2>2. ASSUME NEW p \in pending' \cup running, p.session = Null
        PROVE  Elsewhere(p.meant, returned, idOf, stops)
    BY <1>0, <1>3, <2>1, <2>2 DEF Rest, Missing
  <2>3. ASSUME NEW u \in Threads, pc'[u] \in {"deref", "capture"},
               Look(sessions', idOf[cur'[u]]) = Null
        PROVE  Elsewhere(cur'[u], returned, idOf, stops)
    BY <1>0, <1>3, <1>6, <2>3 DEF Rest, Missing
  <2>4. QED
    BY <1>0, <1>3, <2>2, <2>3 DEF Rest, Missing
<1>11. QED
  BY <1>4, <1>5, <1>7, <1>8, <1>9, <1>10 DEF Rest

-----------------------------------------------------------------------------
(* The io threads and the destructor.                                        *)

\* The choice of the handler.
LEMMA TakeKeeps ==
  ASSUME IInv, NEW p \in pending, TakeHandler(p), Known'
  PROVE  Rest'
<1>0. /\ Known /\ TypeOK /\ Rest /\ crash = Null
      /\ pending' = pending \ {p} /\ running' = running \cup {p}
      /\ crash' = IF p.own /\ p.session = Null THEN p.meant ELSE Null
      /\ UNCHANGED <<nextWsId, made, idOf, returned, overlap, sessions, pc, cur, target, stops,
                     closed, phase>>
  BY DEF IInv, Known, Rest, TakeHandler, idVars
<1>1. pending' \cup running' = pending \cup running /\ p.meant \in returned
  BY <1>0 DEF Known, CallsKnow
<1>2. Ends' /\ Drawn' /\ OwnEntries' /\ Named'
  BY <1>0 DEF Rest, Ends, Drawn, OwnEntries, Named, Shared
<1>3. TwoStops'
  BY <1>0, <1>1 DEF Rest, TwoStops
<1>4. Missing'
  <2>1. crash' # Null => crash' = p.meant /\ p.session = Null
    BY <1>0
  <2>2. crash' # Null => crash' \in returned /\ Elsewhere(crash', returned, idOf, stops)
    BY <1>0, <1>1, <2>1 DEF Rest, Missing
  <2>3. QED
    BY <1>0, <1>1, <2>2 DEF Rest, Missing
<1>5. QED
  BY <1>2, <1>3, <1>4 DEF Rest

\* The erasure: whoever relies on the entry is stopping the id too.
LEMMA EraseKeeps ==
  ASSUME IInv, NEW p \in running, EraseEntry(p), Known'
  PROVE  Rest'
<1> DEFINE m == p.meant
<1>0. /\ Known /\ TypeOK /\ Rest /\ crash = Null
      /\ running' = running \ {p}
      /\ sessions' = Erase(idOf[m])
      /\ UNCHANGED <<nextWsId, made, idOf, returned, overlap, pc, cur, target, stops, pending,
                     closed, phase, crash>>
  BY DEF IInv, Known, Rest, EraseEntry, idVars
<1>1. /\ \A j : Look(sessions', j) = IF j = idOf[m] THEN Null ELSE Look(sessions, j)
      /\ DOMAIN sessions' \subseteq DOMAIN sessions
      /\ \A j \in DOMAIN sessions' : sessions'[j] = sessions[j]
      /\ m \in returned /\ m \in 1..made /\ stops[m] > 0
  <2>1. m \in returned /\ m \in 1..made /\ stops[m] > 0
    BY <1>0 DEF Known, CallsKnow
  <2>2. DOMAIN sessions' \subseteq DOMAIN sessions /\ \A j \in DOMAIN sessions' : sessions'[j] = sessions[j]
    BY <1>0 DEF Erase
  <2>3. QED
    BY <1>0, <2>1, <2>2, Lookups
<1>2. Ends' /\ Drawn' /\ OwnEntries'
  BY <1>0, <1>1 DEF Rest, Ends, Drawn, OwnEntries
<1>3. Named'
  <2> SUFFICES ASSUME phase = "up", NEW s \in returned, stops[s] = 0
               PROVE  Look(sessions', idOf[s]) = s \/ Shared(s)
    BY <1>0 DEF Named, Shared
  <2>1. s # m
    BY <1>1
  <2>2. idOf[s] = idOf[m] => Shared(s)
    BY <1>1, <2>1 DEF Shared
  <2>3. QED
    BY <1>0, <1>1, <2>2 DEF Rest, Named
<1>4. TwoStops'
  BY <1>0 DEF Rest, TwoStops
<1>5. Missing'
  <2>1. ASSUME NEW s \in returned, phase = "up", Look(sessions', idOf[s]) = Null
        PROVE  SomeStop(s, returned, idOf, stops)
    <3>1. CASE idOf[s] = idOf[m]
      BY <1>1, <3>1 DEF SomeStop
    <3>2. CASE idOf[s] # idOf[m]
      BY <1>0, <1>1, <2>1, <3>2 DEF Rest, Missing
    <3>3. QED
      BY <3>1, <3>2
  <2>2. ASSUME NEW u \in Threads, phase = "up", pc[u] \in {"deref", "capture"},
               Look(sessions', idOf[cur[u]]) = Null
        PROVE  Elsewhere(cur[u], returned, idOf, stops)
    <3>1. CASE cur[u] = m
      BY <1>0, <2>2, <3>1 DEF Rest, TwoStops, Elsewhere
    <3>2. CASE cur[u] # m /\ idOf[cur[u]] = idOf[m]
      BY <1>1, <3>2 DEF Elsewhere
    <3>3. CASE idOf[cur[u]] # idOf[m]
      BY <1>0, <1>1, <2>2, <3>3 DEF Rest, Missing
    <3>4. QED
      BY <3>1, <3>2, <3>3
  <2>3. QED
    BY <1>0, <2>1, <2>2 DEF Rest, Missing
<1>6. QED
  BY <1>2, <1>3, <1>4, <1>5 DEF Rest

\* The destructor: after stop() nothing is asked of the map.
LEMMA DestroyKeeps ==
  ASSUME IInv, Destroy, Known'
  PROVE  Rest'
<1>0. /\ Rest /\ phase' # "up" /\ pending' \subseteq pending
      /\ UNCHANGED <<made, idOf, returned, overlap, pc, cur, target, stops, running, closed, crash>>
      /\ phase' # "gone" => nextWsId' = nextWsId /\ phase # "gone"
  BY DEF IInv, Rest, Destroy, ClearSessions, DropCallback, JoinWsThreads, EndObject, idVars, stopVars
<1>1. DOMAIN sessions' = {}
  BY DEF IInv, Ends, Destroy, ClearSessions, DropCallback, JoinWsThreads, EndObject
<1>2. Ends'
  <2>1. phase' \in {"joined", "gone"} => pending' = {} /\ running' = {}
    BY DEF IInv, Ends, Destroy, ClearSessions, DropCallback, JoinWsThreads, EndObject, stopVars
  <2>2. QED
    BY <1>1, <2>1 DEF Ends
<1>3. Drawn'
  BY <1>0 DEF Rest, Drawn
<1>4. OwnEntries' /\ Named' /\ TwoStops' /\ Missing'
  BY <1>0, <1>1 DEF Rest, OwnEntries, Named, TwoStops, Missing
<1>5. QED
  BY <1>2, <1>3, <1>4 DEF Rest

\* Every step keeps the invariant.
LEMMA NextKeeps == IInv /\ [Next]_vars => IInv'
<1>1. IInv /\ UNCHANGED vars => IInv'
  BY DEF vars, IInv, Known, TypeOK, CallsKnow, Ends, Drawn, OwnEntries, Named, Shared, TwoStops,
         Missing
<1>2. ASSUME IInv, Next
      PROVE  IInv'
  <2>1. Known'
    BY <1>2, NextKnown DEF IInv
  <2>2. Ended => IInv'
    BY <1>1, <1>2 DEF Ended
  <2>3. Rest' => IInv'
    BY <2>1 DEF Rest, IInv
  <2>4. QED
    BY <1>2, <2>1, <2>2, <2>3, LoadKeeps, StoreKeeps, InsertKeeps, FindKeeps, DerefKeeps,
       CaptureKeeps, TakeKeeps, EraseKeeps, DestroyKeeps DEF Next, Create, Stop
<1>3. QED
  BY <1>1, <1>2

-----------------------------------------------------------------------------
(* Theorems.                                                                 *)

\* The invariant holds, whatever the threads do.
THEOREM Invariant == Spec => []IInv
BY InitIInv, NextKeeps, PTL DEF Spec

\* Types: the map holds sessions or null under ids, for any number of threads.
THEOREM TypeCorrect == Spec => []TypeOK
<1>1. IInv => TypeOK
  BY DEF IInv, Known
<1>2. QED
  BY Invariant, <1>1, PTL

\* Of sessions that share an id, two threads drew ids at once, unless the ids
\* ran out.
THEOREM SharingNeedsOverlap == Spec => []OnlyOverlapShares
<1>1. IInv => OnlyOverlapShares
  <2> SUFFICES ASSUME IInv, NEW s \in 1..made, Shared(s), ~overlap, ~(made >= IdMod)
               PROVE  FALSE
    BY DEF OnlyOverlapShares
  <2>1. made < IdMod
    BY RegistryAssumption DEF IInv, Known, TypeOK
  <2>2. \A u \in 1..made : idOf[u] = u
    BY <2>1 DEF IInv, Drawn
  <2>3. QED
    BY <2>2 DEF Shared
<1>2. QED
  BY Invariant, <1>1, PTL

\* A session that nobody stopped is found under its token, unless its id is
\* another's too.
THEOREM TokensName == Spec => []TokenNamesSession
<1>1. IInv => TokenNamesSession
  BY AtLooks DEF IInv, Named, TokenNamesSession
<1>2. QED
  BY Invariant, <1>1, PTL

\* A stop closes the session whose token it was given, however often tokens are
\* stopped, unless two threads drew ids at once.
THEOREM StopsReachOwn == Spec => []StopReachesOwn
<1>1. IInv => StopReachesOwn
  <2> SUFFICES ASSUME IInv, NEW c \in closed, ~overlap, ~(made >= IdMod)
               PROVE  c.closed = c.meant
    BY DEF StopReachesOwn
  <2>1. made < IdMod
    BY RegistryAssumption DEF IInv, Known, TypeOK
  <2>2. \A u \in 1..made : idOf[u] = u
    BY <2>1 DEF IInv, Drawn
  <2>3. /\ c.closed \in 1..made /\ c.meant \in 1..made
        /\ idOf[c.closed] = idOf[c.meant]
    BY DEF IInv, Known, CallsKnow, OwnEntries
  <2>4. QED
    BY <2>2, <2>3
<1>2. QED
  BY Invariant, <1>1, PTL

\* A null session is followed only by one of several stops of an id.
THEOREM CrashNeedsSecondStop == Spec => []OnlySecondStopCrashes
<1>1. IInv => OnlySecondStopCrashes
  BY DEF IInv, Missing, Elsewhere, OnlySecondStopCrashes
<1>2. QED
  BY Invariant, <1>1, PTL

\* When the io contexts are gone, nothing is left that holds a session.
THEOREM SessionsEnd == Spec => []SessionsEndFirst
<1>1. IInv => SessionsEndFirst
  BY DEF IInv, Ends, SessionsEndFirst
<1>2. QED
  BY Invariant, <1>1, PTL
=============================================================================
