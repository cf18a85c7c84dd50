------------------------ MODULE ServerSessionsProofs ------------------------
(* Theorems about the server, for any number of connections, ids and limits. *)
EXTENDS ServerSessions, FiniteSetTheorems, TLAPS

-----------------------------------------------------------------------------
(* Type correctness. *)

\* The open connections can be counted.
LEMMA OpenFinite == IsFiniteSet(Open)
  <1>1. IsFiniteSet(1 .. Arrivals)
    BY ServerAssumption, FS_Interval
  <1>2. Open \in SUBSET (1 .. Arrivals)
    BY DEF Open, Connections
  <1> QED BY <1>1, <1>2, FS_Subset

\* While a connection is open the counter is positive.
LEMMA OpenCounted ==
  ASSUME SlotsCounted, Open # {}
  PROVE  active_connections \in Nat \ {0}
  BY OpenFinite, FS_CardinalityType, FS_EmptySet DEF SlotsCounted

\* The initial state has the types.
LEMMA InitTyped == Init => TypedInv
  BY ServerAssumption
  DEF Init, TypedInv, TypeOK, RequestInv, Idle, NoRequest, States, None, Connections

\* An eviction or a miss puts a new session in the map and keeps the types.
LEMMA InsertTyped ==
  ASSUME TypedInv, NEW c \in Connections, NEW evicted, request[c].id \in Ids, Insert(c, evicted)
  PROVE  /\ DOMAIN sessions' \subseteq Ids
         /\ \A id \in DOMAIN sessions' : sessions'[id] \in Connections
         /\ arc' \in [Connections -> Connections \cup {None}]
         /\ last_used' \in [Connections -> Nat]
         /\ clock' \in Nat
         /\ evicted = {} => DOMAIN sessions \subseteq DOMAIN sessions'
  BY DEF Insert, TypedInv, TypeOK

\* The steps of the accept loop keep the types.
LEMMA AcceptLoopTyped == TypedInv /\ AcceptLoop => TypedInv'
  <1> SUFFICES ASSUME TypedInv, AcceptLoop PROVE TypedInv'
    OBVIOUS
  <1> USE DEF TypedInv, TypeOK, RequestInv, config, store, turns, Goto, Idle, States
  <1>1. ASSUME NEW c \in Connections, Accept(c) PROVE TypedInv'
    BY <1>1 DEF Accept
  <1>2. CASE LoadCount
    <2>1. acceptor' \in [pc : {"accept", "load", "exchange", "inline"},
                         stream : Connections \cup {None}, current : Nat]
      <3>1. CASE acceptor' = Idle
        BY <3>1 DEF None
      <3>2. CASE acceptor' = [acceptor EXCEPT !.pc = "exchange", !.current = active_connections]
        BY <3>2
      <3> QED BY <1>2, <3>1, <3>2 DEF LoadCount
    <2>2. pc' \in [Connections -> States]
      BY <1>2 DEF LoadCount
    <2>3. \A c \in Connections : pc'[c] \in {"lookup", "scan"} => pc[c] \in {"lookup", "scan"}
      BY <1>2 DEF LoadCount
    <2> QED BY <1>2, <2>1, <2>2, <2>3 DEF LoadCount
  <1>3. CASE Exchange
    BY <1>3 DEF Exchange, None
  <1> QED BY <1>1, <1>2, <1>3 DEF AcceptLoop

\* So do the steps of a connection's thread.
LEMMA ThreadTyped ==
  ASSUME TypedInv, AcceptorInv, SlotsCounted, NEW c \in Connections, Read(c) \/ Turn(c)
  PROVE  TypedInv'
  <1> USE DEF TypedInv, TypeOK, RequestInv, config, slots, store, turns, Goto, States
  <1>1. CASE AnswerDirectly(c)
    BY <1>1 DEF AnswerDirectly
  <1>2. ASSUME NEW id \in Ids \cup {NoId}, NEW thinking \in BOOLEAN, ReadRequest(c, id, thinking)
        PROVE  TypedInv'
    BY <1>2 DEF ReadRequest, TurnStarts
  <1>3. CASE LookupHit(c)
    BY <1>3 DEF LookupHit
  <1>4. CASE LookupMiss(c)
    <2>1. request[c].id \in Ids /\ Insert(c, {})
      BY <1>4 DEF LookupMiss
    <2>2. DOMAIN sessions \subseteq DOMAIN sessions'
      BY <2>1, InsertTyped
    <2> QED BY <1>4, <2>1, <2>2, InsertTyped DEF LookupMiss
  <1>5. CASE BeginScan(c)
    BY <1>5 DEF BeginScan
  <1>6. ASSUME NEW id \in Ids, ScanSession(c, id) PROVE TypedInv'
    <2>1. sessions[id] \in Connections /\ last_used[sessions[id]] \in Nat
      BY <1>6 DEF ScanSession
    <2>2. DOMAIN seen' \subseteq DOMAIN sessions
      BY <1>6 DEF ScanSession
    <2>3. \A i \in DOMAIN seen' : seen'[i] \in Nat
      BY <1>6, <2>1 DEF ScanSession
    <2> QED BY <1>6, <2>2, <2>3 DEF ScanSession
  <1>7. ASSUME NEW id \in Ids, Evict(c, id) PROVE TypedInv'
    <2>1. request[c].id \in Ids /\ Insert(c, {id})
      BY <1>7 DEF Evict
    <2>2. /\ DOMAIN sessions' \subseteq Ids
          /\ \A i \in DOMAIN sessions' : sessions'[i] \in Connections
          /\ arc' \in [Connections -> Connections \cup {None}]
          /\ last_used' \in [Connections -> Nat] /\ clock' \in Nat
      BY <2>1, InsertTyped
    <2> QED BY <1>7, <2>2 DEF Evict
  <1>8. CASE LockSession(c)
    <2>1. session_lock' \in [Connections -> Connections \cup {None}]
      BY <1>8 DEF LockSession
    <2>2. PICK next \in {"unlock", "think", "begin"} : Goto(c, next)
      BY <1>8 DEF LockSession, TurnStarts
    <2>3. pc' \in [Connections -> States] /\ request' = request
      BY <1>8, <2>2 DEF LockSession
    <2>4. RequestInv'
      BY <2>2, <2>3
    <2> QED BY <1>8, <2>1, <2>3, <2>4 DEF LockSession
  <1>9. CASE BeginThinking(c)
    BY <1>9 DEF BeginThinking
  <1>10. CASE EndThinking(c)
    BY <1>10 DEF EndThinking
  <1>11. CASE BeginGeneration(c)
    BY <1>11 DEF BeginGeneration
  <1>12. CASE EndGeneration(c)
    BY <1>12 DEF EndGeneration
  <1>13. CASE UnlockSession(c)
    BY <1>13 DEF UnlockSession
  <1>14. CASE Close(c)
    <2>1. active_connections - 1 \in Nat
      BY <1>14, OpenCounted DEF Close, Open
    <2>2. acceptor' \in [pc : {"accept", "load", "exchange", "inline"},
                         stream : Connections \cup {None}, current : Nat]
      <3>1. CASE acceptor' = Idle
        BY <3>1 DEF None, Idle
      <3>2. CASE acceptor' = acceptor
        BY <3>2
      <3> QED BY <1>14, <3>1, <3>2 DEF Close
    <2>3. request' \in [Connections -> [id : Ids \cup {NoId}, thinking : BOOLEAN]]
      BY <1>14 DEF Close, NoRequest
    <2>4. pc' \in [Connections -> States] /\ RequestInv'
      BY <1>14, <2>3 DEF Close
    <2> QED BY <1>14, <2>1, <2>2, <2>3, <2>4 DEF Close
  <1> QED BY <1>1, <1>2, <1>3, <1>4, <1>5, <1>6, <1>7, <1>8, <1>9, <1>10, <1>11, <1>12, <1>13, <1>14
          DEF Read, Turn

-----------------------------------------------------------------------------
(* The connection slots. *)

\* The states of a connection that holds a guard.
Inside == States \ {"arriving", "accepted", "rejected", "closed"}

\* A thread's step before it closes leaves the slots alone and the connection open.
LEMMA ThreadSlots ==
  ASSUME NEW c \in Connections, Read(c) \/ Turn(c), ~Close(c)
  PROVE  /\ UNCHANGED <<config, slots>>
         /\ pc[c] \in Inside
         /\ \E st \in Inside : pc' = pc \/ Goto(c, st)
  <1> USE DEF config, slots, store, turns, Inside, States
  <1>1. CASE Read(c)
    BY <1>1 DEF Read, AnswerDirectly, ReadRequest, TurnStarts, Goto
  <1>2. CASE LookupHit(c) \/ LookupMiss(c) \/ BeginScan(c)
    BY <1>2 DEF LookupHit, LookupMiss, BeginScan
  <1>3. CASE \E id \in Ids : ScanSession(c, id) \/ Evict(c, id)
    BY <1>3 DEF ScanSession, Evict
  <1>4. CASE LockSession(c) \/ BeginThinking(c) \/ EndThinking(c)
    BY <1>4 DEF LockSession, BeginThinking, EndThinking, TurnStarts
  <1>5. CASE BeginGeneration(c) \/ EndGeneration(c) \/ UnlockSession(c)
    BY <1>5 DEF BeginGeneration, EndGeneration, UnlockSession
  <1> QED BY <1>1, <1>2, <1>3, <1>4, <1>5 DEF Turn

\* Every step keeps the counter equal to the number of open connections.
LEMMA NextSlots ==
  TypedInv /\ AcceptorInv /\ SlotsCounted /\ [Next]_vars => AcceptorInv' /\ SlotsCounted'
  <1> SUFFICES ASSUME TypedInv, AcceptorInv, SlotsCounted, [Next]_vars
               PROVE  AcceptorInv' /\ SlotsCounted'
    OBVIOUS
  <1>0. /\ pc \in [Connections -> States] /\ active_connections \in Nat
        /\ max_connections \in Nat \ {0}
        /\ Cardinality(Open) \in Nat /\ IsFiniteSet(Open)
    BY ServerAssumption, OpenFinite, FS_CardinalityType DEF TypedInv, TypeOK
  <1>1. ASSUME NEW c \in Connections, Accept(c) PROVE AcceptorInv' /\ SlotsCounted'
    <2>1. Open' = Open
      BY <1>0, <1>1 DEF Accept, Goto, Open
    <2>2. AcceptorInv'
      BY <1>0, <1>1 DEF Accept, Goto, AcceptorInv, Idle, config
    <2> QED BY <1>1, <2>1, <2>2 DEF Accept, SlotsCounted, config
  <1>2. CASE LoadCount
    <2>1. Open' = Open
      BY <1>0, <1>2 DEF LoadCount, Goto, Open, AcceptorInv
    <2>2. CASE active_connections >= max_connections
      BY <1>0, <1>2, <2>1, <2>2 DEF LoadCount, AcceptorInv, SlotsCounted, Idle, config
    <2>3. CASE active_connections < max_connections
      <3>1. acceptor' = [acceptor EXCEPT !.pc = "exchange", !.current = active_connections]
            /\ pc' = pc
        BY <1>0, <1>2, <2>3 DEF LoadCount
      <3>2. acceptor'.pc = "exchange" /\ acceptor'.stream = acceptor.stream
            /\ acceptor'.current = active_connections
        BY <3>1 DEF TypedInv, TypeOK
      <3> QED BY <1>2, <2>1, <2>3, <3>1, <3>2 DEF LoadCount, AcceptorInv, SlotsCounted, config
    <2> QED BY <1>0, <2>2, <2>3
  <1>3. CASE Exchange
    <2>1. CASE active_connections = acceptor.current
      <3>1. /\ acceptor.stream \in Connections /\ pc[acceptor.stream] = "accepted"
            /\ active_connections < max_connections
            /\ pc' = [pc EXCEPT ![acceptor.stream] = "reading"]
            /\ active_connections' = active_connections + 1 /\ max_connections' = max_connections
            /\ acceptor'.pc \in {"inline", "accept"}
        BY <1>3, <2>1 DEF Exchange, AcceptorInv, Goto, Idle, config, TypedInv, TypeOK
      <3>2. Open' = Open \cup {acceptor.stream} /\ acceptor.stream \notin Open
        BY <1>0, <3>1 DEF Open
      <3>3. Cardinality(Open') = Cardinality(Open) + 1
        BY <1>0, <3>2, FS_AddElement
      <3> QED BY <1>0, <3>1, <3>3 DEF AcceptorInv, SlotsCounted
    <2>2. CASE active_connections # acceptor.current
      <3>1. acceptor' = [acceptor EXCEPT !.pc = "load"] /\ pc' = pc
            /\ UNCHANGED <<active_connections, max_connections>>
        BY <1>3, <2>2 DEF Exchange, config
      <3>2. acceptor'.pc = "load" /\ acceptor'.stream = acceptor.stream
        BY <3>1 DEF TypedInv, TypeOK
      <3> QED BY <1>3, <3>1, <3>2 DEF Exchange, AcceptorInv, SlotsCounted, Open
    <2> QED BY <2>1, <2>2
  <1>4. ASSUME NEW c \in Connections, Close(c) PROVE AcceptorInv' /\ SlotsCounted'
    <2>1. c \in Open /\ Open' = Open \ {c}
      BY <1>0, <1>4 DEF Close, Goto, Open
    <2>2. Cardinality(Open') = Cardinality(Open) - 1
      BY <1>0, <2>1, FS_RemoveElement
    <2>3. SlotsCounted'
      BY <1>0, <1>4, <2>2 DEF Close, SlotsCounted, config
    <2>4. AcceptorInv'
      BY <1>0, <1>4 DEF Close, Goto, AcceptorInv, Idle, config
    <2> QED BY <2>3, <2>4
  <1>5. ASSUME NEW c \in Connections, Read(c) \/ Turn(c), ~Close(c)
        PROVE  AcceptorInv' /\ SlotsCounted'
    <2>1. PICK st \in Inside : pc' = pc \/ Goto(c, st)
      BY <1>5, ThreadSlots
    <2>2. UNCHANGED <<config, slots>> /\ pc[c] \in Inside
      BY <1>5, ThreadSlots
    <2>3. Open' = Open
      BY <1>0, <2>1, <2>2 DEF Goto, Open, Inside
    <2>4. AcceptorInv'
      BY <1>0, <2>1, <2>2 DEF Goto, AcceptorInv, Inside, config, slots
    <2> QED BY <2>2, <2>3, <2>4 DEF SlotsCounted, config, slots
  <1>6. CASE UNCHANGED vars
    BY <1>6 DEF vars, config, slots, AcceptorInv, SlotsCounted, Open
  <1> QED BY <1>1, <1>2, <1>3, <1>4, <1>5, <1>6 DEF Next, AcceptLoop, Wait

-----------------------------------------------------------------------------
(* The session store. *)

Bookkeeping == MapInv /\ StoreInv /\ ClockInv

\* Where a new session is made its conversation is not in the store.
LEMMA MadeWhenUnknown ==
  ASSUME TypedInv, MapInv, NEW c \in Connections,
         LookupMiss(c) \/ \E id \in Ids : Evict(c, id)
  PROVE  /\ request[c].id \in Ids \ DOMAIN sessions
         /\ pc[c] \in BeforeLookup
         /\ pc' = [pc EXCEPT ![c] = "lock_session"]
         /\ map_lock' = None /\ DOMAIN seen' = {}
         /\ UNCHANGED <<config, request>>
  <1>1. CASE LookupMiss(c)
    BY <1>1 DEF LookupMiss, Goto, MapFree, TypedInv, RequestInv, MapInv, BeforeLookup
  <1>2. ASSUME NEW id \in Ids, Evict(c, id)
        PROVE  /\ request[c].id \in Ids \ DOMAIN sessions
               /\ pc[c] \in BeforeLookup
               /\ pc' = [pc EXCEPT ![c] = "lock_session"]
               /\ map_lock' = None /\ DOMAIN seen' = {}
               /\ UNCHANGED <<config, request>>
    <2>1. map_lock = c /\ c # None
      BY <1>2, ServerAssumption DEF Evict, MapInv, Connections, None
    <2> QED BY <1>2, <2>1 DEF Evict, Goto, TypedInv, RequestInv, MapInv, BeforeLookup
  <1> QED BY <1>1, <1>2

\* A new session keeps the store's size, owners and times in order.
LEMMA InsertKeeps ==
  ASSUME TypedInv, MapInv, StoreInv, ClockInv, NEW c \in Connections,
         LookupMiss(c) \/ \E id \in Ids : Evict(c, id)
  PROVE  Bookkeeping'
  <1> DEFINE key == request[c].id
  <1>1. /\ key \in Ids /\ key \notin DOMAIN sessions
        /\ pc[c] \in BeforeLookup /\ pc' = [pc EXCEPT ![c] = "lock_session"]
        /\ map_lock' = None /\ DOMAIN seen' = {}
        /\ max_sessions' = max_sessions
    BY MadeWhenUnknown DEF config
  <1>2. PICK evicted : /\ evicted \subseteq DOMAIN sessions
                       /\ Insert(c, evicted)
                       /\ Cardinality(DOMAIN sessions \ evicted) < max_sessions
                       /\ IsFiniteSet(DOMAIN sessions \ evicted)
    <2>1. CASE LookupMiss(c)
      <3>1. Cardinality(DOMAIN sessions) \in Nat /\ max_sessions \in Nat
        BY ServerAssumption, FS_CardinalityType DEF StoreInv, TypedInv, TypeOK
      <3>2. DOMAIN sessions \ {} = DOMAIN sessions
        OBVIOUS
      <3>3. /\ {} \subseteq DOMAIN sessions /\ Insert(c, {})
            /\ Cardinality(DOMAIN sessions \ {}) < max_sessions
            /\ IsFiniteSet(DOMAIN sessions \ {})
        BY <2>1, <3>1, <3>2 DEF LookupMiss, StoreFull, StoreInv
      <3> QED BY <3>3
    <2>2. ASSUME NEW id \in Ids, Evict(c, id)
          PROVE  /\ {id} \subseteq DOMAIN sessions
                 /\ Insert(c, {id})
                 /\ Cardinality(DOMAIN sessions \ {id}) < max_sessions
                 /\ IsFiniteSet(DOMAIN sessions \ {id})
      <3>1. id \in DOMAIN sessions /\ IsFiniteSet(DOMAIN sessions)
        BY <2>2 DEF Evict, StoreInv
      <3>2. /\ Cardinality(DOMAIN sessions) \in Nat /\ max_sessions \in Nat
            /\ Cardinality(DOMAIN sessions) <= max_sessions
        BY ServerAssumption, FS_CardinalityType DEF StoreInv, TypedInv, TypeOK
      <3>3. /\ Cardinality(DOMAIN sessions \ {id}) = Cardinality(DOMAIN sessions) - 1
            /\ IsFiniteSet(DOMAIN sessions \ {id})
        BY <3>1, FS_RemoveElement
      <3> QED BY <2>2, <3>1, <3>2, <3>3 DEF Evict
    <2> QED BY <2>1, <2>2
  <1>3. /\ DOMAIN sessions' = (DOMAIN sessions \ evicted) \cup {key}
        /\ sessions'[key] = c
        /\ \A id \in DOMAIN sessions \ evicted : sessions'[id] = sessions[id]
    BY <1>1, <1>2 DEF Insert
  <1>4. /\ Cardinality(DOMAIN sessions') <= max_sessions
        /\ IsFiniteSet(DOMAIN sessions')
    <2> DEFINE kept == DOMAIN sessions \ evicted
    <2>1. /\ Cardinality(kept \cup {key}) = Cardinality(kept) + 1
          /\ IsFiniteSet(kept \cup {key}) /\ Cardinality(kept) \in Nat
      BY <1>1, <1>2, FS_AddElement, FS_CardinalityType
    <2> QED BY <1>2, <1>3, <2>1, ServerAssumption DEF TypedInv, TypeOK
  <1>5. \A id \in DOMAIN sessions : sessions[id] # c /\ sessions[id] \in Connections
    BY <1>1 DEF StoreInv, TypedInv, TypeOK
  <1>6. StoreInv'
    BY <1>1, <1>3, <1>4, <1>5 DEF StoreInv, BeforeLookup, TypedInv, TypeOK
  <1>7. MapInv'
    <2>1. \A d \in Connections : pc'[d] # "scan"
      <3>1. \A d \in Connections : d # c => pc[d] # "scan"
        <4>1. CASE LookupMiss(c)
          BY <4>1, ServerAssumption DEF LookupMiss, MapFree, MapInv, Connections, None
        <4>2. CASE \E id \in Ids : Evict(c, id)
          BY <4>2 DEF Evict, MapInv
        <4> QED BY <4>1, <4>2
      <3> QED BY <1>1, <3>1 DEF TypedInv, TypeOK
    <2> QED BY <1>1, <2>1, ServerAssumption DEF MapInv, Connections, None
  <1>8. ClockInv'
    BY <1>1, <1>2 DEF ClockInv, Insert, TypedInv, TypeOK
  <1> QED BY <1>6, <1>7, <1>8 DEF Bookkeeping

\* What the other steps of a thread do to the store.
LEMMA ThreadStore ==
  ASSUME TypedInv, NEW c \in Connections, Read(c) \/ Turn(c),
         ~LookupMiss(c), ~BeginScan(c),
         \A id \in Ids : ~ScanSession(c, id) /\ ~Evict(c, id)
  PROVE  /\ UNCHANGED <<config, store>>
         /\ pc[c] # "scan"
         /\ Goto(c, pc'[c])
         /\ pc'[c] \in BeforeLookup => pc'[c] = "lookup" /\ pc[c] = "reading"
         /\ \A d \in Connections : d # c => request'[d] = request[d]
         /\ clock' \in Nat /\ clock <= clock'
         /\ \A s \in Connections : last_used[s] < clock =>
              last_used[s] <= last_used'[s] /\ last_used'[s] < clock'
  <1> USE DEF Goto, config, slots, store, turns, States, BeforeLookup, TypedInv, TypeOK
  <1>1. CASE Read(c)
    BY <1>1 DEF Read, AnswerDirectly, ReadRequest, TurnStarts
  <1>2. CASE LookupHit(c) \/ LockSession(c)
    BY <1>2 DEF LookupHit, LockSession, TurnStarts
  <1>3. CASE BeginThinking(c) \/ EndThinking(c) \/ EndGeneration(c) \/ UnlockSession(c)
    BY <1>3 DEF BeginThinking, EndThinking, EndGeneration, UnlockSession
  <1>4. CASE BeginGeneration(c)
    BY <1>4 DEF BeginGeneration
  <1>5. CASE Close(c)
    BY <1>5 DEF Close
  <1> QED BY <1>1, <1>2, <1>3, <1>4, <1>5 DEF Turn

\* Those steps keep the type of the times.
LEMMA ThreadLastUsed ==
  ASSUME TypedInv, NEW c \in Connections, Read(c) \/ Turn(c),
         ~LookupMiss(c), \A id \in Ids : ~Evict(c, id)
  PROVE  last_used' \in [Connections -> Nat]
  BY DEF Read, AnswerDirectly, ReadRequest, Turn, LookupHit, BeginScan, ScanSession, LockSession,
         BeginThinking, EndThinking, BeginGeneration, EndGeneration, UnlockSession, Close,
         turns, TypedInv, TypeOK

\* Only a new session changes the map.
LEMMA OnlyInsertChanges ==
  ASSUME TypedInv, Next, \A c \in Connections : ~LookupMiss(c) /\ \A id \in Ids : ~Evict(c, id)
  PROVE  sessions' = sessions
  <1>1. CASE AcceptLoop \/ Wait
    BY <1>1 DEF AcceptLoop, Accept, LoadCount, Exchange, Wait, vars, store
  <1>2. ASSUME NEW c \in Connections, BeginScan(c) PROVE sessions' = sessions
    BY <1>2 DEF BeginScan
  <1>3. ASSUME NEW c \in Connections, NEW id \in Ids, ScanSession(c, id) PROVE sessions' = sessions
    BY <1>3 DEF ScanSession
  <1>4. ASSUME NEW c \in Connections, Read(c) \/ Turn(c), ~LookupMiss(c), ~BeginScan(c),
               \A id \in Ids : ~ScanSession(c, id) /\ ~Evict(c, id)
        PROVE  sessions' = sessions
    BY <1>4, ThreadStore DEF store
  <1> QED BY <1>1, <1>2, <1>3, <1>4 DEF Next

\* Every step keeps the bookkeeping of the store.
LEMMA NextStore ==
  TypedInv /\ AcceptorInv /\ Bookkeeping /\ [Next]_vars => Bookkeeping'
  <1> SUFFICES ASSUME TypedInv, AcceptorInv, MapInv, StoreInv, ClockInv, [Next]_vars
               PROVE  Bookkeeping'
    BY DEF Bookkeeping
  <1>0. /\ pc \in [Connections -> States] /\ None \notin Connections
        /\ DOMAIN seen \subseteq DOMAIN sessions
        /\ \A id \in DOMAIN sessions : sessions[id] \in Connections
        /\ last_used \in [Connections -> Nat] /\ clock \in Nat
    BY ServerAssumption DEF TypedInv, TypeOK, Connections, None
  <1>1. CASE AcceptLoop
    <2>1. UNCHANGED <<config, store, turns, request>>
      BY <1>1 DEF AcceptLoop, Accept, LoadCount, Exchange
    <2>2. \A d \in Connections :
            \/ pc'[d] = pc[d]
            \/ pc[d] \in {"arriving", "accepted"} /\ pc'[d] \in {"accepted", "rejected", "reading"}
      <3>0. acceptor.pc \in {"load", "exchange"} =>
              acceptor.stream \in Connections /\ pc[acceptor.stream] = "accepted"
        BY DEF AcceptorInv
      <3> SUFFICES ASSUME NEW d \in Connections
                   PROVE  \/ pc'[d] = pc[d]
                          \/ /\ pc[d] \in {"arriving", "accepted"}
                             /\ pc'[d] \in {"accepted", "rejected", "reading"}
        OBVIOUS
      <3>1. ASSUME NEW c \in Connections, Accept(c)
            PROVE  pc'[d] = pc[d] \/ (pc[d] = "arriving" /\ pc'[d] = "accepted")
        BY <1>0, <3>1 DEF Accept, Goto
      <3>2. ASSUME LoadCount
            PROVE  pc'[d] = pc[d] \/ (pc[d] = "accepted" /\ pc'[d] = "rejected")
        BY <1>0, <3>0, <3>2 DEF LoadCount, Goto
      <3>3. ASSUME Exchange
            PROVE  pc'[d] = pc[d] \/ (pc[d] = "accepted" /\ pc'[d] = "reading")
        BY <1>0, <3>0, <3>3 DEF Exchange, Goto
      <3> QED BY <1>1, <3>1, <3>2, <3>3 DEF AcceptLoop
    <2>3. MapInv'
      BY <2>1, <2>2 DEF MapInv, store
    <2>4. StoreInv'
      BY <1>0, <2>1, <2>2 DEF StoreInv, BeforeLookup, store, config
    <2> QED BY <2>1, <2>3, <2>4 DEF Bookkeeping, ClockInv, store, turns
  <1>2. ASSUME NEW c \in Connections, LookupMiss(c) \/ \E id \in Ids : Evict(c, id)
        PROVE  Bookkeeping'
    BY <1>2, InsertKeeps
  <1>3. ASSUME NEW c \in Connections, BeginScan(c) PROVE Bookkeeping'
    <2>1. MapInv'
      BY <1>0, <1>3 DEF BeginScan, Goto, MapFree, MapInv
    <2>2. StoreInv'
      BY <1>0, <1>3 DEF BeginScan, Goto, StoreInv, BeforeLookup, config
    <2> QED BY <1>3, <2>1, <2>2 DEF BeginScan, Bookkeeping, ClockInv, turns
  <1>4. ASSUME NEW c \in Connections, NEW id \in Ids, ScanSession(c, id) PROVE Bookkeeping'
    <2>1. MapInv'
      BY <1>0, <1>4 DEF ScanSession, MapInv
    <2>2. StoreInv'
      BY <1>4 DEF ScanSession, StoreInv, config
    <2>3. ClockInv'
      BY <1>0, <1>4 DEF ScanSession, ClockInv, turns
    <2> QED BY <2>1, <2>2, <2>3 DEF Bookkeeping
  <1>5. ASSUME NEW c \in Connections, Read(c) \/ Turn(c),
               ~LookupMiss(c), ~BeginScan(c),
               \A id \in Ids : ~ScanSession(c, id) /\ ~Evict(c, id)
        PROVE  Bookkeeping'
    <2>1. /\ UNCHANGED <<config, store>>
          /\ pc[c] # "scan"
          /\ Goto(c, pc'[c])
          /\ pc'[c] \in BeforeLookup => pc'[c] = "lookup" /\ pc[c] = "reading"
          /\ \A d \in Connections : d # c => request'[d] = request[d]
      BY <1>5, ThreadStore
    <2>2. /\ clock' \in Nat /\ clock <= clock'
          /\ \A s \in Connections : last_used[s] < clock =>
               last_used[s] <= last_used'[s] /\ last_used'[s] < clock'
      BY <1>5, ThreadStore
    <2>3. MapInv'
      <3>1. pc'[c] # "scan" /\ map_lock # c
        BY <2>1 DEF MapInv, BeforeLookup
      <3>2. \A d \in Connections : pc'[d] = "scan" <=> map_lock' = d
        BY <1>0, <2>1, <3>1 DEF MapInv, Goto, store
      <3>3. map_lock \in Connections \cup {None}
        BY DEF TypedInv, TypeOK
      <3>4. map_lock # None => request'[map_lock] = request[map_lock]
        BY <2>1, <3>1, <3>3
      <3> QED BY <2>1, <3>2, <3>4 DEF MapInv, store
    <2>4. StoreInv'
      BY <1>0, <2>1 DEF StoreInv, BeforeLookup, Goto, store, config
    <2>5. ClockInv'
      <3>1. \A s \in Connections : last_used[s] <= last_used'[s] /\ last_used'[s] < clock'
        BY <2>2 DEF ClockInv
      <3>2. last_used' \in [Connections -> Nat]
        BY <1>5, ThreadLastUsed
      <3>3. \A id \in DOMAIN seen : seen[id] \in Nat /\ sessions[id] \in Connections
        BY <1>0 DEF TypedInv, TypeOK
      <3> QED BY <1>0, <2>1, <3>1, <3>2, <3>3 DEF ClockInv, store
    <2> QED BY <2>3, <2>4, <2>5 DEF Bookkeeping
  <1>6. CASE UNCHANGED vars
    BY <1>6 DEF vars, config, store, turns, Bookkeeping, MapInv, StoreInv, ClockInv
  <1> QED BY <1>1, <1>2, <1>3, <1>4, <1>5, <1>6 DEF Next, Wait

-----------------------------------------------------------------------------
(* The theorems. *)

\* The inductive invariant of the server.
LEMMA ServerCorrect == Spec => []ServerInv
  <1>1. Init => ServerInv
    <2> SUFFICES ASSUME Init PROVE ServerInv
      OBVIOUS
    <2>1. SlotsCounted
      <3>1. Open = {}
        BY DEF Init, Open
      <3> QED BY <3>1, FS_EmptySet, ServerAssumption DEF Init, SlotsCounted
    <2>2. MapInv /\ ClockInv
      BY ServerAssumption DEF Init, MapInv, ClockInv, Connections, None
    <2>3. StoreInv
      <3>1. DOMAIN sessions = {} /\ max_sessions \in Nat
        BY ServerAssumption DEF Init
      <3> QED BY <3>1, FS_EmptySet DEF StoreInv
    <2>4. AcceptorInv
      BY DEF Init, AcceptorInv, Idle
    <2> QED BY <2>1, <2>2, <2>3, <2>4, InitTyped DEF ServerInv
  <1>2. ServerInv /\ [Next]_vars => ServerInv'
    <2> SUFFICES ASSUME ServerInv, [Next]_vars PROVE ServerInv'
      OBVIOUS
    <2>1. TypedInv'
      <3>1. CASE UNCHANGED vars
        BY <3>1 DEF ServerInv, vars, config, slots, store, turns, TypedInv, TypeOK, RequestInv
      <3> QED BY <3>1, AcceptLoopTyped, ThreadTyped DEF ServerInv, Next, Wait
    <2>2. AcceptorInv' /\ SlotsCounted'
      BY NextSlots DEF ServerInv
    <2>3. Bookkeeping'
      BY NextStore DEF ServerInv, Bookkeeping
    <2> QED BY <2>1, <2>2, <2>3 DEF ServerInv, Bookkeeping
  <1> QED BY <1>1, <1>2, PTL DEF Spec

\* Every variable of the server keeps its type.
THEOREM TypeCorrect == Spec => []TypeOK
  <1>1. ServerInv => TypeOK
    BY DEF ServerInv, TypedInv
  <1> QED BY <1>1, ServerCorrect, PTL

\* try_acquire_connection_slot never loses count of the open connections, and
\* never lets in more than --max-connections.
THEOREM SlotsCorrect == Spec => []SlotsCounted
  <1>1. ServerInv => SlotsCounted
    BY DEF ServerInv
  <1> QED BY <1>1, ServerCorrect, PTL

\* get_or_create never replaces the session of a conversation in the store.
THEOREM StoreCorrect == Spec => StoreKeepsSessions
  <1>1. ServerInv /\ [Next]_vars =>
          [\A id \in DOMAIN sessions \cap DOMAIN sessions' : sessions'[id] = sessions[id]]_vars
    <2> SUFFICES ASSUME ServerInv, Next
                 PROVE  \A id \in DOMAIN sessions \cap DOMAIN sessions' : sessions'[id] = sessions[id]
      OBVIOUS
    <2>1. ASSUME NEW c \in Connections, LookupMiss(c) \/ \E id \in Ids : Evict(c, id)
          PROVE  \A id \in DOMAIN sessions \cap DOMAIN sessions' : sessions'[id] = sessions[id]
      <3>1. request[c].id \notin DOMAIN sessions
        BY <2>1, MadeWhenUnknown DEF ServerInv
      <3>2. \E evicted : Insert(c, evicted)
        BY <2>1 DEF LookupMiss, Evict
      <3> QED BY <3>1, <3>2 DEF Insert
    <2>2. CASE \A c \in Connections : ~LookupMiss(c) /\ \A id \in Ids : ~Evict(c, id)
      BY <2>2, OnlyInsertChanges DEF ServerInv
    <2> QED BY <2>1, <2>2
  <1> QED BY <1>1, ServerCorrect, PTL DEF Spec, StoreKeepsSessions

\* The session get_or_create evicts is the least recently used one of the store
\* unless a turn has started in it since the scan read its time.
THEOREM EvictionCorrect == Spec => EvictsLeastRecentlyUsedAsRead
  <1>1. ServerInv /\ [Next]_vars =>
          [\A id \in DOMAIN sessions \ DOMAIN sessions' :
             \/ last_used[sessions[id]] # seen[id]
             \/ \A other \in DOMAIN sessions :
                  last_used[sessions[id]] <= last_used[sessions[other]]]_vars
    <2> SUFFICES ASSUME ServerInv, Next, NEW id \in DOMAIN sessions \ DOMAIN sessions',
                        last_used[sessions[id]] = seen[id], NEW other \in DOMAIN sessions
                 PROVE  last_used[sessions[id]] <= last_used[sessions[other]]
      OBVIOUS
    <2>0. /\ \A i \in DOMAIN sessions : last_used[sessions[i]] \in Nat
          /\ \A i \in DOMAIN seen : seen[i] \in Nat /\ seen[i] <= last_used[sessions[i]]
      BY DEF ServerInv, TypedInv, TypeOK, ClockInv
    <2>1. ASSUME NEW c \in Connections, NEW victim \in Ids, Evict(c, victim)
          PROVE  last_used[sessions[id]] <= last_used[sessions[other]]
      <3>1. id = victim /\ DOMAIN seen = DOMAIN sessions
        BY <2>1 DEF Evict, Insert
      <3>2. seen[id] <= seen[other]
        BY <2>1, <3>1 DEF Evict, Victim
      <3> QED BY <2>0, <3>1, <3>2
    <2>2. ASSUME NEW c \in Connections, LookupMiss(c) PROVE FALSE
      BY <2>2 DEF LookupMiss, Insert
    <2>3. CASE \A c \in Connections : ~LookupMiss(c) /\ \A i \in Ids : ~Evict(c, i)
      BY <2>3, OnlyInsertChanges DEF ServerInv
    <2> QED BY <2>1, <2>2, <2>3
  <1> QED BY <1>1, ServerCorrect, PTL DEF Spec, EvictsLeastRecentlyUsedAsRead

\* A function has at most as many values as arguments.
LEMMA ValuesCounted ==
  ASSUME NEW f, NEW S, IsFiniteSet(S)
  PROVE  /\ IsFiniteSet({f[x] : x \in S})
         /\ Cardinality({f[x] : x \in S}) <= Cardinality(S)
  <1> DEFINE T == {f[x] : x \in S}
             g == [x \in S |-> f[x]]
  <1>1. g \in Surjection(S, T)
    BY DEF Surjection
  <1> HIDE DEF g, T
  <1>2. IsFiniteSet(T) /\ Cardinality(T) <= Cardinality(S)
    BY <1>1, FS_Surjection
  <1> QED BY <1>2 DEF T

\* The store never holds more than --max-sessions sessions, nor one for two
\* conversations; with those of running turns there are at most --max-sessions
\* plus one for every open connection.
THEOREM SessionsCorrect == Spec => []LiveSessionsBounded
  <1>1. ServerInv => LiveSessionsBounded
    <2> SUFFICES ASSUME ServerInv PROVE LiveSessionsBounded
      OBVIOUS
    <2> DEFINE stored == {sessions[id] : id \in DOMAIN sessions}
               used   == {arc[c] : c \in Open}
               live   == stored \cup used
    <2>1. /\ IsFiniteSet(DOMAIN sessions)
          /\ Cardinality(DOMAIN sessions) <= max_sessions
          /\ \A i, j \in DOMAIN sessions : sessions[i] = sessions[j] => i = j
          /\ active_connections = Cardinality(Open)
      BY DEF ServerInv, StoreInv, SlotsCounted
    <2>2. max_sessions \in Nat /\ active_connections \in Nat
      BY ServerAssumption DEF ServerInv, TypedInv, TypeOK
    <2>3. IsFiniteSet(stored) /\ Cardinality(stored) <= Cardinality(DOMAIN sessions)
      BY <2>1, ValuesCounted
    <2>4. IsFiniteSet(used) /\ Cardinality(used) <= active_connections
      BY <2>1, OpenFinite, ValuesCounted
    <2> HIDE DEF stored, used
    <2>5. /\ IsFiniteSet(live)
          /\ Cardinality(live) = Cardinality(stored) + Cardinality(used) - Cardinality(stored \cap used)
      BY <2>3, <2>4, FS_Union
    <2>6. IsFiniteSet(stored \cap used)
      BY <2>3, FS_Subset
    <2>7. /\ Cardinality(stored) \in Nat /\ Cardinality(used) \in Nat
          /\ Cardinality(stored \cap used) \in Nat /\ Cardinality(DOMAIN sessions) \in Nat
      BY <2>1, <2>3, <2>4, <2>6, FS_CardinalityType
    <2>8. Cardinality(live) <= max_sessions + active_connections
      BY <2>1, <2>2, <2>3, <2>4, <2>5, <2>7
    <2>9. Cardinality(live \ {None}) <= Cardinality(live) /\ Cardinality(live \ {None}) \in Nat
      <3>1. live \ {None} \in SUBSET live
        OBVIOUS
      <3> QED BY <2>5, <3>1, FS_Subset, FS_CardinalityType
    <2>10. Cardinality(live) \in Nat
      BY <2>5, FS_CardinalityType
    <2>11. Cardinality(live \ {None}) <= max_sessions + active_connections
      BY <2>2, <2>8, <2>9, <2>10
    <2> QED BY <2>1, <2>11 DEF LiveSessionsBounded, stored, used
  <1> QED BY <1>1, ServerCorrect, PTL
=============================================================================
