--------------------------- MODULE ServerSessions ---------------------------
(***************************************************************************)
(* The HTTP server around the one generation it can run at a time:         *)
(* serve and try_acquire_connection_slot of src/src/server.rs, the session *)
(* store of src/src/session.rs, and the locks a turn takes on its way      *)
(* through src/src/runtime.rs.                                             *)
(*                                                                         *)
(* A connection is its number in the order of acceptance.  It is served    *)
(* once and asks for one turn, of a conversation in Ids or stateless       *)
(* (NoId).  Each is a thread; the accept loop is another.                  *)
(* Three locks are involved: the store's map lock, one lock per session,   *)
(* and the generation lock.  A session is named by the connection whose    *)
(* request created it.  Instant::now is a clock that ticks when read.      *)
(*                                                                         *)
(* What a turn does to its session is SessionTurn's subject.  A panic is   *)
(* left out: the release profile aborts the process (src/Cargo.toml:73).   *)
(***************************************************************************)
EXTENDS Integers, FiniteSets

CONSTANTS
  Arrivals,          \* how many connections arrive
  Ids,               \* conversation ids
  NoId,              \* a request without a conversation
  ConnectionLimits,  \* values of --max-connections
  SessionLimits      \* values of --max-sessions

ASSUME ServerAssumption ==
  /\ Arrivals \in Nat
  /\ NoId \notin Ids
  /\ ConnectionLimits \subseteq Nat \ {0}
  /\ SessionLimits \subseteq Nat \ {0}

Connections == 1 .. Arrivals

\* Nobody, or no session.
None == 0

VARIABLES
  max_connections,
  max_sessions,
  acceptor,            \* the accept loop: [pc, stream, current]
  active_connections,
  pc,                  \* per connection
  request,             \* per connection: [id, thinking]
  sessions,            \* the store's map: id -> session
  map_lock,            \* who holds it
  seen,                \* last_used as the eviction scan has read it: id -> time
  arc,                 \* per connection: the session it has a reference to
  session_lock,        \* per session: who holds it
  last_used,           \* per session
  generation_lock,     \* who holds it
  clock

config == <<max_connections, max_sessions>>
slots  == <<acceptor, active_connections>>
store  == <<sessions, map_lock, seen>>
turns  == <<session_lock, last_used, generation_lock, clock>>
vars   == <<config, slots, pc, request, store, arc, turns>>

States == {"arriving", "accepted", "rejected", "reading", "lookup", "scan", "lock_session",
           "think", "thinking", "begin", "generating", "unlock", "respond", "closed"}

Idle == [pc |-> "accept", stream |-> None, current |-> 0]

NoRequest == [id |-> NoId, thinking |-> FALSE]

Init ==
  /\ max_connections \in ConnectionLimits
  /\ max_sessions \in SessionLimits
  /\ acceptor = Idle
  /\ active_connections = 0
  /\ pc = [c \in Connections |-> "arriving"]
  /\ request = [c \in Connections |-> NoRequest]
  /\ sessions = [id \in {} |-> None]
  /\ map_lock = None
  /\ seen = [id \in {} |-> 0]
  /\ arc = [c \in Connections |-> None]
  /\ session_lock = [s \in Connections |-> None]
  /\ last_used = [s \in Connections |-> 0]
  /\ generation_lock = None
  /\ clock = 1

Goto(c, state) == pc' = [pc EXCEPT ![c] = state]

-----------------------------------------------------------------------------
(* The accept loop. *)

\* listener.incoming yields a connection.
Accept(c) ==
  /\ acceptor = Idle
  /\ pc[c] = "arriving"
  /\ \A d \in 1 .. c - 1 : pc[d] # "arriving"
  /\ acceptor' = [acceptor EXCEPT !.pc = "load", !.stream = c]
  /\ Goto(c, "accepted")
  /\ UNCHANGED <<config, active_connections, request, store, arc, turns>>

\* The counter is read; a full server turns the connection away and takes the
\* next: with a 503 on a plain listener, on a TLS listener by closing it only.
LoadCount ==
  /\ acceptor.pc = "load"
  /\ \/ /\ active_connections >= max_connections
        /\ acceptor' = Idle
        /\ Goto(acceptor.stream, "rejected")
     \/ /\ active_connections < max_connections
        /\ acceptor' = [acceptor EXCEPT !.pc = "exchange", !.current = active_connections]
        /\ UNCHANGED pc
  /\ UNCHANGED <<config, active_connections, request, store, arc, turns>>

\* Slip: the new count is stored whatever the counter has become.
ExchangeStoring ==
  /\ acceptor.pc = "exchange"
  /\ active_connections' = acceptor.current + 1
  /\ Goto(acceptor.stream, "reading")
  /\ acceptor' = IF max_connections = 1 THEN [acceptor EXCEPT !.pc = "inline"] ELSE Idle
  /\ UNCHANGED <<config, request, store, arc, turns>>

(***************************************************************************)
(* compare_exchange: on success the connection's thread starts; with one   *)
(* connection allowed it is served on the accept thread instead.  When a   *)
(* connection closed in between, the counter is read again.                *)
(***************************************************************************)
Exchange ==
  /\ acceptor.pc = "exchange"
  /\ \/ /\ active_connections = acceptor.current
        /\ active_connections' = acceptor.current + 1
        /\ Goto(acceptor.stream, "reading")
        /\ acceptor' = IF max_connections = 1 THEN [acceptor EXCEPT !.pc = "inline"] ELSE Idle
     \/ /\ active_connections # acceptor.current
        /\ acceptor' = [acceptor EXCEPT !.pc = "load"]
        /\ UNCHANGED <<active_connections, pc>>
  /\ UNCHANGED <<config, request, store, arc, turns>>

-----------------------------------------------------------------------------
(* A connection's thread: handle_connection. *)

\* The request is unreadable or of a route that does not generate.
AnswerDirectly(c) ==
  /\ pc[c] = "reading"
  /\ Goto(c, "respond")
  /\ UNCHANGED <<config, slots, request, store, arc, turns>>

\* Skills and options are looked at before any generation; either may refuse the turn.
TurnStarts(thinking) == {"unlock", IF thinking THEN "think" ELSE "begin"}

\* A request to generate has been read.
ReadRequest(c, id, thinking) ==
  /\ pc[c] = "reading"
  /\ request' = [request EXCEPT ![c] = [id |-> id, thinking |-> thinking]]
  /\ \E next \in IF id = NoId THEN TurnStarts(thinking) ELSE {"lookup"} : Goto(c, next)
  /\ UNCHANGED <<config, slots, store, arc, turns>>

\* Slip: the map is consulted without its lock.
MapFreeAlways == TRUE

MapFree == map_lock = None

\* The session of the conversation exists: its reference is cloned.
LookupHit(c) ==
  /\ pc[c] = "lookup"
  /\ MapFree
  /\ request[c].id \in DOMAIN sessions
  /\ arc' = [arc EXCEPT ![c] = sessions[request[c].id]]
  /\ Goto(c, "lock_session")
  /\ UNCHANGED <<config, slots, request, store, turns>>

\* Slip: one session too many fits.
StoreFullOneLate == Cardinality(DOMAIN sessions) > max_sessions

StoreFull == Cardinality(DOMAIN sessions) >= max_sessions

\* Replaces the conversations in evicted by a new session, created by c.
Insert(c, evicted) ==
  /\ sessions' = [id \in (DOMAIN sessions \ evicted) \cup {request[c].id} |->
                    IF id = request[c].id THEN c ELSE sessions[id]]
  /\ arc' = [arc EXCEPT ![c] = c]
  /\ last_used' = [last_used EXCEPT ![c] = clock]
  /\ clock' = clock + 1

\* There is none and there is room.
LookupMiss(c) ==
  /\ pc[c] = "lookup"
  /\ MapFree
  /\ request[c].id \notin DOMAIN sessions
  /\ ~StoreFull
  /\ Insert(c, {})
  /\ Goto(c, "lock_session")
  /\ UNCHANGED <<config, slots, request, map_lock, seen, session_lock, generation_lock>>

\* There is none and the store is full: the map stays locked while its sessions are read.
BeginScan(c) ==
  /\ pc[c] = "lookup"
  /\ MapFree
  /\ request[c].id \notin DOMAIN sessions
  /\ StoreFull
  /\ map_lock' = c
  /\ seen' = [id \in {} |-> 0]
  /\ Goto(c, "scan")
  /\ UNCHANGED <<config, slots, request, sessions, arc, turns>>

\* min_by_key locks the sessions one after the other, in the map's order.
ScanSession(c, id) ==
  /\ pc[c] = "scan"
  /\ id \in DOMAIN sessions \ DOMAIN seen
  /\ session_lock[sessions[id]] = None
  /\ seen' = [i \in DOMAIN seen \cup {id} |-> IF i = id THEN last_used[sessions[id]] ELSE seen[i]]
  /\ UNCHANGED <<config, slots, pc, request, sessions, map_lock, arc, turns>>

\* Slip: the most recently used session.
VictimNewest(id) == \A other \in DOMAIN seen : seen[id] >= seen[other]

Victim(id) == \A other \in DOMAIN seen : seen[id] <= seen[other]

\* Slip: what the scan has read is not forgotten.
EvictKeepsScan(c, victim) ==
  /\ pc[c] = "scan"
  /\ DOMAIN seen = DOMAIN sessions
  /\ victim \in DOMAIN seen
  /\ Victim(victim)
  /\ Insert(c, {victim})
  /\ map_lock' = None
  /\ Goto(c, "lock_session")
  /\ UNCHANGED <<config, slots, request, seen, session_lock, generation_lock>>

\* The scan is complete: the least recently used session makes room.
Evict(c, victim) ==
  /\ pc[c] = "scan"
  /\ DOMAIN seen = DOMAIN sessions
  /\ victim \in DOMAIN seen
  /\ Victim(victim)
  /\ Insert(c, {victim})
  /\ map_lock' = None
  /\ seen' = [id \in {} |-> 0]
  /\ Goto(c, "lock_session")
  /\ UNCHANGED <<config, slots, request, session_lock, generation_lock>>

LockSession(c) ==
  /\ pc[c] = "lock_session"
  /\ session_lock[arc[c]] = None
  /\ session_lock' = [session_lock EXCEPT ![arc[c]] = c]
  /\ \E next \in TurnStarts(request[c].thinking) : Goto(c, next)
  /\ UNCHANGED <<config, slots, request, store, arc, last_used, generation_lock, clock>>

\* The thinking pre-pass is a stateless generation of its own.
BeginThinking(c) ==
  /\ pc[c] = "think"
  /\ generation_lock = None
  /\ generation_lock' = c
  /\ Goto(c, "thinking")
  /\ UNCHANGED <<config, slots, request, store, arc, session_lock, last_used, clock>>

\* Slip: the guard of the pre-pass lives on while the turn asks for its own.
EndThinkingKeepsGuard(c) ==
  /\ pc[c] = "thinking"
  /\ Goto(c, "begin")
  /\ UNCHANGED <<config, slots, request, store, arc, turns>>

\* It rewrites the prompt, or fails and the turn with it.
EndThinking(c) ==
  /\ pc[c] = "thinking"
  /\ generation_lock' = None
  /\ \E next \in {"begin", "unlock"} : Goto(c, next)
  /\ UNCHANGED <<config, slots, request, store, arc, session_lock, last_used, clock>>

\* A session is marked as used when its turn starts.
BeginGeneration(c) ==
  /\ pc[c] = "begin"
  /\ generation_lock = None
  /\ generation_lock' = c
  /\ IF arc[c] # None
     THEN /\ last_used' = [last_used EXCEPT ![arc[c]] = clock]
          /\ clock' = clock + 1
     ELSE UNCHANGED <<last_used, clock>>
  /\ Goto(c, "generating")
  /\ UNCHANGED <<config, slots, request, store, arc, session_lock>>

EndGeneration(c) ==
  /\ pc[c] = "generating"
  /\ generation_lock' = None
  /\ Goto(c, "unlock")
  /\ UNCHANGED <<config, slots, request, store, arc, session_lock, last_used, clock>>

\* The session's guard and reference are dropped.
UnlockSession(c) ==
  /\ pc[c] = "unlock"
  /\ session_lock' = [s \in Connections |-> IF session_lock[s] = c THEN None ELSE session_lock[s]]
  /\ arc' = [arc EXCEPT ![c] = None]
  /\ Goto(c, "respond")
  /\ UNCHANGED <<config, slots, request, store, last_used, generation_lock, clock>>

(***************************************************************************)
(* The response is written and ActiveConnectionGuard dropped; an accept    *)
(* loop that served inline goes on.                                        *)
(***************************************************************************)
Close(c) ==
  /\ pc[c] = "respond"
  /\ active_connections' = active_connections - 1
  /\ acceptor' = IF acceptor.pc = "inline" THEN Idle ELSE acceptor
  /\ request' = [request EXCEPT ![c] = NoRequest]
  /\ Goto(c, "closed")
  /\ UNCHANGED <<config, store, arc, turns>>

-----------------------------------------------------------------------------

Served(c) == pc[c] \in {"closed", "rejected"}

\* Every connection is served and the listener waits.
Wait == (\A c \in Connections : Served(c)) /\ UNCHANGED vars

\* What the thread of c does once its request is read.
Turn(c) ==
  \/ LookupHit(c) \/ LookupMiss(c) \/ BeginScan(c)
  \/ \E id \in Ids : ScanSession(c, id) \/ Evict(c, id)
  \/ LockSession(c)
  \/ BeginThinking(c) \/ EndThinking(c)
  \/ BeginGeneration(c) \/ EndGeneration(c)
  \/ UnlockSession(c)
  \/ Close(c)

Read(c) ==
  \/ AnswerDirectly(c)
  \/ \E id \in Ids \cup {NoId}, thinking \in BOOLEAN : ReadRequest(c, id, thinking)

AcceptLoop == (\E c \in Connections : Accept(c)) \/ LoadCount \/ Exchange

Next == AcceptLoop \/ Wait \/ \E c \in Connections : Read(c) \/ Turn(c)

Spec == Init /\ [][Next]_vars

(***************************************************************************)
(* Sockets have timeouts (IO_TIMEOUT), a generation makes at most          *)
(* max_tokens steps, and threads are scheduled.  A lock is granted once it *)
(* stays free: nothing is assumed of a lock that is free time and again.   *)
(***************************************************************************)
Fairness ==
  /\ WF_vars(AcceptLoop)
  /\ \A c \in Connections : WF_vars(Read(c)) /\ WF_vars(Turn(c))

FairSpec == Spec /\ Fairness

-----------------------------------------------------------------------------
(* Properties. *)

TypeOK ==
  /\ max_connections \in ConnectionLimits
  /\ max_sessions \in SessionLimits
  /\ acceptor \in [pc : {"accept", "load", "exchange", "inline"},
                   stream : Connections \cup {None}, current : Nat]
  /\ active_connections \in Nat
  /\ pc \in [Connections -> States]
  /\ request \in [Connections -> [id : Ids \cup {NoId}, thinking : BOOLEAN]]
  /\ DOMAIN sessions \subseteq Ids
  /\ \A id \in DOMAIN sessions : sessions[id] \in Connections
  /\ map_lock \in Connections \cup {None}
  /\ DOMAIN seen \subseteq DOMAIN sessions
  /\ \A id \in DOMAIN seen : seen[id] \in Nat
  /\ arc \in [Connections -> Connections \cup {None}]
  /\ session_lock \in [Connections -> Connections \cup {None}]
  /\ last_used \in [Connections -> Nat]
  /\ generation_lock \in Connections \cup {None}
  /\ clock \in Nat

\* The connections that hold an ActiveConnectionGuard.
Open == {c \in Connections : pc[c] \notin {"arriving", "accepted", "rejected", "closed"}}

(***************************************************************************)
(* The counter of try_acquire_connection_slot counts exactly the open      *)
(* connections, however accepting and closing interleave, and they are     *)
(* never more than --max-connections.                                      *)
(***************************************************************************)
SlotsCounted ==
  /\ active_connections = Cardinality(Open)
  /\ active_connections <= max_connections

(***************************************************************************)
(* The store never holds more than --max-sessions sessions, nor one for    *)
(* two conversations.  An evicted session lives on while a turn uses it,   *)
(* so the KV caches in memory are bounded by both limits together.         *)
(***************************************************************************)
LiveSessionsBounded ==
  /\ Cardinality(DOMAIN sessions) <= max_sessions
  /\ LET live == {sessions[id] : id \in DOMAIN sessions} \cup {arc[c] : c \in Open}
     IN  Cardinality(live \ {None}) <= max_sessions + active_connections
  /\ \A i, j \in DOMAIN sessions : sessions[i] = sessions[j] => i = j

(***************************************************************************)
(* Two racing requests of one conversation end up with the same session:   *)
(* while a conversation is in the store its session is not replaced by     *)
(* another get_or_create.                                                  *)
(***************************************************************************)
StoreKeepsSessions ==
  [][\A id \in DOMAIN sessions \cap DOMAIN sessions' : sessions'[id] = sessions[id]]_vars

(***************************************************************************)
(* Of the sessions in the store the one get_or_create evicts is the least  *)
(* recently used, except that it may have been used since the scan read    *)
(* it: a turn that already holds its reference can start in between.       *)
(***************************************************************************)
EvictsLeastRecentlyUsedAsRead ==
  [][\A id \in DOMAIN sessions \ DOMAIN sessions' :
       \/ last_used[sessions[id]] # seen[id]
       \/ \A other \in DOMAIN sessions : last_used[sessions[id]] <= last_used[sessions[other]]]_vars

(***************************************************************************)
(* Every connection is answered, or turned away when the server is full    *)
(* (see LoadCount): the map lock is held while waiting for a session, a    *)
(* session while waiting for the generation, and no thread waits for a     *)
(* lock it holds itself.                                                   *)
(***************************************************************************)
EveryConnectionAnswered == \A c \in Connections : <>Served(c)

-----------------------------------------------------------------------------
(* The inductive invariants behind SlotsCounted, LiveSessionsBounded and the *)
(* action properties.                                                        *)

\* Where a request's conversation is looked up there is one.
RequestInv == \A c \in Connections : pc[c] \in {"lookup", "scan"} => request[c].id \in Ids

\* The accept loop holds a connection nobody serves yet, and room was seen for it.
AcceptorInv ==
  /\ acceptor.pc \in {"load", "exchange"} =>
       acceptor.stream \in Connections /\ pc[acceptor.stream] = "accepted"
  /\ acceptor.pc = "exchange" => acceptor.current < max_connections

\* Outside a scan the map is free; during one its conversation stays unknown.
MapInv ==
  /\ \A c \in Connections : pc[c] = "scan" <=> map_lock = c
  /\ map_lock = None => DOMAIN seen = {}
  /\ map_lock # None => request[map_lock].id \notin DOMAIN sessions

\* A connection that has not been through get_or_create has made no session.
BeforeLookup == {"arriving", "accepted", "reading", "lookup", "scan"}

StoreInv ==
  /\ IsFiniteSet(DOMAIN sessions)
  /\ Cardinality(DOMAIN sessions) <= max_sessions
  /\ \A id \in DOMAIN sessions : pc[sessions[id]] \notin BeforeLookup
  /\ \A i, j \in DOMAIN sessions : sessions[i] = sessions[j] => i = j

\* Times only grow, so what the scan has read is at most what it would read now.
ClockInv ==
  /\ \A s \in Connections : last_used[s] < clock
  /\ \A id \in DOMAIN seen : seen[id] <= last_used[sessions[id]]

TypedInv == TypeOK /\ RequestInv
ServerInv == TypedInv /\ AcceptorInv /\ SlotsCounted /\ MapInv /\ StoreInv /\ ClockInv
=============================================================================
