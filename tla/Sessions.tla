------------------------------ MODULE Sessions ------------------------------
(***************************************************************************)
(* class SessionManager (mcp-query/src/session/index.ts): one MCPClient    *)
(* per principal, made on demand by the host's create(), drained when it   *)
(* is evicted.  Client c is the c-th that create() was asked for.          *)
(* Bound: MaxClients clients are made.                                     *)
(***************************************************************************)
EXTENDS Naturals

CONSTANTS Principals, MaxClients

ASSUME SessionsAssumption == MaxClients \in Nat \ {0}

Clients == 1 .. MaxClients
NoClient == 0

VARIABLES
  sessions,   \* the map: the client of a principal
  asked,      \* clients asked for so far
  client,     \* what has become of each
  evicting,   \* clients an evict() has taken out of the map and not drained yet
  idle        \* principals whose session has not been used for the TTL

sessionVars == <<sessions, asked, client, evicting, idle>>

SessionsInit ==
  /\ sessions = [p \in Principals |-> NoClient]
  /\ asked = 0
  /\ client = [c \in Clients |-> "none"]
  /\ evicting = {} /\ idle = {}

SessionsTypeOK ==
  /\ sessions \in [Principals -> 0 .. MaxClients]
  /\ asked \in 0 .. MaxClients
  /\ client \in [Clients -> {"none", "creating", "connected", "failed", "drained"}]
  /\ evicting \subseteq Clients
  /\ idle \subseteq Principals

\* get(): one create() for everybody who asks meanwhile.
GetSession(p) ==
  /\ IF sessions[p] # NoClient
     THEN UNCHANGED <<sessions, asked, client>>
     ELSE /\ asked < MaxClients
          /\ asked' = asked + 1
          /\ sessions' = [sessions EXCEPT ![p] = asked + 1]
          /\ client' = [client EXCEPT ![asked + 1] = "creating"]
  /\ idle' = idle \ {p}
  /\ UNCHANGED evicting

\* create() settles; a session that failed keeps its place in the map.
Created(c) ==
  /\ client[c] = "creating"
  /\ \E st \in {"connected", "failed"} : client' = [client EXCEPT ![c] = st]
  /\ UNCHANGED <<sessions, asked, evicting, idle>>

Ages(p) ==
  /\ sessions[p] # NoClient /\ p \notin idle
  /\ idle' = idle \cup {p}
  /\ UNCHANGED <<sessions, asked, client, evicting>>

\* Mutant: only a client that is there already is drained.
Evicted_IfMade(ps) ==
  {sessions[p] : p \in {q \in ps : sessions[q] # NoClient
                                     /\ client[sessions[q]] # "creating"}}

\* The clients that evict() of these principals goes on to await and to drain.
Evicted(ps) == {sessions[p] : p \in ps} \ {NoClient}

Evict(ps) ==
  /\ \E p \in ps : sessions[p] # NoClient
  /\ evicting' = evicting \cup Evicted(ps)
  /\ sessions' = [p \in Principals |-> IF p \in ps THEN NoClient ELSE sessions[p]]
  /\ idle' = idle \ ps
  /\ UNCHANGED <<asked, client>>

EvictOne(p) == Evict({p})
Sweep == Evict(idle)
CloseAll == Evict(Principals)

\* The rest of evict(): the client that has come is drained, one that failed is let go.
DrainEnds(c) ==
  /\ c \in evicting /\ client[c] \in {"connected", "failed"}
  /\ client' = [client EXCEPT ![c] = IF @ = "connected" THEN "drained" ELSE @]
  /\ evicting' = evicting \ {c}
  /\ UNCHANGED <<sessions, asked, idle>>

SessionsNext ==
  \/ \E p \in Principals : GetSession(p) \/ Ages(p) \/ EvictOne(p)
  \/ Sweep \/ CloseAll
  \/ \E c \in Clients : Created(c) \/ DrainEnds(c)

SessionsSpec == SessionsInit /\ [][SessionsNext]_sessionVars

-----------------------------------------------------------------------------
(* Properties                                                              *)

Held(c) == \E p \in Principals : sessions[p] = c

\* No client is lost: one that is being made or is connected can be found under its
\* principal, or an eviction is on its way to drain it, in every interleaving of get(),
\* evict(), sweep() and closeAll() with create() (session/index.ts:31-61).
NoClientLost ==
  \A c \in Clients : client[c] \in {"creating", "connected"} => Held(c) \/ c \in evicting
=============================================================================
