----------------------------- MODULE DaemonPool -----------------------------
(***************************************************************************)
(* The keep-alive daemon's pool of upstream connections, after             *)
(* createHandler() and runDaemon() of packages/cli/src/daemon/server.ts.   *)
(*                                                                         *)
(* Connection number c is the result of the c-th successful connect().     *)
(* A request is one handle() call; its pc names the await it is suspended  *)
(* at.  Time is modelled by what it decides: `stale` holds the connections *)
(* whose lastUsed is older than idleMs, which happens to any connection    *)
(* whose requests do not complete for a while; the idle window of the      *)
(* daemon has passed once two ticks in a row found no upstream.            *)
(* External: connect() succeeds or is refused, a request on an open        *)
(* connection is answered, answered with an error, or lost, and close()    *)
(* settles.  Bounds: MaxConns connections, one tick in progress at a time, *)
(* config.maxFaults losses and refusals.                                   *)
(***************************************************************************)
EXTENDS Naturals, FiniteSets

CONSTANTS
  Requests,   \* concurrent CLI invocations
  Servers,    \* values of serverKey()
  MaxConns,   \* bound on the number of successful connect() calls
  Configs     \* environments considered

\* keyOf: the upstream each invocation asks for; ticks: the eviction timer fires; stops:
\* the daemon may be stopped (stop request, SIGTERM, SIGINT).
ConfigType == [keyOf : [Requests -> Servers], ticks : BOOLEAN, stops : BOOLEAN, maxFaults : Nat]

ASSUME PoolAssumption ==
  /\ IsFiniteSet(Requests) /\ MaxConns \in Nat
  /\ Configs \subseteq ConfigType

Conns == 1 .. MaxConns
Absent == 0
PCs == {"idle", "connecting", "running", "dropping"}

VARIABLES
  config,     \* chosen once
  upstreams,  \* per key: the pooled connection, or Absent
  conn,       \* per connection: none yet, up, lost by the network, closed by the daemon
  made,       \* connections made so far
  stale,      \* connections unused for more than idleMs
  pc, attempt, entry,   \* per request: its await, which run() it is at, the entry it got
  answer,     \* per request: the last answer: an answer of the server, or a transport error
  hits,       \* per request: what has gone wrong under it (history)
  evicting,   \* evictIdle(): the pairs <<key, connection>> it still has to evict
  tick,       \* evictIdle(): off, between two evictions, or awaiting a close()
  emptied,    \* the previous tick found no upstream
  daemon,     \* serving, awaiting closeAll(), or gone
  faults

requestVars == <<pc, attempt, entry, answer>>
tickVars == <<evicting, tick, emptied>>
vars == <<config, upstreams, conn, made, stale, requestVars, hits, tickVars, daemon, faults>>

Init ==
  /\ config \in Configs
  /\ upstreams = [k \in Servers |-> Absent]
  /\ conn = [c \in Conns |-> "none"]
  /\ made = 0
  /\ stale = {}
  /\ pc = [r \in Requests |-> "idle"]
  /\ attempt = [r \in Requests |-> 1]
  /\ entry = [r \in Requests |-> Absent]
  /\ answer = [r \in Requests |-> "none"]
  /\ hits = [r \in Requests |-> 0]
  /\ evicting = {} /\ tick = "off" /\ emptied = TRUE
  /\ daemon = "up"
  /\ faults = 0

key(r) == config.keyOf[r]

Fault == faults < config.maxFaults /\ faults' = faults + 1

\* Something goes wrong under the requests rs.  (Two hits are as bad as more.)
Hit(rs) == hits' = [r \in Requests |-> IF r \in rs /\ hits[r] < 2 THEN hits[r] + 1 ELSE hits[r]]
UsersOf(c) == {r \in Requests : pc[r] = "running" /\ entry[r] = c}

\* getUpstream(): the pooled entry if there is one, otherwise connect.
GetUpstream(r, n) ==
  /\ attempt' = [attempt EXCEPT ![r] = n]
  /\ entry' = [entry EXCEPT ![r] = upstreams[key(r)]]
  /\ pc' = [pc EXCEPT ![r] = IF upstreams[key(r)] = Absent THEN "connecting" ELSE "running"]

Answers(r, a) ==
  /\ pc' = [pc EXCEPT ![r] = "idle"]
  /\ attempt' = [attempt EXCEPT ![r] = 1]
  /\ entry' = [entry EXCEPT ![r] = Absent]
  /\ answer' = [answer EXCEPT ![r] = a]

DropUpstream_KeepsEntry(k) ==        \* mutant: the entry stays in the map
  /\ conn' = IF upstreams[k] = Absent THEN conn ELSE [conn EXCEPT ![upstreams[k]] = "closed"]
  /\ UNCHANGED upstreams
DropUpstream_Leaks(k) ==             \* mutant: the connection is not closed
  /\ upstreams' = [upstreams EXCEPT ![k] = Absent]
  /\ UNCHANGED conn

\* dropUpstream() up to its await: whatever is pooled under the key is forgotten and closed.
DropUpstream(k) ==
  /\ upstreams' = [upstreams EXCEPT ![k] = Absent]
  /\ conn' = IF upstreams[k] = Absent THEN conn ELSE [conn EXCEPT ![upstreams[k]] = "closed"]

-----------------------------------------------------------------------------
(* Requests                                                                *)

\* handle() begins: withClient() asks for the upstream.  (That a pooled connection has
\* been lost unnoticed is the request's first hit.)
Request(r) ==
  /\ daemon # "gone"
  /\ pc[r] = "idle"
  /\ GetUpstream(r, 1)
  /\ answer' = [answer EXCEPT ![r] = "none"]
  /\ hits' = [hits EXCEPT ![r] = IF \E c \in Conns : upstreams[key(r)] = c /\ conn[c] = "lost" THEN 1 ELSE 0]
  /\ UNCHANGED <<config, upstreams, conn, made, stale, tickVars, daemon, faults>>

\* connect() resolves: the new entry is pooled, whatever has been pooled meanwhile.
Connected(r) ==
  /\ pc[r] = "connecting"
  /\ made < MaxConns
  /\ made' = made + 1
  /\ conn' = [conn EXCEPT ![made'] = "up"]
  /\ upstreams' = [upstreams EXCEPT ![key(r)] = made']
  /\ entry' = [entry EXCEPT ![r] = made']
  /\ pc' = [pc EXCEPT ![r] = "running"]
  /\ UNCHANGED <<config, stale, attempt, answer, hits, tickVars, daemon, faults>>

\* connect() rejects: the request is answered with the error.
Refused(r) ==
  /\ pc[r] = "connecting"
  /\ Fault
  /\ Answers(r, "refused")
  /\ UNCHANGED <<config, upstreams, conn, made, stale, hits, tickVars, daemon>>

\* The server answers, with a result or with an error of its own.  Only a result counts
\* as a use of the connection.
Answered(r) ==
  /\ pc[r] = "running"
  /\ conn[entry[r]] = "up"
  /\ Answers(r, "server")
  /\ \/ /\ stale' = stale \ {entry[r]}
        /\ evicting' = {p \in evicting : p[2] # entry[r]}
     \/ UNCHANGED <<stale, evicting>>
  /\ UNCHANGED <<config, upstreams, conn, made, hits, tick, emptied, daemon, faults>>

Fails_RetriesAgain(r) ==             \* mutant: the retry is retried
  /\ pc[r] = "running"
  /\ conn[entry[r]] # "up"
  /\ DropUpstream(key(r))
  /\ pc' = [pc EXCEPT ![r] = "dropping"]
  /\ UNCHANGED <<config, made, stale, attempt, entry, answer, hits, tickVars, daemon, faults>>

\* The request fails with a transport error: its connection is gone, or the request alone
\* is lost (HTTP).  The first time the upstream is dropped, the second time it is reported.
Fails(r) ==
  /\ pc[r] = "running"
  /\ \/ conn[entry[r]] # "up" /\ UNCHANGED <<hits, faults>>
     \/ conn[entry[r]] = "up" /\ Fault /\ Hit({r})
  /\ \/ /\ attempt[r] = 1
        /\ DropUpstream(key(r))
        /\ pc' = [pc EXCEPT ![r] = "dropping"]
        /\ UNCHANGED <<attempt, entry, answer>>
     \/ /\ attempt[r] = 2
        /\ Answers(r, "transport error")
        /\ UNCHANGED <<upstreams, conn>>
  /\ UNCHANGED <<config, made, stale, tickVars, daemon>>

Dropped_SameClient(r) ==             \* mutant: the retry runs on the entry it had
  /\ pc[r] = "dropping"
  /\ pc' = [pc EXCEPT ![r] = "running"]
  /\ attempt' = [attempt EXCEPT ![r] = 2]
  /\ UNCHANGED <<config, upstreams, conn, made, stale, entry, answer, hits, tickVars, daemon, faults>>

\* dropUpstream() returned: run once more, on a fresh upstream.
Dropped(r) ==
  /\ pc[r] = "dropping"
  /\ GetUpstream(r, attempt[r] + 1)
  /\ UNCHANGED <<config, upstreams, conn, made, stale, answer, hits, tickVars, daemon, faults>>

-----------------------------------------------------------------------------
(* Idle eviction, self-retirement, shutdown                                *)

\* The timer fires: evictIdle() reads the clock and the entries.
Ticks ==
  /\ config.ticks /\ daemon = "up"
  /\ tick = "off"
  /\ tick' = "scanning"
  /\ evicting' = {<<k, upstreams[k]>> : k \in {l \in Servers : upstreams[l] \in stale}}
  /\ UNCHANGED <<config, upstreams, conn, made, stale, requestVars, hits, emptied, daemon, faults>>

\* The next idle entry of the snapshot: the pool is told by its key.
Evicts ==
  /\ daemon # "gone"
  /\ tick = "scanning"
  /\ \E p \in evicting :
       /\ evicting' = evicting \ {p}
       /\ DropUpstream(p[1])
       /\ Hit(UsersOf(upstreams[p[1]]))
  /\ tick' = "closing"
  /\ UNCHANGED <<config, made, stale, requestVars, emptied, daemon, faults>>

EvictReturns ==
  /\ daemon # "gone"
  /\ tick = "closing"
  /\ tick' = "scanning"
  /\ UNCHANGED <<config, upstreams, conn, made, stale, requestVars, hits, evicting, emptied, daemon, faults>>

Pooled == {upstreams[k] : k \in Servers} \ {Absent}

\* closeAll() up to its await.
CloseAll ==
  /\ upstreams' = [k \in Servers |-> Absent]
  /\ conn' = [c \in Conns |-> IF c \in Pooled THEN "closed" ELSE conn[c]]
  /\ Hit(UNION {UsersOf(c) : c \in Pooled})
  /\ daemon' = "closing"

\* The tick ends; when there has been no upstream for the idle window, the daemon retires.
TickEnds ==
  /\ daemon # "gone"
  /\ tick = "scanning"
  /\ evicting = {}
  /\ tick' = "off"
  /\ emptied' = (Pooled = {})
  /\ \/ emptied /\ Pooled = {} /\ daemon = "up" /\ CloseAll
     \/ UNCHANGED <<upstreams, conn, hits, daemon>>
  /\ UNCHANGED <<config, made, stale, requestVars, evicting, faults>>

Stopped ==
  /\ config.stops
  /\ daemon = "up"
  /\ CloseAll
  /\ UNCHANGED <<config, made, stale, requestVars, tickVars, faults>>

\* closeAll() returned: the process exits, and with it every connection and request.
Exits ==
  /\ daemon = "closing"
  /\ daemon' = "gone"
  /\ conn' = [c \in Conns |-> IF conn[c] = "none" THEN "none" ELSE "closed"]
  /\ upstreams' = [k \in Servers |-> Absent]
  /\ pc' = [r \in Requests |-> "idle"]
  /\ attempt' = [r \in Requests |-> 1]
  /\ entry' = [r \in Requests |-> Absent]
  /\ answer' = [r \in Requests |-> IF pc[r] = "idle" THEN answer[r] ELSE "daemon gone"]
  /\ UNCHANGED <<config, made, stale, hits, tickVars, faults>>

-----------------------------------------------------------------------------
(* The environment                                                         *)

\* idleMs pass without a completed request on connection c.
GetsStale(c) ==
  /\ config.ticks
  /\ conn[c] \in {"up", "lost"} /\ c \notin stale
  /\ stale' = stale \cup {c}
  /\ UNCHANGED <<config, upstreams, conn, made, requestVars, hits, tickVars, daemon, faults>>

\* The network loses connection c.
Lose(c) ==
  /\ conn[c] = "up"
  /\ Fault
  /\ conn' = [conn EXCEPT ![c] = "lost"]
  /\ Hit(UsersOf(c))
  /\ UNCHANGED <<config, upstreams, made, stale, requestVars, tickVars, daemon>>

Next ==
  \/ \E r \in Requests : Request(r) \/ Connected(r) \/ Refused(r) \/ Answered(r) \/ Fails(r) \/ Dropped(r)
  \/ Ticks \/ Evicts \/ EvictReturns \/ TickEnds
  \/ Stopped \/ Exits
  \/ \E c \in Conns : GetsStale(c) \/ Lose(c)

Spec == Init /\ [][Next]_vars

-----------------------------------------------------------------------------
(* Properties                                                              *)

\* Every variable keeps its type; no request runs more than twice.
TypeOK ==
  /\ config \in Configs
  /\ upstreams \in [Servers -> Conns \cup {Absent}]
  /\ conn \in [Conns -> {"none", "up", "lost", "closed"}]
  /\ made \in 0 .. MaxConns
  /\ stale \subseteq Conns
  /\ pc \in [Requests -> PCs]
  /\ attempt \in [Requests -> {1, 2}]
  /\ entry \in [Requests -> Conns \cup {Absent}]
  /\ answer \in [Requests -> {"none", "server", "refused", "transport error", "daemon gone"}]
  /\ hits \in [Requests -> 0 .. 2]
  /\ evicting \subseteq Servers \X Conns
  /\ tick \in {"off", "scanning", "closing"}
  /\ emptied \in BOOLEAN
  /\ daemon \in {"up", "closing", "gone"}
  /\ faults \in 0 .. config.maxFaults

\* No two invocations ask for the same upstream: a terminal that runs one after the other.
Alone == \A r, s \in Requests : r # s => key(r) # key(s)

\* A request never gets, from the pool, a connection that the daemon has closed itself:
\* no other request, eviction or shutdown can close an entry and leave it pooled.
PooledNotClosed == \A c \in Pooled : conn[c] # "closed"

\* Connections are shared and reaped: one that is up is in the pool, where the next request
\* finds it and eviction and shutdown close it.
NoOrphan == Alone => \A c \in Conns : conn[c] = "up" => c \in Pooled

\* Together: the pool is what is open, and what the daemon has closed has left it.
PoolIsKept == PooledNotClosed /\ NoOrphan

\* "reconnecting ONCE on a transport/closed error": one loss, or one eviction under a
\* running request, is not reported to the user.
OneFaultNeverSurfaces ==
  Alone => \A r \in Requests : answer[r] = "transport error" => hits[r] = 2

\* What the code does not keep.

\* "Two requests resolving to the same opts share one live upstream connection."
OneUpstreamPerKey == Cardinality({c \in Conns : conn[c] = "up"}) <= Cardinality(Servers)

=============================================================================
