------------------------------- MODULE Mirror -------------------------------
(***************************************************************************)
(* One query that mcp-query-tanstack bridges into TanStack Query: its      *)
(* queryFn (queryOptions.ts), ensureSynced(), the listeners of stateFor()  *)
(* and the teardown of attachMcpqSync() (bridge.ts).  MCPCache and         *)
(* TanStack Query are external; what mcp-query writes is a version.        *)
(*                                                                         *)
(* The ghost behind: the query misses a version that was written while it  *)
(* was not synced, or the end of a fetch has put an older one over it.     *)
(* Bound: MaxWrites versions.                                              *)
(***************************************************************************)
EXTENDS Naturals

CONSTANT MaxWrites

ASSUME MirrorAssumption == MaxWrites \in Nat \ {0}

VARIABLES
  written,     \* versions written so far
  cached,      \* the version the cache of mcp-query holds as a success, 0 for none
  query,       \* whether TanStack's cache has the query
  mirrored,    \* the data it has, 0 for none
  marked,      \* it has been invalidated
  synced,      \* state.unsubs has its key
  fetch,       \* its queryFn: not running, waiting for mcp-query, about to resolve
  answer,      \* the version that resolves it
  behind

mirrorVars == <<written, cached, query, mirrored, marked, synced, fetch, answer, behind>>

MirrorInit ==
  /\ written = 0 /\ cached = 0
  /\ query = FALSE /\ mirrored = 0 /\ marked = FALSE
  /\ synced = FALSE
  /\ fetch = "off" /\ answer = 0
  /\ behind = FALSE

MirrorTypeOK ==
  /\ written \in 0 .. MaxWrites /\ cached \in 0 .. MaxWrites
  /\ query \in BOOLEAN /\ mirrored \in 0 .. MaxWrites /\ marked \in BOOLEAN
  /\ synced \in BOOLEAN
  /\ fetch \in {"off", "waiting", "resolving"} /\ answer \in 0 .. MaxWrites
  /\ behind \in BOOLEAN

\* The listener of cache.subscribe(): a success is copied at once.
CacheWrites(v) ==
  /\ cached' = v
  /\ mirrored' = IF synced THEN v ELSE mirrored
  /\ behind' = (~synced /\ query)

\* ensureSynced() and then the read, which the cache or a request answers.
QueryRuns ==
  /\ fetch = "off" /\ written < MaxWrites
  /\ query' = TRUE /\ fetch' = "waiting" /\ synced' = TRUE /\ marked' = FALSE
  /\ UNCHANGED <<written, cached, mirrored, answer, behind>>

\* The read is answered and written; the promise of queryFn resolves a little later.
ReadAnswered ==
  /\ fetch = "waiting" /\ written < MaxWrites
  /\ written' = written + 1
  /\ CacheWrites(written + 1)
  /\ answer' = written + 1 /\ fetch' = "resolving"
  /\ UNCHANGED <<query, marked, synced>>

\* The read joins another one, or is answered from the second-level store.
ReadShared ==
  /\ fetch = "waiting" /\ cached # 0
  /\ answer' = cached /\ fetch' = "resolving"
  /\ UNCHANGED <<written, cached, query, mirrored, marked, synced, behind>>

ReadFails ==
  /\ fetch = "waiting"
  /\ fetch' = "off" /\ cached' = 0
  /\ UNCHANGED <<written, query, mirrored, marked, synced, answer, behind>>

QueryResolves ==
  /\ fetch = "resolving"
  /\ fetch' = "off"
  /\ IF query
     THEN mirrored' = answer /\ behind' = (answer # cached)
     ELSE UNCHANGED <<mirrored, behind>>
  /\ UNCHANGED <<written, cached, query, marked, synced, answer>>

\* A write of mcp-query's own: a re-read after a push, an optimistic patch or its rollback.
OwnWrite ==
  /\ written < MaxWrites
  /\ written' = written + 1
  /\ CacheWrites(written + 1)
  /\ UNCHANGED <<query, marked, synced, fetch, answer>>

\* onExternalInvalidate(), for a query that is not synced.
PushInvalidates ==
  /\ query /\ ~synced
  /\ marked' = TRUE
  /\ UNCHANGED <<written, cached, query, mirrored, synced, fetch, answer, behind>>

\* Mutant: a query that goes keeps its subscription.
SyncedAfterRemoval_Kept == synced

SyncedAfterRemoval == FALSE

\* TanStack removes a query that nobody has rendered for a while, or clears its cache.
QueryRemoved ==
  /\ query
  /\ query' = FALSE /\ mirrored' = 0 /\ marked' = FALSE /\ behind' = FALSE
  /\ synced' = SyncedAfterRemoval
  /\ UNCHANGED <<written, cached, fetch, answer>>

\* The teardown that attachMcpqSync() returned.
Detach ==
  /\ synced
  /\ synced' = FALSE
  /\ UNCHANGED <<written, cached, query, mirrored, marked, fetch, answer, behind>>

MirrorNext ==
  \/ QueryRuns \/ ReadAnswered \/ ReadShared \/ ReadFails \/ QueryResolves \/ OwnWrite
  \/ PushInvalidates \/ QueryRemoved \/ Detach

MirrorSpec == MirrorInit /\ [][MirrorNext]_mirrorVars

-----------------------------------------------------------------------------
(* Properties                                                              *)

\* A query that is bridged and at rest shows what mcp-query has, and mcp-query keeps a
\* subscription only for a query that TanStack still has (bridge.ts:5-16).
SyncedIsMirrored ==
  synced => /\ query
            /\ (fetch = "off" /\ cached # 0 /\ ~behind) => mirrored = cached
=============================================================================
