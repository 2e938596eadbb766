-------------------------- MODULE QueryCoalescing --------------------------
(***************************************************************************)
(* One cache key of class MCPClient, mcp-query/src/core/client.ts:         *)
(* execQuery() with waitOn() (config.kind "query") or execRead() ("read"), *)
(* whose concurrent calls share one request, over the L2 store             *)
(* (config.store) and under invalidations that cross it.                   *)
(*                                                                         *)
(* Concurrent calls join the request in flight, so there is one: stage is  *)
(* its await.  Data is the version the server had when it answered; got is *)
(* the answer on its way (0: none yet).  The class of the cache is         *)
(* external: setFetching() leaves an entry that has data alone, write()    *)
(* makes it fresh, invalidateTags() marks an entry that has been written,  *)
(* abortInflight() aborts the request; entries are collected only while    *)
(* nobody observes or fetches them.                                        *)
(*                                                                         *)
(* The ghosts: heard is the newest version whose invalidation has arrived, *)
(* and overtaken says that one has arrived after the answer it makes old.  *)
(* Bounds: MaxVersion versions, config.maxFaults failed requests.          *)
(***************************************************************************)
EXTENDS Naturals, FiniteSets

CONSTANTS Callers, MaxVersion, Configs

\* retry: ClientConfig.retry; observed: hooks observe the key at times; signals: calls may
\* carry a signal (queryTool only).
ConfigType == [kind : {"query", "read"}, store : BOOLEAN, observed : BOOLEAN, signals : BOOLEAN,
               retry : Nat, maxFaults : Nat]

ASSUME QueryAssumption ==
  /\ IsFiniteSet(Callers)
  /\ MaxVersion \in Nat \ {0}
  /\ Configs \subseteq ConfigType

Versions == 1 .. MaxVersion
NoEntry == [status |-> "none", value |-> 0, stale |-> FALSE, origin |-> "server", old |-> FALSE]

Entries == [status : {"none", "fetching", "success", "error"}, value : 0 .. MaxVersion,
            stale : BOOLEAN, origin : {"server", "store"}, old : BOOLEAN]

VARIABLES
  config,     \* chosen once
  version,    \* what the server has
  notices,    \* invalidations on their way
  heard,      \* ghost
  entry,      \* the cache entry; old is a ghost: what it was written with was overtaken
  stored,     \* the entry of the L2 store (0: none)
  observers,  \* the key has observers
  stage,      \* the await of the request in flight
  got, attempt, aborted, count,  \* its answer, retries, AbortController, and waiters' count
  overtaken,  \* ghost
  waiting,    \* the callers whose call has not settled
  abortable,  \* those whose call carries a signal
  faults

flight == <<stage, got, attempt, aborted, count, overtaken>>
vars == <<config, version, notices, heard, entry, stored, observers, flight, waiting, abortable,
          faults>>

Init ==
  /\ config \in Configs
  /\ version = 1 /\ notices = {} /\ heard = 1
  /\ entry = NoEntry
  /\ stored = 0
  /\ observers = FALSE
  /\ stage = "off" /\ got = 0 /\ attempt = 0 /\ aborted = FALSE /\ count = 0 /\ overtaken = FALSE
  /\ waiting = {} /\ abortable = {}
  /\ faults = 0

-----------------------------------------------------------------------------
(* The callers                                                             *)

\* Mutant: a caller that joins is not counted.
Joins_Uncounted == UNCHANGED flight

\* The call finds a request in flight.
Joins ==
  /\ count' = IF config.kind = "query" THEN count + 1 ELSE 0
  /\ UNCHANGED <<stage, got, attempt, aborted, overtaken>>

\* setFetching()
Fetching == IF entry.status = "success" THEN entry ELSE [entry EXCEPT !.status = "fetching"]

\* The call starts a request: past the L2 store if there is none, or the entry has data.
Starts ==
  /\ stage' = IF config.store /\ entry.status # "success" THEN "l2" ELSE "network"
  /\ got' = 0 /\ attempt' = 0 /\ aborted' = FALSE /\ overtaken' = FALSE
  /\ count' = IF config.kind = "query" THEN 1 ELSE 0

\* execQuery(), execRead(): caller c, with a signal or without.
Call(c) ==
  /\ c \notin waiting
  /\ waiting' = waiting \cup {c}
  /\ \/ UNCHANGED abortable
     \/ config.kind = "query" /\ config.signals /\ abortable' = abortable \cup {c}
  /\ \/ stage # "off" /\ Joins /\ UNCHANGED entry
     \/ stage = "off" /\ Starts /\ entry' = Fetching
  /\ UNCHANGED <<config, version, notices, heard, stored, observers, faults>>

\* Mutant: the last caller that leaves does not cancel the request.
Leaves_Quietly == count' = count - 1 /\ UNCHANGED aborted

\* onAbort(): the last caller that leaves cancels the request.
Leaves ==
  /\ count' = count - 1
  /\ aborted' = (aborted \/ count' = 0)

\* The signal of caller c fires.
SignalFires(c) ==
  /\ c \in abortable
  /\ waiting' = waiting \ {c} /\ abortable' = abortable \ {c}
  /\ Leaves
  /\ UNCHANGED <<config, version, notices, heard, entry, stored, observers,
                 stage, got, attempt, overtaken, faults>>

\* The first observer comes.
Observed ==
  /\ config.observed /\ ~observers
  /\ observers' = TRUE
  /\ UNCHANGED <<config, version, notices, heard, entry, stored, flight,
                 waiting, abortable, faults>>

\* The last observer goes: onUnsubscribe aborts the request.
Unobserved ==
  /\ observers
  /\ observers' = FALSE
  /\ aborted' = (aborted \/ stage # "off")
  /\ UNCHANGED <<config, version, notices, heard, entry, stored,
                 stage, got, attempt, count, overtaken, waiting, abortable, faults>>

-----------------------------------------------------------------------------
(* The request                                                             *)

\* Mutant: the request is forgotten, and with it who awaits its promise.
Settle_Forgets ==
  /\ stage' = "off" /\ got' = 0 /\ attempt' = 0 /\ aborted' = FALSE /\ count' = 0
  /\ overtaken' = FALSE
  /\ UNCHANGED <<waiting, abortable>>

\* The promise settles, in the segment that clears the one in flight.
Settle ==
  /\ stage' = "off" /\ got' = 0 /\ attempt' = 0 /\ aborted' = FALSE /\ count' = 0
  /\ overtaken' = FALSE
  /\ waiting' = {} /\ abortable' = {}

\* write()
Write(origin) ==
  entry' = [status |-> "success", value |-> got, stale |-> FALSE,
            origin |-> origin, old |-> overtaken]

\* l2ReadThrough(): the store finds nothing, and the request is sent.
StoreMisses ==
  /\ stage = "l2" /\ got = 0 /\ stored = 0
  /\ stage' = "network"
  /\ UNCHANGED <<config, version, notices, heard, entry, stored, observers,
                 got, attempt, aborted, count, overtaken, waiting, abortable, faults>>

StoreReads ==
  /\ stage = "l2" /\ got = 0 /\ stored # 0
  /\ got' = stored
  /\ UNCHANGED <<config, version, notices, heard, entry, stored, observers,
                 stage, attempt, aborted, count, overtaken, waiting, abortable, faults>>

\* ... and its answer arrives.
StoreAnswers ==
  /\ stage = "l2" /\ got # 0
  /\ Write("store")
  /\ Settle
  /\ UNCHANGED <<config, version, notices, heard, stored, observers, faults>>

ServerAnswers ==
  /\ stage = "network" /\ got = 0 /\ ~aborted
  /\ got' = version
  /\ UNCHANGED <<config, version, notices, heard, entry, stored, observers,
                 stage, attempt, aborted, count, overtaken, waiting, abortable, faults>>

\* The answer arrives: it is written to the cache and through to the store.
AnswerArrives ==
  /\ stage = "network" /\ got # 0 /\ ~aborted
  /\ Write("server")
  /\ stored' = IF config.store THEN got ELSE stored
  /\ Settle
  /\ UNCHANGED <<config, version, notices, heard, observers, faults>>

\* Mutant: one retry too many.
Fails_OneMore ==
  /\ stage = "network" /\ ~aborted
  /\ faults < config.maxFaults /\ faults' = faults + 1
  /\ \/ /\ attempt <= config.retry
        /\ attempt' = attempt + 1 /\ got' = 0 /\ overtaken' = FALSE
        /\ UNCHANGED <<entry, stage, aborted, count, waiting, abortable>>
     \/ /\ attempt > config.retry
        /\ entry' = [entry EXCEPT !.status = "error"]
        /\ Settle
  /\ UNCHANGED <<config, version, notices, heard, stored, observers>>

\* The request fails; withRetry() sends it again.
Fails ==
  /\ stage = "network" /\ ~aborted
  /\ faults < config.maxFaults /\ faults' = faults + 1
  /\ \/ /\ attempt < config.retry
        /\ attempt' = attempt + 1 /\ got' = 0 /\ overtaken' = FALSE
        /\ UNCHANGED <<entry, stage, aborted, count, waiting, abortable>>
     \/ /\ attempt = config.retry
        /\ entry' = [entry EXCEPT !.status = "error"]
        /\ Settle
  /\ UNCHANGED <<config, version, notices, heard, stored, observers>>

\* Mutant: a cancelled query is taken for one that failed.
AfterCancel_Poisons == [entry EXCEPT !.status = "error"]

\* Mutant: the entry of a cancelled query stays as setFetching() left it.
AfterCancel_Stays == entry

\* What a cancelled request leaves: a query drops the entry that has nothing to show.
AfterCancel ==
  IF config.kind = "read" THEN [entry EXCEPT !.status = "error"]
  ELSE IF entry.status = "fetching" THEN NoEntry ELSE entry

\* A cancelled request rejects, when it has been sent or as soon as it is.
Cancelled ==
  /\ stage = "network" /\ aborted
  /\ entry' = AfterCancel
  /\ Settle
  /\ UNCHANGED <<config, version, notices, heard, stored, observers, faults>>

-----------------------------------------------------------------------------
(* The server, the other nodes and the cache                               *)

\* The data changes, and an invalidation says so.
Changes ==
  /\ version < MaxVersion
  /\ version' = version + 1
  /\ notices' = notices \cup {version'}
  /\ UNCHANGED <<config, heard, entry, stored, observers, flight, waiting, abortable, faults>>

\* Mutant: an entry that is being fetched is not marked.
Marked_NotFetching == IF stage = "off" THEN [entry EXCEPT !.stale = TRUE] ELSE entry

\* invalidateTags(): only an entry that has been written carries tags.
Marked == IF entry.value # 0 THEN [entry EXCEPT !.stale = TRUE] ELSE entry

\* An invalidation arrives.
NoticeArrives(v) ==
  /\ v \in notices
  /\ notices' = notices \ {v}
  /\ heard' = IF v > heard THEN v ELSE heard
  /\ entry' = Marked
  /\ overtaken' = (overtaken \/ (got # 0 /\ got < v))
  /\ UNCHANGED <<config, version, stored, observers, stage, got, attempt, aborted, count,
                 waiting, abortable, faults>>

\* Another node writes what it has read from the server to the store.
OtherNodeStores(v) ==
  /\ config.store
  /\ v <= version
  /\ stored' = v
  /\ UNCHANGED <<config, version, notices, heard, entry, observers, flight,
                 waiting, abortable, faults>>

\* The entry is collected.
Collected ==
  /\ entry.status \in {"success", "error"} /\ ~observers /\ stage = "off"
  /\ entry' = NoEntry
  /\ UNCHANGED <<config, version, notices, heard, stored, observers, flight,
                 waiting, abortable, faults>>

Next ==
  \/ \E c \in Callers : Call(c) \/ SignalFires(c)
  \/ Observed \/ Unobserved
  \/ StoreMisses \/ StoreReads \/ StoreAnswers
  \/ ServerAnswers \/ AnswerArrives \/ Fails \/ Cancelled
  \/ Changes \/ \E v \in Versions : NoticeArrives(v) \/ OtherNodeStores(v)
  \/ Collected

\* The store answers, the SDK settles every request (it has a timeout), and a promise that
\* has settled resumes who awaits it.
Fairness ==
  /\ WF_vars(StoreMisses \/ StoreReads) /\ WF_vars(StoreAnswers)
  /\ WF_vars(ServerAnswers \/ Fails) /\ WF_vars(AnswerArrives) /\ WF_vars(Cancelled)

Spec == Init /\ [][Next]_vars /\ Fairness

-----------------------------------------------------------------------------
(* Properties                                                              *)

\* Every variable keeps its type.
TypeOK ==
  /\ config \in Configs
  /\ version \in Versions /\ notices \subseteq Versions /\ heard \in Versions
  /\ entry \in Entries
  /\ stored \in 0 .. MaxVersion
  /\ observers \in BOOLEAN
  /\ stage \in {"off", "l2", "network"}
  /\ got \in 0 .. MaxVersion /\ attempt \in 0 .. config.retry
  /\ aborted \in BOOLEAN /\ count \in Nat /\ overtaken \in BOOLEAN
  /\ waiting \subseteq Callers /\ abortable \subseteq waiting
  /\ faults \in 0 .. config.maxFaults

\* "a shared in-flight request is only cancelled upstream when every caller has aborted", or
\* when the last observer goes.
OnlyLeaversCancel ==
  ~aborted /\ aborted' => (observers /\ ~observers') \/ waiting' = {}

CancelledWhenLeft == [][OnlyLeaversCancel]_vars

\* "aborting every waiting caller cancels the request": a query that nobody waits for has
\* been cancelled.
LeftIsCancelled == (stage # "off" /\ config.kind = "query" /\ waiting = {}) => aborted

\* An entry that says it is being fetched is: it is never left loading for ever.
FetchingIsFetched == entry.status = "fetching" => stage # "off"

\* "a cancelled fetch no longer marks the cache entry as errored": without a failed request
\* a query's entry shows no error, whoever leaves.
NotPoisoned == (config.kind = "query" /\ faults = 0) => entry.status # "error"

\* An entry that is taken for fresh is as new as every invalidation that has arrived, unless
\* it was answered before one that arrived during the request, or is what the store had.
FreshOrOvertaken ==
  (entry.status = "success" /\ ~entry.stale /\ entry.value < heard)
    => entry.old \/ entry.origin = "store"

\* Every call ends: whoever joins or leaves, the request ends and nobody waits any more.
QueriesSettle == waiting # {} ~> waiting = {}

=============================================================================
