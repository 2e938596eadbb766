---------------------------- MODULE LiveCatalog ----------------------------
(***************************************************************************)
(* How a connection keeps its registry of tools (or resources, or prompts) *)
(* current: relist() and the notification handlers of class                *)
(* ServerConnection, packages/mcp-query/src/core/connection.ts, fed by     *)
(* unsolicited notifications (legacy) or by the stream of its              *)
(* ListenManager (modern).                                                 *)
(*                                                                         *)
(* The lifecycle is cut down to what matters here (ServerConnection has it *)
(* all): dialing, listing in refreshAll(), up, and dropped, waiting for    *)
(* the backoff timer; every drop is noticed (the drops that the connection *)
(* misses are ServerConnection's ReadyIsLive).  A catalog is the number of  *)
(* its edition.  A re-list is sent (0), then answered by the server with   *)
(* its edition of that moment; the answers arrive in any order.  A re-list *)
(* over a lost link rejects.                                               *)
(* Bounds: MaxEdition changes of the catalog, MaxGen re-lists,             *)
(* regime.maxFaults losses and refused listens.                            *)
(***************************************************************************)
EXTENDS ListenManager

CONSTANTS MaxEdition, MaxGen, Regimes

\* modern: the negotiated era; offers: whether the server advertises listChanged, at each
\* connect; observes: observers come and go.
RegimeType == [modern : BOOLEAN, offers : SUBSET BOOLEAN, observes : BOOLEAN, maxFaults : Nat]

ASSUME CatalogAssumption ==
  /\ MaxEdition \in Nat \ {0} /\ MaxGen \in Nat
  /\ Regimes \subseteq RegimeType

Gens == 1 .. MaxGen
NoList == MaxEdition + 1    \* no such re-list is in flight

VARIABLES
  regime,     \* chosen once
  conn,       \* the lifecycle, cut down
  wired,      \* the client's handlers are installed and its link is up
  edition,    \* the server's catalog
  news,       \* list_changed notifications under way
  gen,        \* relistGen
  relists,    \* per generation: NoList, 0 (sent) or the version answered
  first,      \* the re-list that refreshAll() awaits
  catalog,    \* the registry (0: none yet)
  unheard,    \* the catalog changed after the last re-list, and nobody was told
  losses

catalogVars == <<edition, news, gen, relists, first, catalog, unheard>>
noticeVars == <<regime, conn, wired, catalogVars, losses, listenVars>>

CatalogInit ==
  /\ regime \in Regimes
  /\ conn = "dialing" /\ wired = FALSE
  /\ edition = 1
  /\ news = 0
  /\ gen = 0 /\ relists = [g \in Gens |-> NoList] /\ first = 0
  /\ catalog = 0
  /\ unheard = FALSE
  /\ losses = 0
  /\ ListenInit

Mishap == losses < regime.maxFaults /\ losses' = losses + 1

\* relist() up to its await: a new generation.
Relist ==
  /\ gen < MaxGen
  /\ gen' = gen + 1
  /\ relists' = [relists EXCEPT ![gen'] = 0]

-----------------------------------------------------------------------------
(* The connection                                                          *)

\* establish() succeeds, and refreshAll() sends the first re-list.
ConnDials ==
  /\ conn = "dialing"
  /\ conn' = "listing"
  /\ wired' = TRUE
  /\ lists' \in regime.offers
  /\ Relist
  /\ first' = gen'
  /\ unheard' = FALSE
  /\ UNCHANGED <<regime, edition, news, catalog, losses,
                 stopped, watched, timers, opening, streams>>

\* refreshAll() returned: startListen(), which is for the modern era.
Listed ==
  /\ conn = "listing"
  /\ relists[first] = NoList
  /\ conn' = "up"
  /\ first' = 0
  /\ IF regime.modern THEN Start(watched) ELSE UNCHANGED listenVars
  /\ UNCHANGED <<regime, wired, edition, news, gen, relists, catalog, unheard, losses>>

\* The transport is lost: streams are lost with it, and re-lists reject.
ConnDrops ==
  /\ conn \in {"listing", "up"}
  /\ wired
  /\ Mishap
  /\ wired' = FALSE
  /\ conn' = "dropped"
  /\ Lost(Streams)
  /\ news' = 0 /\ first' = 0
  /\ relists' = [g \in Gens |-> NoList]
  /\ UNCHANGED <<regime, edition, gen, catalog, unheard, current, filter,
                 lists, stopped, watched, timers, opening>>

\* The backoff timer fires: reconnect() stops the manager and dials again.  (By then a
\* listen that was pending over the lost link has rejected.)
Reconnects ==
  /\ conn = "dropped"
  /\ opener # "listening"
  /\ conn' = "dialing"
  /\ Stop
  /\ UNCHANGED <<regime, wired, catalogVars, losses>>

-----------------------------------------------------------------------------
(* Notifications and re-lists                                              *)

\* The streams that carry list_changed.
Carriers == {s \in Streams : stream[s] = "open" /\ filter[s].lists}

\* The server changes its catalog, and tells whoever it promised to.
ServerChanges ==
  /\ edition < MaxEdition
  /\ edition' = edition + 1
  /\ LET told == IF regime.modern THEN Cardinality(Carriers)
                 ELSE IF wired /\ lists THEN 1 ELSE 0
     IN /\ news' = news + told
        /\ unheard' = (unheard \/ told = 0)
  /\ UNCHANGED <<regime, conn, wired, gen, relists, first, catalog, losses, listenVars>>

\* A list_changed notification arrives.
NewsArrives ==
  /\ news > 0
  /\ news' = news - 1
  /\ Relist
  /\ UNCHANGED <<regime, conn, wired, edition, first, catalog, unheard, losses, listenVars>>

\* The server answers a re-list.
Answers(g) ==
  /\ relists[g] = 0
  /\ relists' = [relists EXCEPT ![g] = edition]
  /\ unheard' = (unheard /\ g # gen)
  /\ UNCHANGED <<regime, conn, wired, edition, news, gen, first, catalog, losses, listenVars>>

\* Mutant: every answer is applied.
Applies_Always(g) == TRUE

\* The generation guard of relist().
Applies(g) == g = gen

\* An answer arrives.
ListArrives(g) ==
  /\ relists[g] \in 1 .. MaxEdition
  /\ relists' = [relists EXCEPT ![g] = NoList]
  /\ catalog' = IF Applies(g) THEN relists[g] ELSE catalog
  /\ UNCHANGED <<regime, conn, wired, edition, news, gen, first, unheard, losses, listenVars>>

-----------------------------------------------------------------------------
(* The stream, over this connection                                        *)

ConnUnchanged == UNCHANGED <<regime, conn, wired, catalogVars>>

\* A listen is acknowledged over an open link; over a lost one it rejects.
ListenAnswered ==
  /\ wired
  /\ \E s \in Streams : Opened(s)
  /\ ConnUnchanged /\ UNCHANGED losses

ListenRejected ==
  /\ OpenFails
  /\ \/ ~wired /\ UNCHANGED losses
     \/ wired /\ Mishap
  /\ ConnUnchanged

StreamLost(s) ==
  /\ stream[s] = "open"
  /\ Mishap
  /\ Lost({s})
  /\ ConnUnchanged
  /\ UNCHANGED <<lists, stopped, watched, timers, opening, current, filter>>

ManagerSteps ==
  /\ DebounceFires \/ RetryFires \/ Retired \/ \E s \in Streams : HearsLoss(s)
  /\ ConnUnchanged /\ UNCHANGED losses

\* Observers come and go (maybeProtocolSubscribe of a modern connection).
ObserversChange ==
  /\ regime.modern /\ regime.observes
  /\ \E us \in SUBSET Uris : SetObserved(us)
  /\ ConnUnchanged /\ UNCHANGED losses

CatalogNext ==
  \/ ConnDials \/ Listed \/ ConnDrops \/ Reconnects
  \/ ServerChanges \/ NewsArrives
  \/ \E g \in Gens : Answers(g) \/ ListArrives(g)
  \/ ListenAnswered \/ ListenRejected
  \/ \E s \in Streams : StreamLost(s)
  \/ ManagerSteps \/ ObserversChange

\* Requests are answered, armed timers fire, promises that have settled run their handlers.
\* (The debounce timer fires: observers pause for its 50 ms at times.)  The server need not
\* change its catalog, nor the network fail.
CatalogFairness ==
  /\ WF_noticeVars(Listed) /\ WF_noticeVars(ConnDials)
  /\ WF_noticeVars(Reconnects) /\ WF_noticeVars(NewsArrives)
  /\ \A g \in Gens : WF_noticeVars(Answers(g)) /\ WF_noticeVars(ListArrives(g))
  /\ WF_noticeVars(ListenAnswered \/ ListenRejected)
  /\ WF_noticeVars(DebounceFires /\ ManagerSteps)
  /\ WF_noticeVars(RetryFires /\ ManagerSteps)
  /\ WF_noticeVars(Retired /\ ManagerSteps)
  /\ \A s \in Streams : WF_noticeVars(HearsLoss(s) /\ ManagerSteps)

CatalogSpec == CatalogInit /\ [][CatalogNext]_noticeVars /\ CatalogFairness

-----------------------------------------------------------------------------
(* Properties                                                              *)

\* Every variable keeps its type.
CatalogTypeOK ==
  /\ regime \in Regimes
  /\ conn \in {"dialing", "listing", "up", "dropped"} /\ wired \in BOOLEAN
  /\ edition \in 1 .. MaxEdition /\ catalog \in 0 .. MaxEdition
  /\ news \in Nat /\ gen \in 0 .. MaxGen /\ first \in 0 .. MaxGen
  /\ relists \in [Gens -> 0 .. NoList]
  /\ unheard \in BOOLEAN /\ losses \in 0 .. regime.maxFaults
  /\ ListenTypeOK

\* "without ordering, a stale response can be applied AFTER the newest one and stick": once
\* every notification has been followed up, the registry is the server's catalog, unless the
\* catalog changed while nobody was listening.
CatalogCurrent ==
  (conn = "up" /\ news = 0 /\ ~unheard /\ \A g \in Gens : relists[g] = NoList)
    => catalog = edition

\* Together: neither the filter of the stream nor the registry is left behind.
NothingStale == FilterCurrent /\ CatalogCurrent

\* The registry never goes back to an older version of the catalog.
NeverBackwards == [][catalog' >= catalog]_noticeVars

\* Once the faults stop and the observers rest, a connection that wants notifications hears
\* them through a stream with just the filter it wants.
EndsHearing ==
  \A f \in Filters \ {Empty} :
    <>[](conn = "up" /\ regime.modern /\ Desired(watched) = f /\ retryTimer # "cleared")
      => <>[]Hears(f)

=============================================================================
