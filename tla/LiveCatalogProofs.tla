------------------------- MODULE LiveCatalogProofs -------------------------
(* Theorems about LiveCatalog and the ListenManager in it.                 *)
EXTENDS LiveCatalog, FiniteSetTheorems, TLAPS

\* Who opens a stream knows what it replaces, and who has just opened one still has it.
OpenerInv ==
  /\ opener = "listening" => current \in {replacing, None}
  /\ (opener = "retiring" /\ ~stopped /\ ~reopenQueued)
       => current \in Streams /\ stream[current] \in {"open", "lost"}

\* What makes the filter the wanted one, for each await of a refresh.
FilterInv ==
  (~stopped /\ ~debounce /\ ~reopenQueued) =>
    /\ opener = "listening" => asked = Desired(watched)
    /\ opener = "retiring" => filter[current] = Desired(watched)
    /\ (opener = "off" /\ retryTimer = "none" /\ current \in Streams /\ stream[current] = "open")
         => filter[current] = Desired(watched)

\* A stopped manager has no timer that could fire, so refresh() never finds it stopped.
TimersInv == (debounce \/ retryTimer = "armed") => ~stopped

ManagerInv ==
  /\ ListenTypeOK /\ OneStream /\ OpenerInv /\ FilterInv /\ TimersInv /\ ListensOrRetries

\* The manager runs only once the connection is up.
ConnInv == conn \in {"dialing", "listing"} => stopped

\* Versions only grow, so a later answer is a newer one.
AgesInv ==
  /\ catalog <= edition
  /\ \A g \in Gens : relists[g] # NoList => relists[g] <= edition
  /\ gen # 0 => (relists[gen] \in 1 .. MaxEdition => catalog <= relists[gen])

\* Unless a change is news or went unheard, the latest re-list brings the server's catalog.
FreshInv ==
  (conn \in {"listing", "up"} /\ news = 0 /\ ~unheard) =>
    /\ gen # 0
    /\ relists[gen] \in {0, edition} \/ (relists[gen] = NoList /\ catalog = edition)

Inv == CatalogTypeOK /\ ManagerInv /\ ConnInv /\ AgesInv /\ FreshInv

-----------------------------------------------------------------------------
(* The manager                                                             *)

\* Whatever happens to the manager in a step of LiveCatalog.
ManagerStep ==
  \/ \E us \in SUBSET Uris : SetObserved(us)
  \/ stopped /\ Start(watched)
  \/ Stop
  \/ DebounceFires
  \/ RetryFires
  \/ Retired
  \/ OpenFails
  \/ \E s \in Streams : Opened(s)
  \/ \E s \in Streams : HearsLoss(s)
  \/ \E ss \in SUBSET Streams :
       Lost(ss) /\ UNCHANGED <<lists, stopped, watched, timers, opening, current, filter>>
  \/ stopped /\ lists' \in BOOLEAN /\ UNCHANGED <<stopped, watched, timers, opening, streams>>

\* Each step of LiveCatalog is one of the manager or leaves it alone.
LEMMA StepIsManagerStep ==
  ASSUME CatalogTypeOK, ConnInv, [CatalogNext]_noticeVars
  PROVE  ManagerStep \/ UNCHANGED listenVars
<1> USE DEF ManagerStep
<1>1. CASE ConnDials
  <2>1. lists' \in BOOLEAN
    BY <1>1, CatalogAssumption DEF ConnDials, CatalogTypeOK, RegimeType
  <2> QED BY <1>1, <2>1 DEF ConnDials, ConnInv
<1>2. CASE Listed
  BY <1>2 DEF Listed, ConnInv
<1>3. CASE ConnDrops
  BY <1>3 DEF ConnDrops
<1>4. CASE Reconnects
  BY <1>4 DEF Reconnects
<1>5. CASE ServerChanges \/ NewsArrives \/ \E g \in Gens : Answers(g) \/ ListArrives(g)
  BY <1>5 DEF ServerChanges, NewsArrives, Answers, ListArrives
<1>6. CASE ListenAnswered \/ ListenRejected
  BY <1>6 DEF ListenAnswered, ListenRejected
<1>7. CASE \E s \in Streams : StreamLost(s)
  BY <1>7 DEF StreamLost
<1>8. CASE ManagerSteps
  BY <1>8 DEF ManagerSteps
<1>9. CASE ObserversChange
  BY <1>9 DEF ObserversChange
<1>10. CASE UNCHANGED noticeVars
  BY <1>10 DEF noticeVars
<1> QED BY <1>1, <1>2, <1>3, <1>4, <1>5, <1>6, <1>7, <1>8, <1>9, <1>10 DEF CatalogNext


\* A refresh leaves the manager well typed.
Opens ==
  /\ opener' \in {"off", "listening"}
  /\ asked' \in Filters
  /\ replacing' \in Streams \cup {None}
  /\ current' \in Streams \cup {None}
  /\ stream' \in [Streams -> {"unused", "open", "lost", "dead"}]
  /\ filter' \in [Streams -> Filters]

LEMMA CloseTypes ==
  ASSUME ListenTypeOK, NEW s, Close(s)
  PROVE  /\ stream' \in [Streams -> {"unused", "open", "lost", "dead"}]
         /\ filter' \in [Streams -> Filters]
<1>1. Empty \in Filters
  BY DEF Empty, Filters
<1> QED BY <1>1 DEF Close, ListenTypeOK

LEMMA OpenTypes ==
  ASSUME ListenTypeOK, NEW obs \in SUBSET Uris, Open(obs)
  PROVE  Opens
<1>1. Empty \in Filters /\ Desired(obs) \in Filters
  BY DEF Empty, Desired, Filters, ListenTypeOK
<1>2. CASE opener' = "off"
  <2>1. Close(current) /\ current' = None /\ asked' = Empty /\ replacing' = None
    BY <1>2 DEF Open
  <2> QED BY <1>1, <1>2, <2>1, CloseTypes DEF Opens
<1>3. CASE opener' = "listening"
  <2>1. asked' = Desired(obs) /\ replacing' = current /\ UNCHANGED streams
    BY <1>3 DEF Open
  <2> QED BY <1>1, <1>3, <2>1 DEF Opens, ListenTypeOK, streams
<1> QED BY <1>2, <1>3 DEF Open

LEMMA RefreshTypes ==
  ASSUME ListenTypeOK, NEW obs \in SUBSET Uris, Refresh(obs),
         lists' \in BOOLEAN, stopped' \in BOOLEAN, watched' \subseteq Uris, debounce' \in BOOLEAN,
         retryTimer' \in {"none", "armed", "cleared"}
  PROVE  ListenTypeOK'
<1>1. CASE opener # "off"
  BY <1>1 DEF Refresh, ListenTypeOK, streams
<1>2. CASE opener = "off"
  <2>1. Opens /\ reopenQueued' = reopenQueued
    BY <1>2, OpenTypes DEF Refresh
  <2>2. reopenQueued = FALSE
    BY <1>2 DEF ListenTypeOK
  <2> QED BY <2>1, <2>2 DEF Opens, ListenTypeOK
<1> QED BY <1>1, <1>2

LEMMA FinallyTypes ==
  ASSUME ListenTypeOK, Finally,
         UNCHANGED <<lists, stopped, watched, debounce>>, retryTimer' \in {"none", "armed", "cleared"}
  PROVE  ListenTypeOK'
<1>1. watched \in SUBSET Uris /\ Empty \in Filters
  BY DEF ListenTypeOK, Empty, Filters
<1>2. Opens
  <2>1. CASE Open(watched)
    BY <1>1, <2>1, OpenTypes
  <2>2. CASE opener' = "off" /\ asked' = Empty /\ replacing' = None /\ UNCHANGED streams
    BY <1>1, <2>2 DEF Opens, ListenTypeOK, streams
  <2> QED BY <2>1, <2>2 DEF Finally
<1> QED BY <1>2 DEF Opens, Finally, ListenTypeOK

\* Every step of the manager keeps its types.
LEMMA ManagerTypes ==
  ASSUME ListenTypeOK, ManagerStep
  PROVE  ListenTypeOK'
<1>0. watched \in SUBSET Uris
  BY DEF ListenTypeOK
<1>1. ASSUME NEW us \in SUBSET Uris, SetObserved(us) PROVE ListenTypeOK'
  BY <1>1 DEF SetObserved, ListenTypeOK, opening, streams
<1>2. ASSUME stopped, Start(watched) PROVE ListenTypeOK'
  BY <1>0, <1>2, RefreshTypes DEF Start, timers, ListenTypeOK
<1>3. ASSUME Stop PROVE ListenTypeOK'
  BY <1>3, CloseTypes DEF Stop, ListenTypeOK, opening
<1>4. ASSUME DebounceFires PROVE ListenTypeOK'
  BY <1>0, <1>4, RefreshTypes DEF DebounceFires, ListenTypeOK
<1>5. ASSUME RetryFires PROVE ListenTypeOK'
  BY <1>0, <1>5, RefreshTypes DEF RetryFires, ListenTypeOK
<1>6. ASSUME Retired PROVE ListenTypeOK'
  BY <1>6, FinallyTypes DEF Retired, ListenTypeOK, timers
<1>7. ASSUME OpenFails PROVE ListenTypeOK'
  BY <1>7, FinallyTypes DEF OpenFails, ScheduleReopen, ListenTypeOK
<1>8. ASSUME NEW s \in Streams, Opened(s) PROVE ListenTypeOK'
  BY <1>8 DEF Opened, ListenTypeOK, timers, Empty, Filters
<1>9. ASSUME NEW s \in Streams, HearsLoss(s) PROVE ListenTypeOK'
  BY <1>9 DEF HearsLoss, ScheduleReopen, ListenTypeOK, opening, Empty, Filters
<1>10. ASSUME NEW ss \in SUBSET Streams, Lost(ss),
             UNCHANGED <<lists, stopped, watched, timers, opening, current, filter>>
      PROVE ListenTypeOK'
  BY <1>10 DEF Lost, ListenTypeOK, timers, opening
<1>11. ASSUME stopped, lists' \in BOOLEAN,
             UNCHANGED <<stopped, watched, timers, opening, streams>>
      PROVE ListenTypeOK'
  BY <1>11 DEF ListenTypeOK, timers, opening, streams
<1> QED BY <1>1, <1>2, <1>3, <1>4, <1>5, <1>6, <1>7, <1>8, <1>9, <1>10, <1>11 DEF ManagerStep

\* Every step keeps one stream at most open, and the opener in the know.
LEMMA ManagerOneStream ==
  ASSUME ListenTypeOK, OneStream, OpenerInv, ManagerStep
  PROVE  (OneStream /\ OpenerInv)'
<1> USE ListenAssumption DEF ListenTypeOK, Filters, Empty, Desired, timers, opening, streams, OneStream, OpenerInv
<1>1. ASSUME NEW us \in SUBSET Uris, SetObserved(us) PROVE (OneStream /\ OpenerInv)'
  BY <1>1 DEF SetObserved
<1>2. ASSUME stopped, Start(watched) PROVE (OneStream /\ OpenerInv)'
  BY <1>2 DEF Start, Refresh, Open, Close
<1>3. ASSUME Stop PROVE (OneStream /\ OpenerInv)'
  BY <1>3 DEF Stop, Close
<1>4. ASSUME DebounceFires PROVE (OneStream /\ OpenerInv)'
  BY <1>4 DEF DebounceFires, Refresh, Open, Close
<1>5. ASSUME RetryFires PROVE (OneStream /\ OpenerInv)'
  BY <1>5 DEF RetryFires, Refresh, Open, Close
<1>6. ASSUME Retired PROVE (OneStream /\ OpenerInv)'
  BY <1>6 DEF Retired, Finally, Open, Close
<1>7. ASSUME OpenFails PROVE (OneStream /\ OpenerInv)'
  BY <1>7 DEF OpenFails, ScheduleReopen, Finally, Open, Close
<1>8. ASSUME NEW s \in Streams, Opened(s) PROVE (OneStream /\ OpenerInv)'
  BY <1>8 DEF Opened
<1>9. ASSUME NEW s \in Streams, HearsLoss(s) PROVE (OneStream /\ OpenerInv)'
  BY <1>9 DEF HearsLoss, ScheduleReopen
<1>10. ASSUME NEW ss \in SUBSET Streams, Lost(ss),
             UNCHANGED <<lists, stopped, watched, timers, opening, current, filter>>
      PROVE (OneStream /\ OpenerInv)'
  BY <1>10 DEF Lost
<1>11. ASSUME stopped, lists' \in BOOLEAN,
             UNCHANGED <<stopped, watched, timers, opening, streams>>
      PROVE (OneStream /\ OpenerInv)'
  BY <1>11
<1> QED BY <1>1, <1>2, <1>3, <1>4, <1>5, <1>6, <1>7, <1>8, <1>9, <1>10, <1>11 DEF ManagerStep

\* Every step keeps the filter of a stream that nobody replaces the wanted one.
LEMMA ManagerFilter ==
  ASSUME ListenTypeOK, OneStream, OpenerInv, FilterInv, ManagerStep
  PROVE  FilterInv'
<1> USE ListenAssumption DEF ListenTypeOK, Filters, Empty, Desired, timers, opening, streams, OneStream, OpenerInv, FilterInv
<1>1. ASSUME NEW us \in SUBSET Uris, SetObserved(us) PROVE FilterInv'
  BY <1>1 DEF SetObserved
<1>2. ASSUME stopped, Start(watched) PROVE FilterInv'
  BY <1>2 DEF Start, Refresh, Open, Close
<1>3. ASSUME Stop PROVE FilterInv'
  BY <1>3 DEF Stop, Close
<1>4. ASSUME DebounceFires PROVE FilterInv'
  BY <1>4 DEF DebounceFires, Refresh, Open, Close
<1>5. ASSUME RetryFires PROVE FilterInv'
  BY <1>5 DEF RetryFires, Refresh, Open, Close
<1>6. ASSUME Retired PROVE FilterInv'
  BY <1>6 DEF Retired, Finally, Open, Close
<1>7. ASSUME OpenFails PROVE FilterInv'
  BY <1>7 DEF OpenFails, ScheduleReopen, Finally, Open, Close
<1>8. ASSUME NEW s \in Streams, Opened(s) PROVE FilterInv'
  BY <1>8 DEF Opened
<1>9. ASSUME NEW s \in Streams, HearsLoss(s) PROVE FilterInv'
  BY <1>9 DEF HearsLoss, ScheduleReopen
<1>10. ASSUME NEW ss \in SUBSET Streams, Lost(ss),
             UNCHANGED <<lists, stopped, watched, timers, opening, current, filter>>
      PROVE FilterInv'
  BY <1>10 DEF Lost
<1>11. ASSUME stopped, lists' \in BOOLEAN,
             UNCHANGED <<stopped, watched, timers, opening, streams>>
      PROVE FilterInv'
  BY <1>11
<1> QED BY <1>1, <1>2, <1>3, <1>4, <1>5, <1>6, <1>7, <1>8, <1>9, <1>10, <1>11 DEF ManagerStep

\* Every step disarms the timers of a manager that stops.
LEMMA ManagerTimers ==
  ASSUME ListenTypeOK, TimersInv, ManagerStep
  PROVE  TimersInv'
<1> USE ListenAssumption DEF ListenTypeOK, Filters, Empty, Desired, timers, opening, streams, TimersInv
<1>1. ASSUME NEW us \in SUBSET Uris, SetObserved(us) PROVE TimersInv'
  BY <1>1 DEF SetObserved
<1>2. ASSUME stopped, Start(watched) PROVE TimersInv'
  BY <1>2 DEF Start, Refresh, Open, Close
<1>3. ASSUME Stop PROVE TimersInv'
  BY <1>3 DEF Stop, Close
<1>4. ASSUME DebounceFires PROVE TimersInv'
  BY <1>4 DEF DebounceFires, Refresh, Open, Close
<1>5. ASSUME RetryFires PROVE TimersInv'
  BY <1>5 DEF RetryFires, Refresh, Open, Close
<1>6. ASSUME Retired PROVE TimersInv'
  BY <1>6 DEF Retired, Finally, Open, Close
<1>7. ASSUME OpenFails PROVE TimersInv'
  BY <1>7 DEF OpenFails, ScheduleReopen, Finally, Open, Close
<1>8. ASSUME NEW s \in Streams, Opened(s) PROVE TimersInv'
  BY <1>8 DEF Opened
<1>9. ASSUME NEW s \in Streams, HearsLoss(s) PROVE TimersInv'
  BY <1>9 DEF HearsLoss, ScheduleReopen
<1>10. ASSUME NEW ss \in SUBSET Streams, Lost(ss),
             UNCHANGED <<lists, stopped, watched, timers, opening, current, filter>>
      PROVE TimersInv'
  BY <1>10 DEF Lost
<1>11. ASSUME stopped, lists' \in BOOLEAN,
             UNCHANGED <<stopped, watched, timers, opening, streams>>
      PROVE TimersInv'
  BY <1>11
<1> QED BY <1>1, <1>2, <1>3, <1>4, <1>5, <1>6, <1>7, <1>8, <1>9, <1>10, <1>11 DEF ManagerStep

\* Every step leaves a manager that wants a stream with one, or somebody to open it.
LEMMA ManagerAttends ==
  ASSUME ListenTypeOK, OneStream, OpenerInv, ListensOrRetries, ManagerStep
  PROVE  ListensOrRetries'
<1> USE ListenAssumption DEF ListenTypeOK, Filters, Empty, Desired, timers, opening, streams, OneStream, OpenerInv, ListensOrRetries, Wanted, Attended
<1>1. ASSUME NEW us \in SUBSET Uris, SetObserved(us) PROVE ListensOrRetries'
  BY <1>1 DEF SetObserved
<1>2. ASSUME stopped, Start(watched) PROVE ListensOrRetries'
  BY <1>2 DEF Start, Refresh, Open, Close
<1>3. ASSUME Stop PROVE ListensOrRetries'
  BY <1>3 DEF Stop, Close
<1>4. ASSUME DebounceFires PROVE ListensOrRetries'
  BY <1>4 DEF DebounceFires, Refresh, Open, Close
<1>5. ASSUME RetryFires PROVE ListensOrRetries'
  BY <1>5 DEF RetryFires, Refresh, Open, Close
<1>6. ASSUME Retired PROVE ListensOrRetries'
  BY <1>6 DEF Retired, Finally, Open, Close
<1>7. ASSUME OpenFails PROVE ListensOrRetries'
  BY <1>7 DEF OpenFails, ScheduleReopen, Finally, Open, Close
<1>8. ASSUME NEW s \in Streams, Opened(s) PROVE ListensOrRetries'
  BY <1>8 DEF Opened
<1>9. ASSUME NEW s \in Streams, HearsLoss(s) PROVE ListensOrRetries'
  BY <1>9 DEF HearsLoss, ScheduleReopen
<1>10. ASSUME NEW ss \in SUBSET Streams, Lost(ss),
             UNCHANGED <<lists, stopped, watched, timers, opening, current, filter>>
      PROVE ListensOrRetries'
  BY <1>10 DEF Lost
<1>11. ASSUME stopped, lists' \in BOOLEAN,
             UNCHANGED <<stopped, watched, timers, opening, streams>>
      PROVE ListensOrRetries'
  BY <1>11
<1> QED BY <1>1, <1>2, <1>3, <1>4, <1>5, <1>6, <1>7, <1>8, <1>9, <1>10, <1>11 DEF ManagerStep

-----------------------------------------------------------------------------
(* The catalog                                                             *)

LEMMA CarriersCounted == Cardinality(Carriers) \in Nat
<1>1. IsFiniteSet(Carriers)
  BY ListenAssumption, FS_Subset DEF Carriers
<1> QED BY <1>1, FS_CardinalityType

LEMMA RelistTypes ==
  ASSUME CatalogTypeOK, Relist
  PROVE  gen' \in 1 .. MaxGen /\ relists' \in [Gens -> 0 .. NoList]
BY CatalogAssumption DEF CatalogTypeOK, Relist, Gens, NoList

LEMMA FaultTypes ==
  ASSUME CatalogTypeOK, Mishap, UNCHANGED regime
  PROVE  losses' \in 0 .. regime'.maxFaults
<1>1. regime.maxFaults \in Nat
  BY CatalogAssumption DEF CatalogTypeOK, RegimeType
<1> QED BY <1>1 DEF CatalogTypeOK, Mishap

\* The variables of the connection and of the catalog keep their types.
LEMMA CatalogTypes ==
  ASSUME CatalogTypeOK, ConnInv, [CatalogNext]_noticeVars
  PROVE  CatalogTypeOK'
<1>1. ListenTypeOK'
  <2>1. CASE UNCHANGED listenVars
    BY <2>1 DEF CatalogTypeOK, ListenTypeOK, listenVars, timers, opening, streams
  <2> QED BY <2>1, StepIsManagerStep, ManagerTypes DEF CatalogTypeOK
<1>2. CASE ConnDials
  <2>1. gen' \in 1 .. MaxGen /\ relists' \in [Gens -> 0 .. NoList]
    BY <1>2, RelistTypes DEF ConnDials
  <2>2. wired' \in BOOLEAN /\ unheard' \in BOOLEAN
    BY <1>2 DEF ConnDials
  <2> QED BY <1>1, <1>2, <2>1, <2>2 DEF ConnDials, CatalogTypeOK
<1>3. CASE Listed
  BY <1>1, <1>3, CatalogAssumption DEF Listed, CatalogTypeOK
<1>4. CASE ConnDrops
  <2>1. losses' \in 0 .. regime'.maxFaults
    BY <1>4, FaultTypes DEF ConnDrops
  <2>2. relists' \in [Gens -> 0 .. NoList]
    BY <1>4, CatalogAssumption DEF ConnDrops, NoList
  <2>3. wired' \in BOOLEAN
    BY <1>4 DEF ConnDrops
  <2> QED BY <1>1, <1>4, <2>1, <2>2, <2>3, CatalogAssumption DEF ConnDrops, CatalogTypeOK
<1> USE <1>1, CatalogAssumption DEF CatalogTypeOK, RegimeType, Gens, NoList
<1>5. CASE Reconnects
  BY <1>5 DEF Reconnects, catalogVars
<1>6. CASE ServerChanges
  BY <1>6, CarriersCounted, SMTT(30) DEF ServerChanges
<1>7. CASE NewsArrives
  BY <1>7 DEF NewsArrives, Relist
<1>8. ASSUME NEW g \in Gens, Answers(g) PROVE CatalogTypeOK'
  BY <1>8 DEF Answers
<1>9. ASSUME NEW g \in Gens, ListArrives(g) PROVE CatalogTypeOK'
  BY <1>9 DEF ListArrives
<1>10. CASE ListenAnswered \/ ListenRejected \/ ManagerSteps \/ ObserversChange
  <2>1. UNCHANGED <<regime, conn, wired, edition, news, gen, relists, first, catalog, unheard>>
    BY <1>10 DEF ListenAnswered, ListenRejected, ManagerSteps, ObserversChange, ConnUnchanged,
                 catalogVars
  <2>2. UNCHANGED losses \/ Mishap
    BY <1>10 DEF ListenAnswered, ListenRejected, ManagerSteps, ObserversChange
  <2>3. losses' \in 0 .. regime.maxFaults
    BY <2>1, <2>2, FaultTypes
  <2> QED BY <1>1, <2>1, <2>3
<1>11. ASSUME NEW s \in Streams, StreamLost(s) PROVE CatalogTypeOK'
  BY <1>11 DEF StreamLost, ConnUnchanged, catalogVars, Mishap
<1>12. CASE UNCHANGED noticeVars
  BY <1>12 DEF noticeVars, catalogVars
<1> QED BY <1>2, <1>3, <1>4, <1>5, <1>6, <1>7, <1>8, <1>9, <1>10, <1>11, <1>12 DEF CatalogNext

\* Every step keeps the ages of what is answered and applied in order, the latest re-list
\* fresh, and the manager at rest until the connection is up.
LEMMA CatalogStep ==
  ASSUME CatalogTypeOK, ConnInv, AgesInv, FreshInv, [CatalogNext]_noticeVars
  PROVE  ConnInv' /\ AgesInv' /\ FreshInv'
<1> USE CatalogAssumption DEF CatalogTypeOK, ListenTypeOK, ConnInv, AgesInv, FreshInv, Gens, NoList
<1>1. CASE ConnDials
  BY <1>1, SMTT(30) DEF ConnDials, Relist
<1>2. CASE Listed
  BY <1>2 DEF Listed
<1>3. CASE ConnDrops
  BY <1>3 DEF ConnDrops
<1>4. CASE Reconnects
  BY <1>4 DEF Reconnects, Stop, catalogVars
<1>5. CASE ServerChanges
  <2> DEFINE told == IF regime.modern THEN Cardinality(Carriers)
                     ELSE IF wired /\ lists THEN 1 ELSE 0
  <2>1. told \in Nat
    BY CarriersCounted
  <2>2. news' = news + told /\ unheard' = (unheard \/ told = 0)
    BY <1>5 DEF ServerChanges
  <2> HIDE DEF told
  <2>3. told = 0 => unheard'
    BY <2>2
  <2>4. told # 0 => news' # 0
    BY <2>1, <2>2
  <2> QED BY <1>5, <2>3, <2>4 DEF ServerChanges, listenVars
<1>6. CASE NewsArrives
  BY <1>6 DEF NewsArrives, Relist, listenVars
<1>7. ASSUME NEW g \in Gens, Answers(g) PROVE ConnInv' /\ AgesInv' /\ FreshInv'
  BY <1>7 DEF Answers, listenVars
<1>8. ASSUME NEW g \in Gens, ListArrives(g) PROVE ConnInv' /\ AgesInv' /\ FreshInv'
  BY <1>8 DEF ListArrives, Applies, listenVars
<1>9. CASE ListenAnswered \/ ListenRejected \/ ManagerSteps \/ ObserversChange
  <2>1. UNCHANGED <<conn, catalogVars, stopped>>
    BY <1>9 DEF ListenAnswered, ListenRejected, ManagerSteps, ObserversChange, ConnUnchanged,
                Opened, OpenFails, DebounceFires, RetryFires, Retired, HearsLoss, SetObserved
  <2> QED BY <2>1 DEF catalogVars
<1>10. ASSUME NEW s \in Streams, StreamLost(s) PROVE ConnInv' /\ AgesInv' /\ FreshInv'
  BY <1>10 DEF StreamLost, ConnUnchanged, catalogVars
<1>11. CASE UNCHANGED noticeVars
  BY <1>11 DEF noticeVars, catalogVars, listenVars
<1> QED BY <1>1, <1>2, <1>3, <1>4, <1>5, <1>6, <1>7, <1>8, <1>9, <1>10, <1>11 DEF CatalogNext

-----------------------------------------------------------------------------
(* The theorems                                                            *)

LEMMA CatalogInvariant == CatalogSpec => []Inv
<1>1. CatalogInit => Inv
  <2> SUFFICES ASSUME CatalogInit PROVE Inv
    OBVIOUS
  <2>1. ManagerInv
    BY ListenAssumption
    DEF CatalogInit, ListenInit, ManagerInv, ListenTypeOK, OneStream, OpenerInv, FilterInv, TimersInv,
        ListensOrRetries, Wanted, Filters, Empty
  <2>2. regime.maxFaults \in Nat
    BY CatalogAssumption DEF CatalogInit, RegimeType
  <2>3. CatalogTypeOK
    <3>1. wired \in BOOLEAN /\ unheard \in BOOLEAN
      BY DEF CatalogInit
    <3> QED BY <2>1, <2>2, <3>1, CatalogAssumption DEF CatalogInit, ManagerInv, CatalogTypeOK, Gens, NoList
  <2>4. ConnInv /\ AgesInv /\ FreshInv
    BY CatalogAssumption DEF CatalogInit, ListenInit, ConnInv, AgesInv, FreshInv, NoList
  <2> QED BY <2>1, <2>3, <2>4 DEF Inv
<1>2. Inv /\ [CatalogNext]_noticeVars => Inv'
  <2> SUFFICES ASSUME Inv, [CatalogNext]_noticeVars PROVE Inv'
    OBVIOUS
  <2> USE DEF Inv
  <2>1. CatalogTypeOK'
    BY CatalogTypes
  <2>2. ConnInv' /\ AgesInv' /\ FreshInv'
    BY CatalogStep
  <2>3. ManagerInv'
    <3>1. ListenTypeOK'
      BY <2>1 DEF CatalogTypeOK
    <3>2. CASE ManagerStep
      BY <3>1, <3>2, ManagerOneStream, ManagerFilter, ManagerTimers, ManagerAttends DEF ManagerInv
    <3>3. CASE UNCHANGED listenVars
      BY <3>1, <3>3 DEF ManagerInv, OneStream, OpenerInv, FilterInv, TimersInv, ListensOrRetries, Wanted,
         Attended, Desired, listenVars, timers, opening, streams
    <3> QED BY <3>2, <3>3, StepIsManagerStep
  <2> QED BY <2>1, <2>2, <2>3
<1> QED BY <1>1, <1>2, PTL DEF CatalogSpec

\* Every variable of the connection, its catalog and its stream keeps its type.
THEOREM TypeCorrect == CatalogSpec => []CatalogTypeOK
BY CatalogInvariant, PTL DEF Inv

\* The stream that nobody is about to replace carries the filter the observers want
\* (refresh() and setObserved() of listen.ts).
THEOREM FilterIsCurrent == CatalogSpec => []FilterCurrent
<1>1. Inv => FilterCurrent
  BY DEF Inv, ManagerInv, FilterInv, ListenTypeOK, FilterCurrent
<1> QED BY <1>1, CatalogInvariant, PTL

\* However its refreshes overlap, a manager never holds two open streams.
THEOREM AtMostOneStream == CatalogSpec => []OneStream
BY CatalogInvariant, PTL DEF Inv, ManagerInv

\* A manager that wants a stream has one or will try again, unless a stop left the handle of
\* a cleared retry timer behind.
THEOREM ListensOrRetriesAlways == CatalogSpec => []ListensOrRetries
BY CatalogInvariant, PTL DEF Inv, ManagerInv

\* The generation guard of relist(): once every notification has been followed up, the
\* registry is the catalog of the server.
THEOREM CatalogIsCurrent == CatalogSpec => []CatalogCurrent
<1>1. Inv => CatalogCurrent
  BY CatalogAssumption DEF Inv, CatalogTypeOK, FreshInv, CatalogCurrent, Gens, NoList
<1> QED BY <1>1, CatalogInvariant, PTL

\* Neither the filter of the stream nor the registry is left behind.
THEOREM NothingIsStale == CatalogSpec => []NothingStale
BY FilterIsCurrent, CatalogIsCurrent, PTL DEF NothingStale

\* No answer, however late, takes the registry back to an older catalog.
THEOREM CatalogNeverGoesBack == CatalogSpec => NeverBackwards
<1>1. Inv /\ [CatalogNext]_noticeVars => [catalog' >= catalog]_noticeVars
  <2> SUFFICES ASSUME Inv, [CatalogNext]_noticeVars PROVE catalog' >= catalog
    OBVIOUS
  <2> USE CatalogAssumption DEF Inv, CatalogTypeOK, Gens, NoList
  <2>1. ASSUME NEW g \in Gens, ListArrives(g) PROVE catalog' >= catalog
    BY <2>1 DEF ListArrives, Applies, AgesInv
  <2>2. CASE UNCHANGED catalog
    BY <2>2
  <2>3. [CatalogNext]_noticeVars => UNCHANGED catalog \/ \E g \in Gens : ListArrives(g)
    BY DEF CatalogNext, noticeVars, catalogVars, ConnDials, Listed, ConnDrops, Reconnects, ServerChanges, NewsArrives, Answers,
           ListenAnswered, ListenRejected, StreamLost, ManagerSteps, ObserversChange, ConnUnchanged
  <2> QED BY <2>1, <2>2, <2>3
<1> QED BY <1>1, CatalogInvariant, PTL DEF CatalogSpec, NeverBackwards

\* A stream is replaced by an open one, or given up because nothing is wanted any more: the
\* order of listen() and close() in refresh().
THEOREM NoGapEver == CatalogSpec => NoGap
<1>1. Inv /\ [CatalogNext]_noticeVars => [NoStreamGivenUp]_listenVars
  <2> SUFFICES ASSUME Inv, [CatalogNext]_noticeVars, ManagerStep PROVE NoStreamGivenUp
    BY StepIsManagerStep DEF Inv
  <2> USE DEF Inv, ManagerInv, ListenTypeOK, OneStream, OpenerInv, NoStreamGivenUp,
             timers, opening, streams
  <2>1. ASSUME NEW us \in SUBSET Uris, SetObserved(us) PROVE NoStreamGivenUp
    BY <2>1 DEF SetObserved
  <2>2. CASE stopped \/ Stop
    BY <2>2 DEF Stop
  <2>3. CASE DebounceFires \/ RetryFires
    BY <2>3 DEF DebounceFires, RetryFires, Refresh, Open
  <2>4. CASE Retired \/ OpenFails
    BY <2>4 DEF Retired, OpenFails, Finally, Open
  <2>5. ASSUME NEW s \in Streams, Opened(s) PROVE NoStreamGivenUp
    BY <2>5 DEF Opened
  <2>6. ASSUME NEW s \in Streams, HearsLoss(s) PROVE NoStreamGivenUp
    BY <2>6 DEF HearsLoss
  <2>7. ASSUME NEW ss \in SUBSET Streams, Lost(ss) PROVE NoStreamGivenUp
    BY <2>7 DEF Lost
  <2> QED BY <2>1, <2>2, <2>3, <2>4, <2>5, <2>6, <2>7 DEF ManagerStep
<1> QED BY <1>1, CatalogInvariant, PTL DEF CatalogSpec, NoGap

=============================================================================
