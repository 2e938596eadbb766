-------------------------- MODULE ClientPartsProofs --------------------------
(***************************************************************************)
(* Proofs about the machines on the client's side that stand alone: the    *)
(* sessions of a multi-tenant host, the TanStack bridge, the tools of a    *)
(* web page, payments, the file of credentials, the upstreams of a live    *)
(* gate, the hooks, and the applications: the composer, a draft, recording *)
(* and replay, an open note, the sessions of an app, the local proxy.      *)
(***************************************************************************)
EXTENDS Sessions, Mirror, WebBridge, PayAndRetry, TokenCache, Upstreams, Hooks, Composer,
        Draft, RecordReplay, AppHost, LiveFile, ProxyLink, FiniteSetTheorems, SequenceTheorems,
        WellFoundedInduction, TLAPS

-----------------------------------------------------------------------------
(* Sessions                                                                *)

SessionsInv == SessionsTypeOK /\ NoClientLost

LEMMA SessionsInvStep ==
  ASSUME SessionsInv, [SessionsNext]_sessionVars
  PROVE  SessionsInv'
<1> USE SessionsAssumption DEF SessionsAssumption, SessionsInv, SessionsTypeOK, NoClientLost, Held, Clients, NoClient
<1>1. ASSUME NEW p \in Principals, GetSession(p) PROVE SessionsInv'
  BY <1>1, SMTT(30) DEF GetSession
<1>2. ASSUME NEW p \in Principals, Ages(p) PROVE SessionsInv'
  BY <1>2 DEF Ages
<1>3. ASSUME NEW ps \in SUBSET Principals, Evict(ps) PROVE SessionsInv'
  <2>1. SessionsTypeOK'
    <3>1. 0 \in 0 .. MaxClients
      OBVIOUS
    <3>2. Evicted(ps) \subseteq Clients
      BY DEF Evicted
    <3>3. QED BY <1>3, <3>1, <3>2 DEF Evict
  <2>2. ASSUME NEW c \in Clients, client[c] \in {"creating", "connected"}
        PROVE  Held(c)' \/ c \in evicting'
    <3>1. CASE c \in evicting
      BY <1>3, <3>1 DEF Evict
    <3>2. CASE c \notin evicting
      <4>1. PICK p \in Principals : sessions[p] = c
        BY <2>2, <3>2
      <4>2. CASE p \in ps
        BY <1>3, <4>1, <4>2 DEF Evict, Evicted
      <4>3. CASE p \notin ps
        BY <1>3, <4>1, <4>3 DEF Evict
      <4>4. QED BY <4>2, <4>3
    <3>3. QED BY <3>1, <3>2
  <2>3. QED BY <1>3, <2>1, <2>2 DEF Evict
<1>4. ASSUME NEW c \in Clients, Created(c) PROVE SessionsInv'
  BY <1>4 DEF Created
<1>5. ASSUME NEW c \in Clients, DrainEnds(c) PROVE SessionsInv'
  BY <1>5 DEF DrainEnds
<1>6. CASE UNCHANGED sessionVars
  BY <1>6 DEF sessionVars
<1>7. QED
  BY <1>1, <1>2, <1>3, <1>4, <1>5, <1>6 DEF SessionsNext, EvictOne, Sweep, CloseAll

\* No client that is being made or is connected is ever lost (session/index.ts:31-61): not for
\* any number of principals, nor in any order of get(), evict(), sweep() and closeAll().
THEOREM NoClientIsLost == SessionsSpec => []NoClientLost
<1>1. SessionsInit => SessionsInv
  BY SessionsAssumption DEF SessionsAssumption, SessionsInit, SessionsInv, SessionsTypeOK, NoClientLost, Held,
     Clients, NoClient
<1>2. SessionsInv => NoClientLost
  BY DEF SessionsInv
<1>3. QED BY <1>1, <1>2, SessionsInvStep, PTL DEF SessionsSpec

\* Who has whose client.

SessionsOwn ==
  /\ \A p \in Principals : sessions[p] \in 0 .. asked
  /\ \A c \in evicting : c \in 1 .. asked

\* One MCPClient per principal: no two principals share a client, and nobody is given one that
\* an eviction has taken out of the map or has drained.
NoClientShared ==
  /\ \A p, q \in Principals : sessions[p] = sessions[q] /\ sessions[p] # NoClient => p = q
  /\ \A p \in Principals :
       sessions[p] # NoClient => sessions[p] \notin evicting /\ client[sessions[p]] # "drained"

SharingInv == SessionsOwn /\ NoClientShared

LEMMA SharingStep ==
  ASSUME SessionsInv, SharingInv, [SessionsNext]_sessionVars
  PROVE  SharingInv'
<1> USE SessionsAssumption DEF SessionsAssumption, SessionsInv, SessionsTypeOK, SharingInv, SessionsOwn,
      NoClientShared, Clients, NoClient
<1>1. ASSUME NEW p \in Principals, GetSession(p) PROVE SharingInv'
  <2>1. CASE UNCHANGED <<sessions, asked, client, evicting>>
    BY <2>1
  <2>2. CASE /\ asked < MaxClients /\ asked' = asked + 1
             /\ sessions' = [sessions EXCEPT ![p] = asked + 1]
             /\ client' = [client EXCEPT ![asked + 1] = "creating"]
             /\ UNCHANGED evicting
    <3>1. asked + 1 \in 1 .. MaxClients /\ asked \in Nat
      BY <2>2
    <3>2. sessions'[p] = asked + 1 /\ \A q \in Principals \ {p} : sessions'[q] = sessions[q]
      BY <2>2
    <3>3. client'[asked + 1] = "creating" /\ \A c \in 1 .. asked : client'[c] = client[c]
      BY <2>2, <3>1
    <3>4. SessionsOwn'
      BY <2>2, <3>1, <3>2
    <3>5. \A q, r \in Principals : sessions'[q] = sessions'[r] /\ sessions'[q] # 0 => q = r
      BY <3>1, <3>2
    <3>6. \A q \in Principals : sessions'[q] # 0 => sessions'[q] \notin evicting'
      BY <2>2, <3>1, <3>2
    <3>7. ASSUME NEW q \in Principals, sessions'[q] # 0 PROVE client'[sessions'[q]] # "drained"
      BY <3>1, <3>2, <3>3, <3>7
    <3>8. QED BY <3>4, <3>5, <3>6, <3>7
  <2>3. QED BY <1>1, <2>1, <2>2 DEF GetSession
<1>2. ASSUME NEW p \in Principals, Ages(p) PROVE SharingInv'
  BY <1>2 DEF Ages
<1>3. ASSUME NEW ps \in SUBSET Principals, Evict(ps) PROVE SharingInv'
  <2>1. /\ \A p \in Principals : sessions'[p] = IF p \in ps THEN 0 ELSE sessions[p]
        /\ evicting' = evicting \cup Evicted(ps) /\ UNCHANGED <<asked, client>>
    BY <1>3 DEF Evict
  <2>2. ASSUME NEW c \in Evicted(ps) PROVE c \in 1 .. asked /\ \A p \in Principals \ ps : sessions[p] # c
    <3>1. PICK q \in ps : c = sessions[q] /\ c # 0
      BY DEF Evicted
    <3>2. QED BY <3>1
  <2>3. SessionsOwn'
    BY <2>1, <2>2
  <2>4. NoClientShared'
    BY <2>1, <2>2
  <2>5. QED BY <2>3, <2>4
<1>4. ASSUME NEW c \in Clients, Created(c) PROVE SharingInv'
  BY <1>4 DEF Created
<1>5. ASSUME NEW c \in Clients, DrainEnds(c) PROVE SharingInv'
  BY <1>5 DEF DrainEnds
<1>6. CASE UNCHANGED sessionVars
  BY <1>6 DEF sessionVars
<1>7. ASSUME SessionsNext PROVE SharingInv'
  <2>1. CASE Sweep \/ CloseAll \/ \E p \in Principals : EvictOne(p)
    <3>1. PICK ps : Evict(ps) /\ (ps = idle \/ ps = Principals \/ \E p \in Principals : ps = {p})
      BY <2>1 DEF Sweep, CloseAll, EvictOne
    <3>2. ps \in SUBSET Principals
      BY <3>1
    <3>3. QED BY <1>3, <3>1, <3>2
  <2>2. QED BY <1>1, <1>2, <1>4, <1>5, <1>7, <2>1 DEF SessionsNext
<1>8. QED BY <1>6, <1>7

\* Principals are kept apart: in every interleaving of get(), evict(), sweep() and closeAll()
\* with create(), each has a client of its own, and one that nobody is going to drain under it
\* (session/index.ts:31-61).
THEOREM PrincipalsAreKeptApart == SessionsSpec => []NoClientShared
<1>1. SessionsInit => SharingInv
  BY SessionsAssumption DEF SessionsAssumption, SessionsInit, SharingInv, SessionsOwn, NoClientShared, NoClient
<1>2. SharingInv => NoClientShared
  BY DEF SharingInv
<1>3. SessionsSpec => []SessionsInv
  <2>1. SessionsInit => SessionsInv
    BY SessionsAssumption DEF SessionsAssumption, SessionsInit, SessionsInv, SessionsTypeOK, NoClientLost, Clients, NoClient
  <2>2. QED BY <2>1, SessionsInvStep, PTL DEF SessionsSpec
<1>4. QED BY <1>1, <1>2, <1>3, SharingStep, PTL DEF SessionsSpec

-----------------------------------------------------------------------------
(* The TanStack bridge                                                     *)

MirrorInv == MirrorTypeOK /\ SyncedIsMirrored

LEMMA MirrorInvStep ==
  ASSUME MirrorInv, [MirrorNext]_mirrorVars
  PROVE  MirrorInv'
<1> USE MirrorAssumption DEF MirrorAssumption, MirrorInv, MirrorTypeOK, SyncedIsMirrored
<1>0. 0 \in 0 .. MaxWrites
  OBVIOUS
<1>1. CASE QueryRuns BY <1>1 DEF QueryRuns
<1>2. CASE ReadAnswered BY <1>2 DEF ReadAnswered, CacheWrites
<1>3. CASE ReadShared BY <1>3 DEF ReadShared
<1>4. CASE ReadFails BY <1>0, <1>4 DEF ReadFails
<1>5. CASE QueryResolves BY <1>5 DEF QueryResolves
<1>6. CASE OwnWrite BY <1>6 DEF OwnWrite, CacheWrites
<1>7. CASE PushInvalidates BY <1>7 DEF PushInvalidates
<1>8. CASE QueryRemoved BY <1>0, <1>8 DEF QueryRemoved, SyncedAfterRemoval
<1>9. CASE Detach BY <1>9 DEF Detach
<1>10. CASE UNCHANGED mirrorVars BY <1>10 DEF mirrorVars
<1>11. QED
  BY <1>1, <1>2, <1>3, <1>4, <1>5, <1>6, <1>7, <1>8, <1>9, <1>10 DEF MirrorNext

\* However reads, writes, removals and the teardown interleave, a bridged query at rest shows
\* what mcp-query has, and nothing stays subscribed for a query that has gone (bridge.ts:5-16).
THEOREM BridgedIsMirrored == MirrorSpec => []SyncedIsMirrored
<1>0. 0 \in 0 .. MaxWrites
  BY MirrorAssumption DEF MirrorAssumption
<1>1. MirrorInit => MirrorInv
  BY <1>0 DEF MirrorInit, MirrorInv, MirrorTypeOK, SyncedIsMirrored
<1>2. MirrorInv => SyncedIsMirrored
  BY DEF MirrorInv
<1>3. QED BY <1>1, <1>2, MirrorInvStep, PTL DEF MirrorSpec

-----------------------------------------------------------------------------
(* The tools of a web page                                                 *)

\* The bridge has a controller for the tools of the catalog and for no other, and the page has
\* no tool of the bridge without one.
Registered ==
  /\ registered = (IF bridge THEN tools ELSE {})
  /\ asking \subseteq registered
  /\ \A n \in ToolNames : page[n] = "bridge" => n \in registered
  /\ ~clashed => \A n \in ToolNames : page[n] # "other"

WebInv == WebTypeOK /\ Registered /\ PageHasCatalog

LEMMA WebInvStep ==
  ASSUME WebInv, [WebNext]_webVars
  PROVE  WebInv'
<1> USE WebAssumption DEF WebAssumption, WebInv, WebTypeOK, Registered, PageHasCatalog
<1>1. CASE Stop BY <1>1 DEF Stop
<1>2. ASSUME NEW desired \in SUBSET ToolNames, CatalogRead(desired) PROVE WebInv'
  <2>1. CASE bridge BY <1>2, <2>1 DEF CatalogRead, Synced, Sync
  <2>2. CASE ~bridge BY <1>2, <2>2 DEF CatalogRead
  <2>3. QED BY <2>1, <2>2
<1>3. ASSUME NEW n \in ToolNames, RegisterSettles(n) PROVE WebInv'
  BY <1>3 DEF RegisterSettles
<1>4. ASSUME NEW n \in ToolNames, OtherScript(n) PROVE WebInv'
  BY <1>4 DEF OtherScript
<1>5. ASSUME NEW n \in ToolNames, Execute(n) PROVE WebInv'
  BY <1>5 DEF Execute
<1>6. CASE UNCHANGED webVars BY <1>6 DEF webVars
<1>7. QED BY <1>1, <1>2, <1>3, <1>4, <1>5, <1>6 DEF WebNext

\* The page has the bridge's tools of the catalog and no other, whatever the order of listings,
\* registrations, other scripts and the stop (webmcp/index.ts:123-127).
THEOREM PageAlwaysHasCatalog == WebSpec => []PageHasCatalog
<1>1. WebInit => WebInv
  <2> SUFFICES ASSUME WebInit PROVE WebInv
    OBVIOUS
  <2>1. 0 \in 0 .. MaxSyncs
    BY WebAssumption DEF WebAssumption
  <2>2. WebTypeOK
    BY <2>1 DEF WebInit, WebTypeOK
  <2>3. Registered /\ PageHasCatalog
    BY DEF WebInit, Registered, PageHasCatalog
  <2>4. QED BY <2>2, <2>3 DEF WebInv
<1>2. WebInv => PageHasCatalog
  BY DEF WebInv
<1>3. QED BY <1>1, <1>2, WebInvStep, PTL DEF WebSpec

-----------------------------------------------------------------------------
(* Payments                                                                *)

\* A call has been sent once for each run of the chain and once more for the paid retry; one
\* that is about to be sent is counted already.
Counted ==
  LET due == IF at = "sending" THEN 1 ELSE 0
      paid == IF x402Retried THEN 1 ELSE 0
  IN  operation.kind = "call" =>
        /\ sent + due <= chains + paid
        /\ x402Retried => operation.readOnly

PayInv == /\ operation \in OperationType
          /\ sent \in Nat /\ chains \in Nat /\ x402Retried \in BOOLEAN
          /\ Counted

LEMMA PayInvStep ==
  ASSUME PayInv, [PayNext]_payVars
  PROVE  PayInv'
<1> USE DEF PayInv, Counted
<1>1. CASE Answered BY <1>1 DEF Answered, Retries
<1>2. CASE Caught BY <1>2 DEF Caught, Throw
<1>3. CASE Verdict
  <2>1. CASE Throw("refused") /\ UNCHANGED <<attempt, x402Retried, again>>
    BY <1>3, <2>1 DEF Verdict, Throw
  <2>2. CASE /\ IsIdempotent(operation) /\ ~x402Retried
             /\ x402Retried' = TRUE /\ at' = "sending"
    <3>1. operation.kind = "call" => operation.readOnly /\ sent + 1 <= chains + 1
      BY <1>3, <2>2 DEF Verdict, IsIdempotent
    <3>2. UNCHANGED <<operation, chains, sent>>
      BY <1>3 DEF Verdict
    <3>3. QED BY <2>2, <3>1, <3>2
  <2>3. QED BY <1>3, <2>1, <2>2 DEF Verdict
<1>4. CASE CaughtAgain BY <1>4 DEF CaughtAgain, Throw
<1>5. CASE HostRunsAgain BY <1>5 DEF HostRunsAgain
<1>6. CASE UNCHANGED payVars BY <1>6 DEF payVars
<1>7. QED BY <1>1, <1>2, <1>3, <1>4, <1>5, <1>6 DEF PayNext

\* However often withRetry() tries and the host runs the chain again, a call is paid for once
\* at most, and only a read-only one is sent again for it (x402Interceptor.ts:77-81).
THEOREM CallsPaidOnce == PaySpec => []NothingPaidTwice
<1>1. PayInit => PayInv
  <2> SUFFICES ASSUME PayInit PROVE PayInv
    OBVIOUS
  <2>1. sent = 0 /\ chains = 1 /\ ~x402Retried /\ x402Retried \in BOOLEAN
    BY DEF PayInit
  <2>2. Counted
    BY <2>1 DEF Counted
  <2>3. QED BY <2>1, <2>2 DEF PayInit, PayInv
<1>2. PayInv => NothingPaidTwice
  BY DEF PayInv, Counted, NothingPaidTwice
<1>3. QED BY <1>1, <1>2, PayInvStep, PTL DEF PaySpec

-----------------------------------------------------------------------------
(* The file of credentials                                                 *)

\* Where the last tokens are while one process at a time uses the file: in the file and in the
\* copy, except that one is still to be saved after an answer and to be written after that.
TokensAt(p) ==
  /\ proc[p] \in {"asking", "answered", "writing"} => flow[p] \in Issuers
  /\ proc[p] \in {"on", "asking"} => mem[p] = cacheFile /\ cacheFile = issued
  /\ proc[p] = "answered" =>
       /\ mem[p] = cacheFile
       /\ issued = [cacheFile EXCEPT ![flow[p]] = issued[flow[p]]]
  /\ proc[p] = "writing" => mem[p] = issued

TokenTruth ==
  (~concurrent /\ ~lost) =>
    /\ \A p, q \in Procs : proc[p] # "off" /\ proc[q] # "off" => p = q
    /\ (\A p \in Procs : proc[p] # "writing") => ~torn
    /\ (\A p \in Procs : proc[p] = "off") => cacheFile = issued
    /\ \A p \in Procs : TokensAt(p)

TokenInv == TokenTypeOK /\ TokenTruth

LEMMA TokenTypeStep ==
  ASSUME TokenTypeOK, [TokenNext]_tokenVars
  PROVE  TokenTypeOK'
<1> USE DEF TokenTypeOK, CacheType
<1>1. ASSUME NEW p \in Procs, Construct(p) PROVE TokenTypeOK'
  BY <1>1 DEF Construct
<1>2. ASSUME NEW p \in Procs, Exit(p) PROVE TokenTypeOK'
  BY <1>2 DEF Exit
<1>3. ASSUME NEW p \in Procs, NEW i \in Issuers, AsksIssuer(p, i) PROVE TokenTypeOK'
  BY <1>3 DEF AsksIssuer
<1>4. ASSUME NEW p \in Procs, Refused(p) PROVE TokenTypeOK'
  BY <1>4 DEF Refused
<1>5. ASSUME NEW p \in Procs, NEW consent \in BOOLEAN, Issues(p, consent) PROVE TokenTypeOK'
  <2>1. flow[p] \in Issuers => issued[flow[p]] + 1 \in 0 .. MaxTokens
    BY <1>5, TokenAssumption DEF Issues, TokenAssumption
  <2>2. QED BY <1>5, <2>1 DEF Issues
<1>6. ASSUME NEW p \in Procs, Saves(p) PROVE TokenTypeOK'
  BY <1>6, ZenonT(30) DEF Saves, Saved
<1>7. ASSUME NEW p \in Procs, Written(p) PROVE TokenTypeOK'
  BY <1>7 DEF Written
<1>8. ASSUME NEW p \in Procs, ProcKilled(p) PROVE TokenTypeOK'
  BY <1>8 DEF ProcKilled
<1>9. CASE UNCHANGED tokenVars
  BY <1>9 DEF tokenVars
<1>10. QED
  BY <1>1, <1>2, <1>3, <1>4, <1>5, <1>6, <1>7, <1>8, <1>9 DEF TokenNext

LEMMA TokenTruthStep ==
  ASSUME TokenInv, [TokenNext]_tokenVars
  PROVE  TokenTruth'
<1> USE DEF TokenInv, TokenTypeOK, CacheType, TokenTruth, TokensAt
<1>1. ASSUME NEW p \in Procs, Construct(p) PROVE TokenTruth'
  BY <1>1 DEF Construct
<1>2. ASSUME NEW p \in Procs, Exit(p) PROVE TokenTruth'
  BY <1>2 DEF Exit
<1>3. ASSUME NEW p \in Procs, NEW i \in Issuers, AsksIssuer(p, i) PROVE TokenTruth'
  BY <1>3 DEF AsksIssuer
<1>4. ASSUME NEW p \in Procs, Refused(p) PROVE TokenTruth'
  BY <1>4 DEF Refused
<1>5. ASSUME NEW p \in Procs, NEW consent \in BOOLEAN, Issues(p, consent) PROVE TokenTruth'
  BY <1>5, ZenonT(30) DEF Issues
<1>6. ASSUME NEW p \in Procs, Saves(p) PROVE TokenTruth'
  BY <1>6 DEF Saves, Saved
<1>7. ASSUME NEW p \in Procs, Written(p) PROVE TokenTruth'
  BY <1>7 DEF Written
<1>8. ASSUME NEW p \in Procs, ProcKilled(p) PROVE TokenTruth'
  BY <1>8 DEF ProcKilled
<1>9. CASE UNCHANGED tokenVars
  BY <1>9 DEF tokenVars
<1> HIDE DEF TokenTruth
<1>10. QED
  BY <1>1, <1>2, <1>3, <1>4, <1>5, <1>6, <1>7, <1>8, <1>9 DEF TokenNext

\* A login is never lost, for any number of issuers, as long as processes use the file one
\* after the other and none dies before it has written (oauth.ts:123-180).
THEOREM LoginsAreKept == TokenSpec => []FileHasLastTokens
<1>1. TokenInit => TokenInv
  <2> SUFFICES ASSUME TokenInit PROVE TokenInv
    OBVIOUS
  <2>1. NoToken \in 0 .. MaxTokens
    BY TokenAssumption DEF TokenAssumption, NoToken
  <2>2. TokenTypeOK
    BY <2>1 DEF TokenInit, TokenTypeOK, CacheType, NoTokens
  <2>3. TokenTruth
    BY DEF TokenInit, TokenTruth, TokensAt, NoTokens
  <2>4. QED BY <2>2, <2>3 DEF TokenInv
<1>2. TokenInv /\ [TokenNext]_tokenVars => TokenInv'
  BY TokenTypeStep, TokenTruthStep DEF TokenInv
<1>3. TokenInv => FileHasLastTokens
  BY DEF TokenInv, TokenTypeOK, TokenTruth, TokensAt, FileHasLastTokens
<1>4. QED BY <1>1, <1>2, <1>3, PTL DEF TokenSpec

-----------------------------------------------------------------------------
(* The upstreams of a live gate                                            *)

\* As long as no two removals have overlapped, the one under way closes what has the name, and
\* nothing else is open.
OneRemoval ==
  ~overlapped =>
    /\ \A c \in Conns : ~Orphan(c)
    /\ \A o, p \in Operators : job[o] = "closing" /\ job[p] = "closing" => o = p
    /\ \A o \in Operators : job[o] = "closing" => closes[o] = named /\ named # Unnamed

UpInv == UpTypeOK /\ OneRemoval

LEMMA AddsKeepsUpInv ==
  ASSUME UpInv, NEW o \in Operators, job[o] # "closing", Adds(o), UNCHANGED overlapped,
         op' \in [Operators -> {"add", "remove", "update"}]
  PROVE  UpInv'
<1> USE UpstreamAssumption
    DEF UpstreamAssumption, UpInv, UpTypeOK, OneRemoval, Orphan, Conns, Unnamed
<1>1. CASE job' = [job EXCEPT ![o] = "failed"] /\ UNCHANGED <<named, made, life, closes>>
  BY <1>1
<1>2. CASE /\ named = Unnamed /\ made < MaxConns
           /\ made' = made + 1 /\ named' = made + 1
           /\ life' = [life EXCEPT ![made + 1] = "connecting"]
           /\ job' = [job EXCEPT ![o] = "connecting"]
           /\ closes' = [closes EXCEPT ![o] = made + 1]
  <2>1. made + 1 \in Conns /\ made + 1 \in 0 .. MaxConns
    BY <1>2
  <2>2. UpTypeOK'
    BY <1>2, <2>1
  <2>3. OneRemoval'
    BY <1>2, <2>1
  <2>4. QED BY <2>2, <2>3
<1>3. QED BY <1>1, <1>2 DEF Adds

LEMMA RemovesKeepsUpInv ==
  ASSUME UpInv, NEW o \in Operators, NEW what \in {"remove", "update"}, job[o] # "closing",
         Removes(o, what), op' \in [Operators -> {"add", "remove", "update"}]
  PROVE  UpInv'
<1> USE UpstreamAssumption
    DEF UpstreamAssumption, UpInv, UpTypeOK, OneRemoval, Orphan, Conns, Unnamed
<1>1. CASE named = Unnamed
  BY <1>1, ZenonT(30) DEF Removes
<1>2. CASE named # Unnamed
  <2>1. /\ overlapped' = (overlapped \/ \E p \in Operators : job[p] = "closing")
        /\ life' = [life EXCEPT ![named] = IF @ = "closed" THEN @ ELSE "closing"]
        /\ job' = [job EXCEPT ![o] = "closing"]
        /\ closes' = [closes EXCEPT ![o] = named]
        /\ UNCHANGED <<named, made>>
    BY <1>2 DEF Removes
  <2>2. named \in Conns
    BY <1>2
  <2>3. /\ life' \in [Conns -> {"unmade", "connecting", "open", "failed", "closing", "closed"}]
        /\ closes' \in [Operators -> 0 .. MaxConns] /\ overlapped' \in BOOLEAN
    <3>1. life' \in [Conns -> {"unmade", "connecting", "open", "failed", "closing", "closed"}]
      BY <2>1, <2>2
    <3>2. closes' \in [Operators -> 0 .. MaxConns]
      BY <2>1
    <3>3. (overlapped \/ \E p \in Operators : job[p] = "closing") \in BOOLEAN
      OBVIOUS
    <3>4. QED BY <2>1, <3>1, <3>2, <3>3
  <2>4. UpTypeOK'
    BY <2>1, <2>3
  <2>5. ASSUME ~overlapped' PROVE ~overlapped /\ \A p \in Operators : job[p] # "closing"
    BY <2>1, <2>5
  <2>6. OneRemoval'
    <3> SUFFICES ASSUME ~overlapped'
                 PROVE  /\ \A c \in Conns : ~Orphan(c)'
                        /\ \A q, p \in Operators :
                             job'[q] = "closing" /\ job'[p] = "closing" => q = p
                        /\ \A q \in Operators :
                             job'[q] = "closing" => closes'[q] = named' /\ named' # Unnamed
      OBVIOUS
    <3>1. \A c \in Conns : ~Orphan(c)'
      BY <2>1, <2>2, <2>5
    <3>2. \A q \in Operators : job'[q] = "closing" => q = o
      BY <2>1, <2>5
    <3>3. closes'[o] = named' /\ named' # Unnamed
      BY <1>2, <2>1
    <3>4. QED BY <3>1, <3>2, <3>3
  <2>7. QED BY <2>4, <2>6
<1>3. QED BY <1>1, <1>2

LEMMA UpInvStep ==
  ASSUME UpInv, [UpNext]_upVars
  PROVE  UpInv'
<1> USE UpstreamAssumption
    DEF UpstreamAssumption, UpInv, UpTypeOK, OneRemoval, Orphan, Conns, Unnamed
<1>1. ASSUME NEW o \in Operators, NEW what \in {"add", "remove", "update"}, UpCall(o, what)
      PROVE  UpInv'
  <2>1. job[o] # "closing" /\ op' \in [Operators -> {"add", "remove", "update"}]
    BY <1>1 DEF UpCall
  <2>2. CASE what = "add"
    BY <1>1, <2>1, <2>2, AddsKeepsUpInv DEF UpCall
  <2>3. CASE what # "add"
    BY <1>1, <2>1, <2>3, RemovesKeepsUpInv, ZenonT(30) DEF UpCall
  <2>4. QED BY <2>2, <2>3
<1>2. ASSUME NEW o \in Operators, AddEnds(o) PROVE UpInv'
  <2>1. PICK ok \in BOOLEAN :
          /\ job' = [job EXCEPT ![o] = IF ok THEN "idle" ELSE "failed"]
          /\ life' = [life EXCEPT ![closes[o]] =
               IF @ = "connecting" THEN (IF ok THEN "open" ELSE "failed") ELSE @]
    BY <1>2 DEF AddEnds
  <2>2. UpTypeOK'
    BY <1>2, <2>1 DEF AddEnds
  <2>3. \A c \in Conns : Orphan(c)' => Orphan(c)
    BY <1>2, <2>1 DEF AddEnds
  <2>4. OneRemoval'
    BY <1>2, <2>1, <2>3 DEF AddEnds
  <2>5. QED BY <2>2, <2>4
<1>3. ASSUME NEW o \in Operators, RemoveEnds(o) PROVE UpInv'
  <2>1. UpTypeOK'
    <3>1. named' \in 0 .. MaxConns
      BY <1>3 DEF RemoveEnds
    <3>2. life' \in [Conns -> {"unmade", "connecting", "open", "failed", "closing", "closed"}]
      BY <1>3 DEF RemoveEnds
    <3>3. job' \in [Operators -> {"idle", "closing", "adding", "connecting", "failed"}]
      BY <1>3 DEF RemoveEnds
    <3>4. made' = made /\ op' = op /\ closes' = closes /\ overlapped' = overlapped
      BY <1>3 DEF RemoveEnds
    <3>5. QED BY <3>1, <3>2, <3>3, <3>4
  <2>2. ASSUME ~overlapped PROVE \A c \in Conns : ~Orphan(c)'
    BY <1>3, <2>2 DEF RemoveEnds
  <2>3. ASSUME ~overlapped PROVE \A p \in Operators : job'[p] # "closing"
    BY <1>3, <2>3 DEF RemoveEnds
  <2>4. OneRemoval'
    BY <1>3, <2>2, <2>3 DEF RemoveEnds
  <2>5. QED BY <2>1, <2>4
<1>4. ASSUME NEW o \in Operators, UpdateAdds(o) PROVE UpInv'
  <2>1. job[o] # "closing" /\ op' \in [Operators -> {"add", "remove", "update"}]
    BY <1>4 DEF UpdateAdds
  <2>2. QED BY <1>4, <2>1, AddsKeepsUpInv DEF UpdateAdds
<1>5. CASE UNCHANGED upVars
  BY <1>5 DEF upVars
<1>6. QED BY <1>1, <1>2, <1>3, <1>4, <1>5 DEF UpNext

\* A connection is left open behind the name's back only after two removals of the name have
\* overlapped, for any number of operators and connections (client.ts:1031-1038).
THEOREM OrphansComeFromOverlap == UpSpec => []OrphansNeedOverlap
<1>1. UpInit => UpInv
  <2> SUFFICES ASSUME UpInit PROVE UpInv
    OBVIOUS
  <2>1. Unnamed \in 0 .. MaxConns
    BY UpstreamAssumption DEF UpstreamAssumption, Unnamed
  <2>2. UpTypeOK
    BY <2>1 DEF UpInit, UpTypeOK, Unnamed
  <2>3. OneRemoval
    BY DEF UpInit, OneRemoval, Orphan
  <2>4. QED BY <2>2, <2>3 DEF UpInv
<1>2. UpInv => OrphansNeedOverlap
  BY DEF UpInv, OneRemoval, OrphansNeedOverlap
<1>3. QED BY <1>1, <1>2, UpInvStep, PTL DEF UpSpec

-----------------------------------------------------------------------------
(* Hooks: what usePrompt() shows                                           *)

\* The effect that is live is the last one, and what is shown is no newer.
PromptInv ==
  /\ calls \in 0 .. MaxCalls /\ data \in 0 .. MaxCalls
  /\ hook = "usePrompt" => live \in {Nothing, calls} /\ data <= calls

LEMMA PromptInvStep ==
  PromptInv /\ [HooksNext]_hookVars
    => PromptInv' /\ (hook = "usePrompt" => data' >= data)
<1> SUFFICES ASSUME PromptInv, [HooksNext]_hookVars
             PROVE  PromptInv' /\ (hook = "usePrompt" => data' >= data)
  OBVIOUS
<1> USE HooksAssumption DEF HooksAssumption, PromptInv, Nothing
<1>1. CASE Invoke
  BY <1>1 DEF Invoke
<1>2. CASE Cancel
  BY <1>2 DEF Cancel
<1>3. CASE Reset
  BY <1>3 DEF Reset
<1>4. CASE StartTask
  BY <1>4 DEF StartTask
<1>5. CASE PromptEffect
  BY <1>5 DEF PromptEffect
<1>6. ASSUME NEW i \in Calls, InvokeSettles(i)
      PROVE  PromptInv' /\ (hook = "usePrompt" => data' >= data)
  BY <1>6 DEF InvokeSettles, Shows, Calls
<1>7. ASSUME NEW i \in Calls, HandleArrives(i)
      PROVE  PromptInv' /\ (hook = "usePrompt" => data' >= data)
  BY <1>7 DEF HandleArrives
<1>8. ASSUME NEW i \in Calls, TaskSettles(i)
      PROVE  PromptInv' /\ (hook = "usePrompt" => data' >= data)
  BY <1>8 DEF TaskSettles, Calls
<1>9. ASSUME NEW i \in Calls, PromptSettles(i)
      PROVE  PromptInv' /\ (hook = "usePrompt" => data' >= data)
  BY <1>9 DEF PromptSettles, PromptData, Calls
<1>10. CASE UNCHANGED hookVars
  BY <1>10 DEF hookVars
<1>11. QED
  BY <1>1, <1>2, <1>3, <1>4, <1>5, <1>6, <1>7, <1>8, <1>9, <1>10 DEF HooksNext

\* The prompt that is shown is never one of earlier inputs than the one before, for any number
\* of calls that settle in any order (capabilities.ts:54-60).
THEOREM PromptNeverGoesBack == HooksSpec => NeverGoesBack
<1>1. HooksInit => PromptInv
  BY HooksAssumption DEF HooksAssumption, HooksInit, PromptInv, Nothing
<1>2. QED BY <1>1, PromptInvStep, PTL DEF HooksSpec, NeverGoesBack

-----------------------------------------------------------------------------
(* Composer: the servers, the palette, the picker and the thread           *)

\* A name that is being added is not listed yet; it is connected, or it was removed twice.
\* A removal that nobody has repeated is of a name that is listed.
ServersInv ==
  /\ listed \subseteq ServerNames
  /\ leaving \in [ServerNames -> 0 .. 2]
  /\ \A n \in adding : n \notin listed /\ (n \in dialled \/ n \in twice)
  /\ \A n \in ServerNames \ twice : leaving[n] <= 1 /\ (leaving[n] = 1 => n \in listed)
  /\ chosen \in [server : ServerNames \cup {Unset}, tool : ServerNames \cup {Unset}]
  /\ ListedIsServed

\* Of the requests for models in flight, the one that counts is for the address shown.
PickerInv ==
  /\ \A l \in lists : ~l.cancelled => picker.open /\ picker.local /\ l.of = picker.base
  /\ lists \subseteq [of : Bases \cup {DefaultBase}, cancelled : BOOLEAN]
  /\ picker \in [open : BOOLEAN, local : BOOLEAN, base : Bases \cup {DefaultBase}]
  /\ ModelsAreOfBase

\* A message has an identity that was given out, and so has the answer that streams.
Message == [id : 1 .. replies, role : {"user", "assistant"}, text : Nat,
            streaming : BOOLEAN, error : BOOLEAN]

ThreadInv ==
  /\ replies \in Nat
  /\ reply = NoReply \/ reply \in [id : 1 .. replies, got : Nat]
  /\ messages \in Seq(Message)
  /\ ThreadIsTrue

LEMMA ServersInvStep ==
  ASSUME ServersInv, ServersNext \/ UNCHANGED serverVars
  PROVE  ServersInv'
<1> USE FirstServerListed DEF FirstServerListed, ServersInv, ListedIsServed, NoPalette
<1>1. ASSUME NEW n \in ServerNames, AddServer(n) PROVE ServersInv'
  BY <1>1 DEF AddServer
<1>2. ASSUME NEW n \in ServerNames, RemoveServer(n) PROVE ServersInv'
  BY <1>2 DEF RemoveServer
<1>3. ASSUME NEW n \in ServerNames, ServerRemoved(n) PROVE ServersInv'
  BY <1>3 DEF ServerRemoved, Delist
<1>4. ASSUME NEW n \in ServerNames, PickServer(n) PROVE ServersInv'
  BY <1>4 DEF PickServer
<1>5. ASSUME NEW n \in ServerNames, NEW fails \in BOOLEAN, ServerAdded(n, fails) PROVE ServersInv'
  BY <1>5 DEF ServerAdded
<1>6. CASE OpenPalette \/ PickTool \/ ClosePalette \/ UNCHANGED serverVars
  BY <1>6 DEF OpenPalette, PickTool, ClosePalette, serverVars
<1>7. CASE Reload
  BY <1>7 DEF Reload, LoadServers
<1>8. QED BY <1>1, <1>2, <1>3, <1>4, <1>5, <1>6, <1>7 DEF ServersNext

LEMMA PickerInvStep ==
  ASSUME PickerInv, PickerNext \/ UNCHANGED pickerVars
  PROVE  PickerInv'
<1> USE DEF PickerInv, ModelsAreOfBase
<1>1. ASSUME NEW next \in [open : BOOLEAN, local : BOOLEAN, base : Bases \cup {DefaultBase}],
             Configured(next)
      PROVE  PickerInv'
  <2>1. CancelLists \subseteq [of : Bases \cup {DefaultBase}, cancelled : BOOLEAN]
        /\ \A l \in CancelLists : l.cancelled
    BY ZenonT(30) DEF CancelLists
  <2>2. CASE next.open /\ next.local
    <3>1. /\ lists' = CancelLists \cup {[of |-> next.base, cancelled |-> FALSE]}
          /\ installed'.of = Unset /\ picker' = next
      BY <1>1, <2>2 DEF Configured
    <3>2. ModelsAreOfBase'
      BY <3>1
    <3>3. lists' \subseteq [of : Bases \cup {DefaultBase}, cancelled : BOOLEAN]
      <4>1. [of |-> next.base, cancelled |-> FALSE]
              \in [of : Bases \cup {DefaultBase}, cancelled : BOOLEAN]
        OBVIOUS
      <4>2. QED BY <2>1, <3>1, <4>1
    <3>4. QED BY <1>1, <2>1, <2>2, <3>1, <3>2, <3>3
  <2>3. CASE ~(next.open /\ next.local)
    BY <1>1, <2>1, <2>3 DEF Configured
  <2>4. QED BY <2>2, <2>3
<1>2. CASE TogglePicker
  BY <1>1, <1>2 DEF TogglePicker
<1>3. CASE PickProvider
  BY <1>1, <1>3 DEF PickProvider
<1>4. ASSUME NEW b \in Bases, EditBase(b) PROVE PickerInv'
  BY <1>1, <1>4 DEF EditBase
<1>5. ASSUME NEW l \in lists, NEW some \in BOOLEAN, ModelsArrive(l, some) PROVE PickerInv'
  BY <1>5 DEF ModelsArrive
<1>6. CASE Reload
  BY <1>6 DEF Reload
<1>7. CASE UNCHANGED pickerVars
  BY <1>7 DEF pickerVars
<1>8. QED BY <1>2, <1>3, <1>4, <1>5, <1>6, <1>7 DEF PickerNext

LEMMA ThreadInvStep ==
  ASSUME ThreadInv, ThreadNext \/ UNCHANGED threadVars
  PROVE  ThreadInv'
<1>1. /\ replies \in Nat /\ messages \in Seq(Message)
      /\ reply = NoReply \/ reply \in [id : 1 .. replies, got : Nat]
      /\ DOMAIN messages = 1 .. Len(messages) /\ Len(messages) \in Nat
      /\ \A i \in DOMAIN messages :
           /\ messages[i] \in Message
           /\ messages[i].role = "assistant" =>
                /\ messages[i].streaming <=> (reply # NoReply /\ messages[i].id = reply.id)
                /\ messages[i].streaming => messages[i].text = reply.got
  BY DEF ThreadInv, ThreadIsTrue
<1>2. CASE Ask
  <2> DEFINE user == Said(replies + 1, "user")
             assistant == Said(replies + 1, "assistant")
  <2>1. /\ reply = NoReply /\ replies' = replies + 1
        /\ messages' = messages \o <<user, assistant>>
        /\ reply' = [id |-> replies + 1, got |-> 0]
    BY <1>2 DEF Ask
  <2>2. user \in Message' /\ assistant \in Message'
    BY <1>1, <2>1 DEF Said, Message
  <2>3. Message \subseteq Message'
    BY <1>1, <2>1 DEF Message
  <2>4. /\ user.role = "user" /\ assistant.streaming /\ assistant.text = 0
        /\ assistant.id = replies + 1
    BY DEF Said
  <2> HIDE DEF user, assistant
  <2>5. messages' \in Seq(Message')
    BY <1>1, <2>1, <2>2, <2>3
  <2>6. ASSUME NEW i \in DOMAIN messages'
        PROVE  \/ i \in DOMAIN messages /\ messages'[i] = messages[i]
               \/ messages'[i] \in {user, assistant}
    BY <1>1, <2>1, <2>6
  <2>7. reply' # NoReply /\ reply'.id = replies + 1 /\ reply'.got = 0
    BY <1>1, <2>1 DEF NoReply
  <2>8. ASSUME NEW i \in DOMAIN messages', messages'[i].role = "assistant"
        PROVE  /\ messages'[i].streaming <=> (reply' # NoReply /\ messages'[i].id = reply'.id)
               /\ messages'[i].streaming => messages'[i].text = reply'.got
    <3>1. CASE i \in DOMAIN messages /\ messages'[i] = messages[i]
      <4>1. messages[i] \in Message /\ ~messages[i].streaming
        BY <1>1, <2>1, <2>8, <3>1
      <4>2. messages[i].id # replies + 1
        BY <1>1, <4>1 DEF Message
      <4>3. QED BY <2>7, <3>1, <4>1, <4>2
    <3>2. CASE messages'[i] \in {user, assistant}
      BY <2>4, <2>7, <2>8, <3>2
    <3>3. QED BY <2>6, <2>8, <3>1, <3>2
  <2>9. reply' \in [id : 1 .. replies', got : Nat] /\ replies' \in Nat
    BY <1>1, <2>1
  <2>10. QED BY <2>5, <2>8, <2>9 DEF ThreadInv, ThreadIsTrue
<1>3. CASE Delta
  <2>1. /\ reply # NoReply /\ reply' = [reply EXCEPT !.got = @ + 1] /\ replies' = replies
        /\ messages' = [i \in DOMAIN messages |->
             IF messages[i].id = reply.id /\ messages[i].role = "assistant"
             THEN [messages[i] EXCEPT !.text = reply.got + 1] ELSE messages[i]]
    BY <1>3 DEF Delta, IsReply
  <2>2. reply \in [id : 1 .. replies, got : Nat]
    BY <1>1, <2>1
  <2>3. /\ reply' \in [id : 1 .. replies, got : Nat] /\ reply' # NoReply
        /\ reply'.id = reply.id /\ reply'.got = reply.got + 1
    BY <1>1, <2>1, <2>2 DEF NoReply
  <2>4. ASSUME NEW i \in DOMAIN messages PROVE messages'[i] \in Message
    <3>1. messages[i] \in Message /\ reply.got + 1 \in Nat
      BY <1>1, <2>2
    <3>2. [messages[i] EXCEPT !.text = reply.got + 1] \in Message
      BY <3>1 DEF Message
    <3>3. messages'[i] \in {messages[i], [messages[i] EXCEPT !.text = reply.got + 1]}
      BY <2>1
    <3>4. QED BY <3>1, <3>2, <3>3
  <2>5. messages' \in Seq(Message') /\ DOMAIN messages' = DOMAIN messages
    BY <1>1, <2>1, <2>4 DEF Message
  <2>6. ASSUME NEW i \in DOMAIN messages, messages'[i].role = "assistant"
        PROVE  /\ messages'[i].streaming <=> (reply' # NoReply /\ messages'[i].id = reply'.id)
               /\ messages'[i].streaming => messages'[i].text = reply'.got
    <3>1. /\ messages[i] \in Message
          /\ messages[i].role = "assistant" =>
               (messages[i].streaming <=> messages[i].id = reply.id)
      BY <1>1, <2>1
    <3>2. messages'[i] = IF messages[i].id = reply.id /\ messages[i].role = "assistant"
                         THEN [messages[i] EXCEPT !.text = reply.got + 1] ELSE messages[i]
      BY <2>1
    <3>3. QED BY <2>3, <2>6, <3>1, <3>2 DEF Message
  <2>7. QED BY <1>1, <2>1, <2>3, <2>5, <2>6 DEF ThreadInv, ThreadIsTrue
<1>4. ASSUME NEW fails \in BOOLEAN, AnswerEnds(fails) PROVE ThreadInv'
  <2>1. /\ reply # NoReply /\ reply' = NoReply /\ replies' = replies
        /\ messages' = [i \in DOMAIN messages |->
             IF messages[i].id = reply.id /\ messages[i].role = "assistant"
             THEN [messages[i] EXCEPT !.streaming = FALSE, !.error = fails] ELSE messages[i]]
    BY <1>4 DEF AnswerEnds, IsReply
  <2>2. ASSUME NEW i \in DOMAIN messages
        PROVE  messages'[i] \in Message /\ (messages'[i].role = "assistant" => ~messages'[i].streaming)
    <3> DEFINE ended == [messages[i] EXCEPT !.streaming = FALSE, !.error = fails]
    <3>1. /\ messages[i] \in Message
          /\ messages[i].role = "assistant" =>
               (messages[i].streaming <=> messages[i].id = reply.id)
      BY <1>1, <2>1
    <3>2. ended \in Message /\ ~ended.streaming
      BY <1>4, <3>1 DEF Message
    <3>3. messages'[i] = IF messages[i].id = reply.id /\ messages[i].role = "assistant"
                         THEN ended ELSE messages[i]
      BY <2>1
    <3>4. QED BY <3>1, <3>2, <3>3
  <2>3. Message' = Message
    BY <2>1 DEF Message
  <2>4. DOMAIN messages' = 1 .. Len(messages) /\ \A i \in 1 .. Len(messages) : messages'[i] \in Message
    BY <1>1, <2>1, <2>2
  <2>5. messages' = [i \in 1 .. Len(messages) |-> messages'[i]]
    BY <1>1, <2>1
  <2>6. messages' \in Seq(Message)
    BY <1>1, <2>4, <2>5, IsASeq
  <2>7. QED BY <1>1, <2>1, <2>2, <2>3, <2>4, <2>6 DEF ThreadInv, ThreadIsTrue
<1>5. CASE ClearThread
  BY <1>1, <1>5 DEF ClearThread, ThreadInv, ThreadIsTrue, Message
<1>6. CASE Reload
  BY <1>1, <1>6 DEF Reload, ThreadInv, ThreadIsTrue, Message
<1>7. CASE UNCHANGED threadVars
  BY <1>1, <1>7 DEF threadVars, ThreadInv, ThreadIsTrue, Message
<1>8. QED BY <1>2, <1>3, <1>4, <1>5, <1>6, <1>7 DEF ThreadNext

\* The screen of Composer is true of any number of servers, addresses and messages, however
\* the awaits of its handlers and the pieces of an answer fall (App.tsx, ServerManager.tsx:
\* 74-85, ModelPicker.tsx:26-45).
THEOREM ComposerKeepsItsScreenTrue == ComposerSpec => []ComposerIsTrue
<1> DEFINE Inv == ServersInv /\ PickerInv /\ ThreadInv
<1>1. ComposerInit => Inv
  <2> SUFFICES ASSUME ComposerInit PROVE Inv
    OBVIOUS
  <2>1. ServersInv
    BY FirstServerListed DEF FirstServerListed, ComposerInit, ServersInv, NoPalette,
       ListedIsServed
  <2>2. PickerInv
    BY DEF ComposerInit, PickerInv, ModelsAreOfBase
  <2>3. ThreadInv
    BY DEF ComposerInit, ThreadInv, ThreadIsTrue
  <2>4. QED BY <2>1, <2>2, <2>3
<1>2. Inv /\ [ComposerNext]_composerVars => Inv'
  <2> SUFFICES ASSUME Inv, [ComposerNext]_composerVars PROVE Inv'
    OBVIOUS
  <2>1. ServersNext \/ UNCHANGED serverVars
    BY DEF ComposerNext, composerVars, ServersNext, PickerNext, ThreadNext, TogglePicker,
       PickProvider, EditBase, Configured, ModelsArrive, Ask, Delta, ClearThread, AnswerEnds
  <2>2. PickerNext \/ UNCHANGED pickerVars
    BY DEF ComposerNext, composerVars, ServersNext, PickerNext, ThreadNext, AddServer,
       RemoveServer, ServerRemoved, PickServer, ServerAdded, OpenPalette, PickTool,
       ClosePalette, Ask, Delta, ClearThread, AnswerEnds
  <2>3. ThreadNext \/ UNCHANGED threadVars
    BY DEF ComposerNext, composerVars, ServersNext, PickerNext, ThreadNext, AddServer,
       RemoveServer, ServerRemoved, PickServer, ServerAdded, OpenPalette, PickTool,
       ClosePalette, TogglePicker, PickProvider, EditBase, Configured, ModelsArrive
  <2>4. QED BY <2>1, <2>2, <2>3, ServersInvStep, PickerInvStep, ThreadInvStep
<1>3. Inv => ComposerIsTrue
  BY DEF ServersInv, PickerInv, ThreadInv, ComposerIsTrue
<1>4. QED BY <1>1, <1>2, <1>3, PTL DEF ComposerSpec

-----------------------------------------------------------------------------
(* Draft                                                                   *)

\* Sets of indexes have a least and a greatest element.
LEMMA LeastIndex ==
  ASSUME NEW S, S \subseteq Nat, S # {}
  PROVE  Min(S) \in S /\ \A y \in S : Min(S) <= y
<1> DEFINE Less == {pair \in Nat \X Nat : pair[1] < pair[2]}
<1>1. IsWellFoundedOn(Less, Nat)
  BY NatLessThanWellFounded DEF OpToRel
<1>2. PICK x \in S : \A y \in S : ~(<<y, x>> \in Less)
  <2> HIDE DEF Less
  <2>1. QED BY <1>1, WFMin
<1>3. \A y \in S : x <= y
  <2>1. ASSUME NEW y \in S, y < x PROVE FALSE
    <3>1. <<y, x>> \in Nat \X Nat /\ <<y, x>>[1] = y /\ <<y, x>>[2] = x
      OBVIOUS
    <3>2. <<y, x>> \in Less
      BY <2>1, <3>1
    <3>3. QED BY <1>2, <3>2
  <2>2. \A y \in S : x \in Nat /\ y \in Nat
    OBVIOUS
  <2>3. QED BY <2>1, <2>2
<1>4. QED BY <1>3 DEF Min

LEMMA GreatestIndex ==
  ASSUME NEW n \in Nat, NEW S, S \subseteq 1 .. n, S # {}
  PROVE  Max(S) \in S /\ \A y \in S : Max(S) >= y
<1> DEFINE T == {n - y : y \in S}
<1>1. T \subseteq Nat /\ T # {}
  <2>1. \A y \in S : y \in 1 .. n /\ n - y \in Nat
    OBVIOUS
  <2>2. PICK y \in S : TRUE
    OBVIOUS
  <2>3. n - y \in T
    OBVIOUS
  <2>4. QED BY <2>1, <2>3
<1>2. PICK x \in S : n - x = Min(T)
  BY <1>1, LeastIndex
<1>3. \A y \in S : x >= y
  <2> SUFFICES ASSUME NEW y \in S PROVE x >= y
    OBVIOUS
  <2>1. n - x <= n - y
    BY <1>1, <1>2, LeastIndex
  <2>2. QED BY <2>1
<1>4. QED BY <1>3 DEF Max

Block == [id : Nat, kind : {"text", "tool"}, typed : SUBSET Nat, result : BOOLEAN,
          error : BOOLEAN, running : BOOLEAN]
IdsUpTo(draft, n) == \A i \in DOMAIN draft : draft[i].id <= n
Distinct(draft) == \A i, j \in DOMAIN draft : draft[i].id = draft[j].id => i = j
HasResults(draft) == \A i \in DOMAIN draft : draft[i].kind = "tool" => draft[i].result
HasText(draft) == \E i \in DOMAIN draft : draft[i].kind = "text"
\* A block of the draft that has the identity of a text block is a text block.
TextBeside(draft, b) == \A i \in DOMAIN draft : draft[i].id = b.id => draft[i].kind = "text"

DraftOK(draft, n) ==
  /\ draft \in Seq(Block) /\ IdsUpTo(draft, n) /\ Distinct(draft)
  /\ HasResults(draft) /\ HasText(draft)
SeenOK(draft, turn, n) ==
  turn.at = "running" =>
    /\ turn.seen \in Block /\ turn.seen.kind = "text" /\ turn.seen.id <= n
    /\ TextBeside(draft, turn.seen)

\* A sequence without the element at i.
LEMMA RemoveAtFacts ==
  ASSUME NEW S, NEW q \in Seq(S), NEW i \in DOMAIN q
  PROVE  /\ RemoveAt(q, i) \in Seq(S) /\ DOMAIN RemoveAt(q, i) = 1 .. Len(q) - 1
         /\ \A j \in 1 .. Len(q) - 1 : RemoveAt(q, i)[j] = IF j <= i - 1 THEN q[j] ELSE q[j + 1]
<1> DEFINE a == SubSeq(q, 1, i - 1)
           b == SubSeq(q, i + 1, Len(q))
           r == RemoveAt(q, i)
<1>1. Len(q) \in Nat /\ DOMAIN q = 1 .. Len(q) /\ i \in 1 .. Len(q)
      /\ \A j \in 1 .. Len(q) : q[j] \in S
  BY LenProperties, ElementOfSeq
<1>2. /\ a \in Seq(S) /\ Len(a) = i - 1
      /\ \A j \in 1 .. i - 1 : a[j] = q[j]
  <2>1. \A j \in 1 .. i - 1 : q[j] \in S
    BY <1>1
  <2>2. /\ a \in Seq(S) /\ Len(a) = IF 1 <= i - 1 THEN (i - 1) - 1 + 1 ELSE 0
        /\ \A j \in 1 .. (i - 1) - 1 + 1 : a[j] = q[1 + j - 1]
    BY <1>1, <2>1, SubSeqProperties
  <2> HIDE DEF a
  <2>3. QED BY <1>1, <2>2
<1>3. /\ b \in Seq(S) /\ Len(b) = Len(q) - i
      /\ \A j \in 1 .. Len(q) - i : b[j] = q[i + j]
  <2>1. \A j \in i + 1 .. Len(q) : q[j] \in S
    BY <1>1
  <2>2. /\ b \in Seq(S) /\ Len(b) = IF i + 1 <= Len(q) THEN Len(q) - (i + 1) + 1 ELSE 0
        /\ \A j \in 1 .. Len(q) - (i + 1) + 1 : b[j] = q[(i + 1) + j - 1]
    BY <1>1, <2>1, SubSeqProperties
  <2> HIDE DEF b
  <2>3. /\ Len(q) - (i + 1) + 1 = Len(q) - i
        /\ Len(q) - i = IF i + 1 <= Len(q) THEN Len(q) - (i + 1) + 1 ELSE 0
        /\ \A j \in 1 .. Len(q) - i : (i + 1) + j - 1 = i + j
    BY <1>1
  <2>4. QED BY <2>2, <2>3
<1>4. r = a \o b
  BY DEF RemoveAt
<1> HIDE DEF a, b, r
<1>5. /\ r \in Seq(S) /\ Len(r) = Len(q) - 1 /\ DOMAIN r = 1 .. Len(q) - 1
      /\ \A j \in 1 .. Len(q) - 1 : r[j] = IF j <= i - 1 THEN a[j] ELSE b[j - (i - 1)]
  <2>1. /\ r \in Seq(S) /\ Len(r) = Len(a) + Len(b)
        /\ \A j \in 1 .. Len(a) + Len(b) : r[j] = IF j <= Len(a) THEN a[j] ELSE b[j - Len(a)]
    BY <1>2, <1>3, <1>4, ConcatProperties
  <2>2. Len(a) + Len(b) = Len(q) - 1
    BY <1>1, <1>2, <1>3
  <2>3. QED BY <1>2, <2>1, <2>2, LenProperties
<1>6. \A j \in 1 .. Len(q) - 1 : r[j] = IF j <= i - 1 THEN q[j] ELSE q[j + 1]
  <2> SUFFICES ASSUME NEW j \in 1 .. Len(q) - 1
               PROVE  r[j] = IF j <= i - 1 THEN q[j] ELSE q[j + 1]
    OBVIOUS
  <2>1. j <= i - 1 => j \in 1 .. i - 1
    BY <1>1
  <2>2. ~(j <= i - 1) => j - (i - 1) \in 1 .. Len(q) - i /\ i + (j - (i - 1)) = j + 1
    BY <1>1
  <2>3. QED BY <1>2, <1>3, <1>5, <2>1, <2>2
<1>7. QED BY <1>5, <1>6 DEF r

LEMMA WithoutFacts ==
  ASSUME NEW draft \in Seq(Block), draft = blocks, Distinct(draft), NEW id \in Nat
  PROVE  /\ Without(id) \in Seq(Block) /\ Distinct(Without(id))
         /\ \A j \in DOMAIN Without(id) : Without(id)[j].id # id
         /\ \A j \in DOMAIN Without(id) : \E k \in DOMAIN draft : Without(id)[j] = draft[k]
         /\ \A k \in DOMAIN draft : draft[k].id # id =>
              \E j \in DOMAIN Without(id) : Without(id)[j] = draft[k]
<1> DEFINE w == Without(id)
           I == {j \in 1 .. Len(draft) : draft[j].id = id}
<1>1. Len(draft) \in Nat /\ DOMAIN draft = 1 .. Len(draft)
  OBVIOUS
<1>2. CASE I = {}
  <2>1. w = draft
    BY <1>2 DEF Without, RemoveFirstMatch
  <2>2. QED BY <1>1, <1>2, <2>1
<1>3. CASE I # {}
  <2>1. Min(I) \in I
    <3>1. I \subseteq Nat
      OBVIOUS
    <3> HIDE DEF I
    <3>2. QED BY <1>3, <3>1, LeastIndex
  <2> DEFINE m == Min(I)
  <2>2. w = RemoveAt(draft, m)
    BY <1>3 DEF Without, RemoveFirstMatch, SelectInSeq
  <2>3. m \in 1 .. Len(draft) /\ draft[m].id = id
    BY <2>1
  <2> HIDE DEF w, I, m
  <2>4. /\ w \in Seq(Block) /\ DOMAIN w = 1 .. Len(draft) - 1
        /\ \A j \in 1 .. Len(draft) - 1 : w[j] = IF j <= m - 1 THEN draft[j] ELSE draft[j + 1]
    BY <1>1, <2>2, <2>3, RemoveAtFacts, SMTT(30)
  <2>5. \A j, k \in 1 .. Len(draft) : draft[j].id = draft[k].id => j = k
    BY <1>1 DEF Distinct
  <2>6. ASSUME NEW j \in DOMAIN w
        PROVE  \E k \in DOMAIN draft : w[j] = draft[k] /\ draft[k].id # id
    <3>1. j \in 1 .. Len(draft) /\ j + 1 \in 1 .. Len(draft)
      BY <1>1, <2>4
    <3>2. CASE j <= m - 1
      BY <1>1, <2>3, <2>4, <2>5, <3>1, <3>2
    <3>3. CASE ~(j <= m - 1)
      BY <1>1, <2>3, <2>4, <2>5, <3>1, <3>3
    <3>4. QED BY <3>2, <3>3
  <2>7. ASSUME NEW k \in DOMAIN draft, draft[k].id # id
        PROVE  \E j \in DOMAIN w : w[j] = draft[k]
    <3>1. k # m
      BY <2>3, <2>7
    <3>2. CASE k <= m - 1
      BY <1>1, <2>3, <2>4, <3>2
    <3>3. CASE k > m
      <4>1. k - 1 \in 1 .. Len(draft) - 1 /\ ~(k - 1 <= m - 1) /\ (k - 1) + 1 = k
        BY <1>1, <2>3, <3>3
      <4>2. QED BY <2>4, <4>1
    <3>4. QED BY <1>1, <2>3, <3>1, <3>2, <3>3
  <2>8. ASSUME NEW j \in DOMAIN w, NEW k \in DOMAIN w, w[j].id = w[k].id PROVE j = k
    <3>1. /\ j \in 1 .. Len(draft) /\ j + 1 \in 1 .. Len(draft)
          /\ k \in 1 .. Len(draft) /\ k + 1 \in 1 .. Len(draft)
      BY <1>1, <2>4
    <3>2. CASE j <= m - 1 /\ k <= m - 1
      BY <2>4, <2>5, <2>8, <3>1, <3>2
    <3>3. CASE j <= m - 1 /\ ~(k <= m - 1)
      <4>1. j = k + 1
        BY <2>4, <2>5, <2>8, <3>1, <3>3
      <4>2. QED BY <2>3, <3>1, <3>3, <4>1
    <3>4. CASE ~(j <= m - 1) /\ k <= m - 1
      <4>1. j + 1 = k
        BY <2>4, <2>5, <2>8, <3>1, <3>4
      <4>2. QED BY <2>3, <3>1, <3>4, <4>1
    <3>5. CASE ~(j <= m - 1) /\ ~(k <= m - 1)
      <4>1. j + 1 = k + 1
        BY <2>4, <2>5, <2>8, <3>1, <3>5
      <4>2. QED BY <3>1, <4>1
    <3>6. QED BY <3>2, <3>3, <3>4, <3>5
  <2>9. Distinct(w)
    BY <2>8 DEF Distinct
  <2>10. QED BY <2>4, <2>6, <2>7, <2>9 DEF w
<1>4. QED BY <1>2, <1>3

\* The text block that is typed into is one of the draft.
LEMMA TrailingIsText ==
  ASSUME NEW n \in Nat, DraftOK(blocks, n)
  PROVE  /\ TrailingText \in Block /\ TrailingText.kind = "text" /\ TrailingText.id <= n
         /\ TextBeside(blocks, TrailingText)
<1> DEFINE I == {j \in 1 .. Len(blocks) : blocks[j].kind = "text"}
<1>1. Len(blocks) \in Nat /\ DOMAIN blocks = 1 .. Len(blocks)
      /\ \A j \in 1 .. Len(blocks) : blocks[j] \in Block
  BY DEF DraftOK
<1>2. I # {}
  BY <1>1 DEF DraftOK, HasText
<1>3. Max(I) \in I
  BY <1>1, <1>2, GreatestIndex
<1>4. TrailingText = blocks[Max(I)]
  BY <1>2 DEF TrailingText, SelectLastInSeq
<1>5. Max(I) \in DOMAIN blocks /\ blocks[Max(I)].kind = "text"
  BY <1>1, <1>3
<1> HIDE DEF I
<1>6. QED BY <1>1, <1>4, <1>5 DEF DraftOK, IdsUpTo, Distinct, TextBeside

\* Every result in the draft is one: a tool's block gets its result with it, and a call that is
\* made again keeps the old one.  The text block of a run is not the id of a result.
DraftInv ==
  /\ ids \in Nat /\ keystrokes \in Nat
  /\ DraftOK(blocks, ids)
  /\ DOMAIN palette = PaletteRuns
  /\ \A p \in PaletteRuns : palette[p] \in [at : {"idle", "running"}, seen : Block]
                            /\ SeenOK(blocks, palette[p], ids)
  /\ SentIsGrounded

\* A step in which every block keeps its place, its identity, its kind and its result.
LEMMA PatchedKeeps ==
  ASSUME DraftInv, UNCHANGED <<ids, palette, sentBlocks>>, keystrokes' \in Nat,
         blocks' = [i \in DOMAIN blocks |-> blocks'[i]],
         \A i \in DOMAIN blocks :
           /\ blocks'[i] \in Block /\ blocks'[i].id = blocks[i].id
           /\ blocks'[i].kind = blocks[i].kind /\ (blocks[i].result => blocks'[i].result)
  PROVE  DraftInv'
<1>1. Len(blocks) \in Nat /\ DOMAIN blocks = 1 .. Len(blocks)
  BY DEF DraftInv, DraftOK
<1>2. blocks' \in Seq(Block) /\ DOMAIN blocks' = DOMAIN blocks
  BY <1>1
<1>3. DraftOK(blocks', ids)
  BY <1>2 DEF DraftInv, DraftOK, IdsUpTo, Distinct, HasResults, HasText
<1>4. ASSUME NEW p \in PaletteRuns PROVE SeenOK(blocks', palette[p], ids)
  BY <1>2 DEF DraftInv, SeenOK, TextBeside
<1>5. QED BY <1>3, <1>4 DEF DraftInv, SentIsGrounded

LEMMA ClearKeeps ==
  ASSUME DraftInv, Clear, UNCHANGED <<palette, keystrokes>>, SentIsGrounded'
  PROVE  DraftInv'
<1>1. ids' = ids + 1 /\ blocks' = <<Text(ids + 1, {})>> /\ ids \in Nat
  BY DEF Clear, DraftInv
<1>2. Text(ids + 1, {}) \in Block /\ Text(ids + 1, {}).id = ids + 1
      /\ Text(ids + 1, {}).kind = "text"
  BY <1>1 DEF Text, Block
<1> HIDE DEF Text
<1>3. /\ blocks' \in Seq(Block) /\ DOMAIN blocks' = {1} /\ blocks'[1] = Text(ids + 1, {})
  BY <1>1, <1>2
<1>4. DraftOK(blocks', ids')
  BY <1>1, <1>2, <1>3 DEF DraftOK, IdsUpTo, Distinct, HasResults, HasText
<1>5. ASSUME NEW p \in PaletteRuns PROVE SeenOK(blocks', palette[p], ids')
  BY <1>1, <1>2, <1>3 DEF DraftInv, SeenOK, TextBeside, Block
<1>6. QED BY <1>1, <1>4, <1>5 DEF DraftInv

LEMMA ToolReturnsKeeps ==
  ASSUME DraftInv, NEW p \in PaletteRuns, ToolReturns(p)
  PROVE  DraftInv'
<1> DEFINE seen == palette[p].seen
           w == Without(seen.id)
           tool == Grounded(ids + 1)
<1>1. /\ palette[p].at = "running" /\ ids' = ids + 1
      /\ blocks' = w \o <<tool, seen>>
      /\ palette' = [palette EXCEPT ![p] = NoRun]
      /\ UNCHANGED <<keystrokes, sentBlocks>>
  BY DEF ToolReturns
<1>2. /\ ids \in Nat /\ keystrokes \in Nat /\ SentIsGrounded
      /\ blocks \in Seq(Block) /\ IdsUpTo(blocks, ids) /\ Distinct(blocks) /\ HasResults(blocks)
      /\ seen \in Block /\ seen.kind = "text" /\ seen.id \in Nat /\ seen.id <= ids
  BY <1>1 DEF DraftInv, DraftOK, SeenOK, Block
<1>3. /\ w \in Seq(Block) /\ Distinct(w)
      /\ \A j \in DOMAIN w : w[j].id # seen.id
      /\ \A j \in DOMAIN w : \E k \in DOMAIN blocks : w[j] = blocks[k]
  BY <1>2, WithoutFacts
<1>4. \A j \in DOMAIN w : /\ w[j].id <= ids /\ (w[j].kind = "tool" => w[j].result)
                          /\ w[j].id \in Nat
  <2>1. \A k \in DOMAIN blocks : blocks[k] \in Block
    BY <1>2
  <2>2. QED BY <1>2, <1>3, <2>1 DEF IdsUpTo, HasResults, Block
<1>5. tool \in Block /\ tool.id = ids + 1 /\ tool.kind = "tool" /\ tool.result
  BY <1>2 DEF Grounded, Block
<1> HIDE DEF w, tool, seen
<1>6. /\ blocks' \in Seq(Block) /\ DOMAIN blocks' = 1 .. Len(w) + 2 /\ Len(w) \in Nat
      /\ \A j \in 1 .. Len(w) : blocks'[j] = w[j]
      /\ blocks'[Len(w) + 1] = tool /\ blocks'[Len(w) + 2] = seen
  BY <1>1, <1>2, <1>3, <1>5
<1>7. ASSUME NEW j \in DOMAIN blocks'
      PROVE  \/ j \in DOMAIN w /\ blocks'[j] = w[j]
             \/ j = Len(w) + 1 /\ blocks'[j] = tool
             \/ j = Len(w) + 2 /\ blocks'[j] = seen
  BY <1>3, <1>6
<1>8. IdsUpTo(blocks', ids') /\ HasResults(blocks')
  <2>1. ASSUME NEW j \in DOMAIN blocks'
        PROVE  blocks'[j].id <= ids' /\ (blocks'[j].kind = "tool" => blocks'[j].result)
    <3>1. CASE j \in DOMAIN w /\ blocks'[j] = w[j]
      BY <1>1, <1>2, <1>4, <3>1
    <3>2. CASE blocks'[j] = tool
      BY <1>1, <1>2, <1>5, <3>2
    <3>3. CASE blocks'[j] = seen
      BY <1>1, <1>2, <3>3, SMTT(30)
    <3>4. QED BY <1>7, <3>1, <3>2, <3>3
  <2>2. QED BY <2>1 DEF IdsUpTo, HasResults
<1>9. Distinct(blocks')
  <2>1. ASSUME NEW i \in DOMAIN blocks', NEW j \in DOMAIN blocks', blocks'[i].id = blocks'[j].id
        PROVE  i = j
    <3>1. ids + 1 # seen.id /\ \A k \in DOMAIN w : w[k].id # ids + 1
      BY <1>2, <1>4
    <3>2. \A k, m \in DOMAIN w : w[k].id = w[m].id => k = m
      BY <1>3 DEF Distinct
    <3>3. QED BY <1>3, <1>5, <1>7, <2>1, <3>1, <3>2
  <2>2. QED BY <2>1 DEF Distinct
<1>10. HasText(blocks')
  BY <1>2, <1>6 DEF HasText
<1>11. ASSUME NEW q \in PaletteRuns
       PROVE  /\ palette'[q] \in [at : {"idle", "running"}, seen : Block]
              /\ SeenOK(blocks', palette'[q], ids')
  <2>1. CASE q = p
    <3>1. palette'[q] = NoRun
      BY <1>1, <2>1 DEF DraftInv
    <3>2. QED BY <3>1 DEF NoRun, Text, Block, SeenOK
  <2>2. CASE q # p
    <3>1. palette'[q] = palette[q]
      BY <1>1, <2>2 DEF DraftInv
    <3>2. SeenOK(blocks, palette[q], ids) /\ palette[q] \in [at : {"idle", "running"}, seen : Block]
      BY DEF DraftInv
    <3>3. ASSUME palette[q].at = "running"
          PROVE  /\ palette[q].seen.kind = "text" /\ palette[q].seen.id <= ids + 1
                 /\ palette[q].seen.id # ids + 1
                 /\ \A j \in DOMAIN w : w[j].id = palette[q].seen.id => w[j].kind = "text"
      BY <1>2, <1>3, <3>2, <3>3 DEF SeenOK, TextBeside, Block
    <3>4. ASSUME palette[q].at = "running" PROVE TextBeside(blocks', palette[q].seen)
      BY <1>2, <1>5, <1>7, <3>3, <3>4 DEF TextBeside
    <3>5. QED BY <1>1, <3>1, <3>2, <3>3, <3>4 DEF SeenOK
  <2>3. QED BY <2>1, <2>2
<1>12. DraftOK(blocks', ids') /\ SentIsGrounded'
  BY <1>1, <1>2, <1>6, <1>8, <1>9, <1>10 DEF DraftOK, SentIsGrounded
<1>13. DOMAIN palette' = PaletteRuns
  BY <1>1 DEF DraftInv
<1>14. ids' \in Nat /\ keystrokes' \in Nat
  BY <1>1, <1>2
<1>15. QED BY <1>11, <1>12, <1>13, <1>14 DEF DraftInv

LEMMA DraftInvStep ==
  ASSUME DraftInv, [DraftNext]_draftVars
  PROVE  DraftInv'
<1>1. /\ ids \in Nat /\ keystrokes \in Nat /\ DraftOK(blocks, ids) /\ SentIsGrounded
      /\ blocks \in Seq(Block) /\ \A i \in DOMAIN blocks : blocks[i] \in Block
      /\ DOMAIN palette = PaletteRuns
      /\ \A p \in PaletteRuns : palette[p] \in [at : {"idle", "running"}, seen : Block]
                                /\ SeenOK(blocks, palette[p], ids)
  BY DEF DraftInv, DraftOK
<1>2. CASE TypeKey
  <2> DEFINE typed(b) == [b EXCEPT !.typed = @ \cup {keystrokes + 1}]
  <2>1. \A b \in Block : /\ typed(b) \in Block /\ typed(b).id = b.id
                         /\ typed(b).kind = b.kind /\ typed(b).result = b.result
    <3> SUFFICES ASSUME NEW b \in Block
                 PROVE  /\ typed(b) \in Block /\ typed(b).id = b.id
                        /\ typed(b).kind = b.kind /\ typed(b).result = b.result
      OBVIOUS
    <3>1. b.typed \cup {keystrokes + 1} \in SUBSET Nat
      BY <1>1 DEF Block
    <3>2. QED BY <3>1 DEF Block
  <2>2. /\ blocks' = [i \in DOMAIN blocks |->
                       IF blocks[i].id = TrailingText.id THEN typed(blocks[i]) ELSE blocks[i]]
        /\ keystrokes' \in Nat /\ UNCHANGED <<ids, palette, sentBlocks>>
    BY <1>1, <1>2 DEF TypeKey
  <2> HIDE DEF typed
  <2>3. QED BY <1>1, <2>1, <2>2, PatchedKeeps
<1>3. ASSUME NEW p \in PaletteRuns, RunTool(p) PROVE DraftInv'
  <2>1. /\ palette' = [palette EXCEPT ![p] = [at |-> "running", seen |-> TrailingText]]
        /\ UNCHANGED <<blocks, sentBlocks, ids, keystrokes>>
    BY <1>3 DEF RunTool
  <2>2. /\ TrailingText \in Block /\ TrailingText.kind = "text" /\ TrailingText.id <= ids
        /\ TextBeside(blocks, TrailingText)
    BY <1>1, TrailingIsText
  <2>3. ASSUME NEW q \in PaletteRuns
        PROVE  /\ palette'[q] \in [at : {"idle", "running"}, seen : Block]
               /\ SeenOK(blocks, palette'[q], ids)
    <3>1. CASE q = p
      BY <1>1, <2>1, <2>2, <3>1 DEF SeenOK
    <3>2. CASE q # p
      BY <1>1, <2>1, <3>2
    <3>3. QED BY <3>1, <3>2
  <2>4. DOMAIN palette' = PaletteRuns
    BY <1>1, <2>1
  <2>5. QED BY <1>1, <2>1, <2>3, <2>4 DEF DraftInv, SentIsGrounded
<1>4. ASSUME NEW p \in PaletteRuns, ToolFails(p) PROVE DraftInv'
  <2>1. /\ palette' = [palette EXCEPT ![p] = NoRun]
        /\ UNCHANGED <<blocks, sentBlocks, ids, keystrokes>>
    BY <1>4 DEF ToolFails
  <2>2. NoRun \in [at : {"idle", "running"}, seen : Block] /\ NoRun.at = "idle"
    BY DEF NoRun, Text, Block
  <2>3. \A q \in PaletteRuns : palette'[q] \in {palette[q], NoRun}
    BY <1>1, <2>1
  <2>4. DOMAIN palette' = PaletteRuns
    BY <1>1, <2>1
  <2>5. QED BY <1>1, <2>1, <2>2, <2>3, <2>4 DEF DraftInv, SentIsGrounded, SeenOK
<1>5. ASSUME NEW id \in 1 .. MaxIds, Rerun(id) PROVE DraftInv'
  <2>1. \A b \in Block : /\ Running(b) \in Block /\ Running(b).id = b.id
                         /\ Running(b).kind = b.kind /\ Running(b).result = b.result
    BY DEF Running, Block
  <2>2. /\ blocks' = [i \in DOMAIN blocks |->
                       IF blocks[i].id = id THEN Running(blocks[i]) ELSE blocks[i]]
        /\ UNCHANGED <<keystrokes, ids, palette, sentBlocks>>
    BY <1>5 DEF Rerun
  <2>3. QED BY <1>1, <2>1, <2>2, PatchedKeeps
<1>6. ASSUME NEW id \in 1 .. MaxIds, NEW fails \in BOOLEAN, RerunEnds(id, fails) PROVE DraftInv'
  <2>1. \A b \in Block : /\ Ended(b, fails) \in Block /\ Ended(b, fails).id = b.id
                         /\ Ended(b, fails).kind = b.kind
                         /\ (b.result => Ended(b, fails).result)
    BY DEF Ended, Block
  <2>2. /\ blocks' = [i \in DOMAIN blocks |->
                       IF blocks[i].id = id THEN Ended(blocks[i], fails) ELSE blocks[i]]
        /\ UNCHANGED <<keystrokes, ids, palette, sentBlocks>>
    BY <1>6 DEF RerunEnds
  <2>3. QED BY <1>1, <2>1, <2>2, PatchedKeeps
<1>7. ASSUME NEW id \in 1 .. MaxIds, RemoveBlock(id) PROVE DraftInv'
  <2>1. /\ \E i \in DOMAIN blocks : blocks[i].id = id /\ blocks[i].kind = "tool"
        /\ blocks' = Without(id)
        /\ UNCHANGED <<palette, sentBlocks, ids, keystrokes>>
    BY <1>7 DEF RemoveBlock
  <2>2. /\ Without(id) \in Seq(Block) /\ Distinct(Without(id))
        /\ \A j \in DOMAIN Without(id) : \E k \in DOMAIN blocks : Without(id)[j] = blocks[k]
        /\ \A k \in DOMAIN blocks : blocks[k].id # id =>
             \E j \in DOMAIN Without(id) : Without(id)[j] = blocks[k]
    BY <1>1, WithoutFacts, SMTT(30) DEF DraftOK
  <2>3. PICK k \in DOMAIN blocks : blocks[k].kind = "text"
    BY <1>1 DEF DraftOK, HasText
  <2>4. blocks[k].id # id
    BY <1>1, <2>1, <2>3 DEF DraftOK, Distinct
  <2>5. HasText(blocks')
    BY <2>1, <2>2, <2>3, <2>4 DEF HasText
  <2>6. DraftOK(blocks', ids)
    BY <1>1, <2>1, <2>2, <2>5 DEF DraftOK, IdsUpTo, HasResults
  <2>7. ASSUME NEW p \in PaletteRuns PROVE SeenOK(blocks', palette[p], ids)
    BY <1>1, <2>1, <2>2 DEF SeenOK, TextBeside
  <2>8. QED BY <1>1, <2>1, <2>6, <2>7 DEF DraftInv, SentIsGrounded
<1>8. CASE Send
  <2>1. Clear /\ sentBlocks' = blocks /\ UNCHANGED <<palette, keystrokes>>
    BY <1>8 DEF Send
  <2>2. SentIsGrounded'
    BY <1>1, <2>1 DEF DraftOK, HasResults, SentIsGrounded
  <2>3. QED BY <2>1, <2>2, ClearKeeps
<1>9. CASE NewChat
  <2>1. Clear /\ sentBlocks' = <<>> /\ UNCHANGED <<palette, keystrokes>>
    BY <1>9 DEF NewChat
  <2>2. SentIsGrounded'
    BY <2>1 DEF SentIsGrounded
  <2>3. QED BY <2>1, <2>2, ClearKeeps
<1>10. CASE ReplyEnds \/ UNCHANGED draftVars
  BY <1>1, <1>10 DEF ReplyEnds, draftVars, DraftInv, SentIsGrounded
<1>11. QED
  BY <1>2, <1>3, <1>4, <1>5, <1>6, <1>7, <1>8, <1>9, <1>10, ToolReturnsKeeps DEF DraftNext

\* Every result in a message that was sent says what its tool answered, for any number of
\* blocks, runs and calls made again (draft.ts:62-95, BlockView.tsx).
THEOREM MessagesAreGrounded == DraftSpec => []SentIsGrounded
<1>1. DraftInit => DraftInv
  <2> SUFFICES ASSUME DraftInit PROVE DraftInv
    OBVIOUS
  <2>1. Text(1, {}) \in Block /\ Text(1, {}).id = 1 /\ Text(1, {}).kind = "text"
    BY DEF Text, Block
  <2>2. /\ blocks = <<Text(1, {})>> /\ ids = 1 /\ keystrokes = 0 /\ sentBlocks = <<>>
        /\ palette = [p \in PaletteRuns |-> NoRun]
    BY DEF DraftInit
  <2>3. NoRun \in [at : {"idle", "running"}, seen : Block] /\ NoRun.at = "idle"
    BY DEF NoRun, Text, Block
  <2> HIDE DEF Text, NoRun
  <2>4. blocks \in Seq(Block) /\ DOMAIN blocks = {1} /\ blocks[1] = Text(1, {})
    BY <2>1, <2>2
  <2>5. DraftOK(blocks, ids)
    BY <2>1, <2>2, <2>4 DEF DraftOK, IdsUpTo, Distinct, HasResults, HasText
  <2>6. QED BY <2>2, <2>3, <2>5 DEF DraftInv, SentIsGrounded, SeenOK
<1>2. DraftInv => SentIsGrounded
  BY DEF DraftInv
<1>3. QED BY <1>1, <1>2, DraftInvStep, PTL DEF DraftSpec

-----------------------------------------------------------------------------
(* Recording and replay                                                    *)

(* How many of the first n keys are k.                                     *)
LEMMA CountType ==
  ASSUME NEW k, NEW keys, NEW n \in Nat
  PROVE  CountOf(k, keys, n) \in Nat /\ IsFiniteSet({m \in 1 .. n : keys[m] = k})
<1>1. IsFiniteSet(1 .. n)
  BY FS_Interval
<1>2. IsFiniteSet({m \in 1 .. n : keys[m] = k})
  BY <1>1, FS_Subset
<1>3. QED BY <1>2, FS_CardinalityType DEF CountOf

LEMMA CountOfNone ==
  ASSUME NEW k, NEW keys
  PROVE  CountOf(k, keys, 0) = 0
<1>1. {m \in 1 .. 0 : keys[m] = k} = {}
  OBVIOUS
<1>2. QED BY <1>1, FS_EmptySet DEF CountOf

LEMMA CountNext ==
  ASSUME NEW k, NEW keys, NEW n \in Nat
  PROVE  CountOf(k, keys, n + 1) = CountOf(k, keys, n) + (IF keys[n + 1] = k THEN 1 ELSE 0)
<1> DEFINE before == {m \in 1 .. n : keys[m] = k}
           after == {m \in 1 .. n + 1 : keys[m] = k}
<1>1. IsFiniteSet(before) /\ Cardinality(before) \in Nat
  BY CountType DEF CountOf
<1>2. CASE keys[n + 1] = k
  <2>1. after = before \cup {n + 1} /\ n + 1 \notin before
    BY <1>2
  <2>2. Cardinality(after) = Cardinality(before) + 1
    <3> HIDE DEF before, after
    <3>1. QED BY <1>1, <2>1, FS_AddElement
  <2>3. QED BY <1>2, <2>2 DEF CountOf
<1>3. CASE keys[n + 1] # k
  <2>1. after = before
    BY <1>3
  <2>2. QED BY <1>1, <1>3, <2>1 DEF CountOf
<1>4. QED BY <1>2, <1>3

LEMMA CountGrows ==
  ASSUME NEW k, NEW keys, NEW a \in Nat, NEW b \in Nat, a <= b
  PROVE  CountOf(k, keys, a) <= CountOf(k, keys, b)
<1> DEFINE A == {m \in 1 .. a : keys[m] = k}
           B == {m \in 1 .. b : keys[m] = k}
<1>1. A \subseteq B
  OBVIOUS
<1>2. IsFiniteSet(B)
  BY CountType
<1>3. Cardinality(A) <= Cardinality(B)
  <2> HIDE DEF A, B
  <2>1. QED BY <1>1, <1>2, FS_Subset
<1>4. QED BY <1>3 DEF CountOf

\* The count goes up at each key that is k, so it tells these apart.
LEMMA CountTellsApart ==
  ASSUME NEW k, NEW keys, NEW a \in Nat, NEW b \in Nat \ {0}, a < b, keys[b] = k
  PROVE  CountOf(k, keys, a) < CountOf(k, keys, b)
<1>1. b - 1 \in Nat /\ a <= b - 1 /\ (b - 1) + 1 = b
  OBVIOUS
<1>2. CountOf(k, keys, b) = CountOf(k, keys, b - 1) + 1
  BY <1>1, CountNext
<1>3. CountOf(k, keys, a) <= CountOf(k, keys, b - 1)
  BY <1>1, CountGrows
<1>4. CountOf(k, keys, a) \in Nat /\ CountOf(k, keys, b - 1) \in Nat
  BY <1>1, CountType
<1>5. QED BY <1>2, <1>3, <1>4

LEMMA CountAgrees ==
  ASSUME NEW k, NEW keys, NEW others, NEW n \in Nat, \A m \in 1 .. n : keys[m] = others[m]
  PROVE  CountOf(k, keys, n) = CountOf(k, others, n)
<1>1. {m \in 1 .. n : keys[m] = k} = {m \in 1 .. n : others[m] = k}
  OBVIOUS
<1>2. QED BY <1>1 DEF CountOf

\* Each number up to the count is the number of an occurrence.
LEMMA CountIsReached ==
  ASSUME NEW k, NEW keys, NEW n \in Nat, NEW c \in 1 .. CountOf(k, keys, n)
  PROVE  \E m \in 1 .. n : keys[m] = k /\ CountOf(k, keys, m) = c
<1> DEFINE S == {m \in 0 .. n : c <= CountOf(k, keys, m)}
           m == Min(S)
<1>1. c \in Nat /\ CountOf(k, keys, n) \in Nat /\ c <= CountOf(k, keys, n)
  <2>1. CountOf(k, keys, n) \in Nat
    BY CountType
  <2>2. QED BY <2>1
<1>2. n \in S /\ S \subseteq Nat
  BY <1>1
<1>3. m \in S /\ \A y \in S : m <= y
  <2> HIDE DEF S
  <2>1. QED BY <1>2, LeastIndex
<1>4. m \in 0 .. n /\ c <= CountOf(k, keys, m)
  BY <1>3
<1> HIDE DEF m
<1>5. m # 0
  BY <1>1, <1>4, CountOfNone
<1>6. m - 1 \in 0 .. n /\ m - 1 \in Nat /\ (m - 1) + 1 = m
  BY <1>4, <1>5
<1>7. ~(c <= CountOf(k, keys, m - 1))
  <2>1. m - 1 \notin S
    BY <1>3, <1>4, <1>6
  <2>2. QED BY <1>6, <2>1
<1>8. CountOf(k, keys, m) = CountOf(k, keys, m - 1) + (IF keys[m] = k THEN 1 ELSE 0)
  BY <1>6, CountNext
<1>9. CountOf(k, keys, m - 1) \in Nat
  BY <1>6, CountType
<1> HIDE DEF S
<1>10. keys[m] = k /\ CountOf(k, keys, m) = c
  BY <1>1, <1>4, <1>7, <1>8, <1>9
<1>11. QED BY <1>4, <1>5, <1>10

\* An occurrence of the key of request i, with the number that i has among its kind.
Matched(reqs, its, i, got) ==
  \E m \in DOMAIN its :
    /\ its[m].key = reqs[i] /\ its[m].result = got
    /\ CountOf(reqs[i], KeysOf(its), m) = CountOf(reqs[i], reqs, i)
LastOfItsKind(reqs, open) ==
  \A i \in open : CountOf(reqs[i], reqs, i) = CountOf(reqs[i], reqs, Len(reqs))
AllCounted(reqs, its, open) ==
  \A k \in Keys :
    CountOf(k, KeysOf(its), Len(its)) + (IF \E i \in open : reqs[i] = k THEN 1 ELSE 0)
      = CountOf(k, reqs, Len(reqs))
AllMatched(reqs, its, open, given) ==
  \A i \in (1 .. Len(reqs)) \ open : Matched(reqs, its, i, given[i])

\* What the cassette has of each key, in order, is what its requests were answered, in order: a
\* request that is open is the last of its kind, and the only one that the cassette lacks.
InTurn(reqs, its, open, given) ==
  LastOfItsKind(reqs, open) /\ AllCounted(reqs, its, open) /\ AllMatched(reqs, its, open, given)

LEMMA KeysOfType ==
  ASSUME NEW its \in Seq(InteractionType)
  PROVE  /\ DOMAIN its = 1 .. Len(its) /\ Len(its) \in Nat
         /\ \A m \in DOMAIN its : its[m] \in InteractionType /\ KeysOf(its)[m] = its[m].key
BY DEF KeysOf

\* A request that is not of the kind of one that is open.
LEMMA RequestInTurn ==
  ASSUME NEW reqs \in Seq(Keys), NEW its \in Seq(InteractionType), NEW open, open \subseteq 1 .. Len(reqs),
         NEW given, InTurn(reqs, its, open, given), NEW k \in Keys, \A i \in open : reqs[i] # k
  PROVE  InTurn(Append(reqs, k), its, open \cup {Len(reqs) + 1}, given)
<1> DEFINE n == Len(reqs)
           more == Append(reqs, k)
<1>1. /\ n \in Nat /\ Len(more) = n + 1 /\ more[n + 1] = k
      /\ \A m \in 1 .. n : more[m] = reqs[m] /\ reqs[m] \in Keys
  OBVIOUS
<1> HIDE DEF n, more
<1>2. ASSUME NEW j \in 0 .. n, NEW key PROVE CountOf(key, more, j) = CountOf(key, reqs, j)
  BY <1>1, CountAgrees
<1>3. ASSUME NEW key
      PROVE  CountOf(key, more, n + 1) = CountOf(key, reqs, n) + (IF key = k THEN 1 ELSE 0)
  <2>1. CountOf(key, more, n + 1) = CountOf(key, more, n) + (IF k = key THEN 1 ELSE 0)
    BY <1>1, CountNext
  <2>2. QED BY <1>1, <1>2, <2>1
<1>4. \A key : CountOf(key, reqs, n) \in Nat /\ CountOf(key, KeysOf(its), Len(its)) \in Nat
  BY <1>1, CountType, KeysOfType
<1>5. open \subseteq 1 .. n
  BY DEF n
<1>6. LastOfItsKind(more, open \cup {n + 1})
  <2>1. ASSUME NEW i \in open
        PROVE  CountOf(more[i], more, i) = CountOf(more[i], more, n + 1)
    <3>1. CountOf(reqs[i], reqs, i) = CountOf(reqs[i], reqs, n)
      BY DEF InTurn, LastOfItsKind, n
    <3>2. more[i] = reqs[i] /\ reqs[i] # k /\ i \in 0 .. n
      BY <1>1, <1>5
    <3>3. QED BY <1>2, <1>3, <1>4, <3>1, <3>2
  <2>2. QED BY <1>1, <2>1 DEF LastOfItsKind
<1>7. AllCounted(more, its, open \cup {n + 1})
  <2> SUFFICES ASSUME NEW key \in Keys
               PROVE  CountOf(key, KeysOf(its), Len(its))
                        + (IF \E i \in open \cup {n + 1} : more[i] = key THEN 1 ELSE 0)
                      = CountOf(key, more, n + 1)
    BY <1>1 DEF AllCounted
  <2>1. CountOf(key, KeysOf(its), Len(its))
          + (IF \E i \in open : reqs[i] = key THEN 1 ELSE 0) = CountOf(key, reqs, n)
    BY DEF InTurn, AllCounted, n
  <2>2. CASE key = k
    <3>1. ~\E i \in open : reqs[i] = key
      BY <2>2
    <3>2. \E i \in open \cup {n + 1} : more[i] = key
      BY <1>1, <2>2
    <3>3. CountOf(key, more, n + 1) = CountOf(key, reqs, n) + 1
      BY <1>3, <2>2
    <3>4. CountOf(key, KeysOf(its), Len(its)) + 0 = CountOf(key, reqs, n)
      BY <2>1, <3>1
    <3>5. CountOf(key, KeysOf(its), Len(its)) = CountOf(key, reqs, n)
      BY <1>4, <3>4
    <3>6. QED BY <1>4, <3>2, <3>3, <3>5
  <2>3. CASE key # k
    <3>1. (\E i \in open \cup {n + 1} : more[i] = key) <=> (\E i \in open : reqs[i] = key)
      BY <1>1, <1>5, <2>3
    <3>2. CountOf(key, more, n + 1) = CountOf(key, reqs, n)
      BY <1>3, <1>4, <2>3
    <3>3. QED BY <2>1, <3>1, <3>2
  <2>4. QED BY <2>2, <2>3
<1>8. AllMatched(more, its, open \cup {n + 1}, given)
  <2> SUFFICES ASSUME NEW i \in (1 .. n) \ open PROVE Matched(more, its, i, given[i])
    BY <1>1 DEF AllMatched
  <2>1. Matched(reqs, its, i, given[i])
    BY DEF InTurn, AllMatched, n
  <2>2. more[i] = reqs[i] /\ i \in 0 .. n
    BY <1>1
  <2>3. CountOf(reqs[i], more, i) = CountOf(reqs[i], reqs, i)
    BY <1>2, <2>2
  <2>4. QED BY <2>1, <2>2, <2>3 DEF Matched
<1>9. QED BY <1>6, <1>7, <1>8 DEF InTurn, n, more

\* The request that is answered is put at the end of the cassette.
LEMMA AnswerInTurn ==
  ASSUME NEW reqs \in Seq(Keys), NEW its \in Seq(InteractionType), NEW open,
         open \subseteq 1 .. Len(reqs), NEW given, NEW given2, InTurn(reqs, its, open, given),
         NEW i \in open, NEW got,
         [key |-> reqs[i], result |-> got] \in InteractionType,
         \A j \in (1 .. Len(reqs)) \ {i} : given2[j] = given[j], given2[i] = got
  PROVE  InTurn(reqs, Append(its, [key |-> reqs[i], result |-> got]), open \ {i}, given2)
<1> DEFINE new == [key |-> reqs[i], result |-> got]
           more == Append(its, new)
           n == Len(its)
           k == reqs[i]
<1>1. /\ n \in Nat /\ more \in Seq(InteractionType) /\ DOMAIN more = 1 .. n + 1
      /\ DOMAIN its = 1 .. n /\ Len(more) = n + 1 /\ Len(reqs) \in Nat
      /\ more[n + 1].key = k /\ more[n + 1].result = got
      /\ \A m \in 1 .. n : more[m] = its[m]
  OBVIOUS
<1>2. /\ \A m \in 1 .. n : KeysOf(more)[m] = KeysOf(its)[m]
      /\ KeysOf(more)[n + 1] = k
  BY <1>1 DEF KeysOf
<1> HIDE DEF more, n, k, new
<1>3. ASSUME NEW j \in 0 .. n, NEW key
      PROVE  CountOf(key, KeysOf(more), j) = CountOf(key, KeysOf(its), j)
  BY <1>1, <1>2, CountAgrees
<1>4. ASSUME NEW key
      PROVE  CountOf(key, KeysOf(more), n + 1)
               = CountOf(key, KeysOf(its), n) + (IF key = k THEN 1 ELSE 0)
  <2>1. CountOf(key, KeysOf(more), n + 1)
          = CountOf(key, KeysOf(more), n) + (IF k = key THEN 1 ELSE 0)
    BY <1>1, <1>2, CountNext
  <2>2. QED BY <1>1, <1>3, <2>1
<1>5. \A key : CountOf(key, KeysOf(its), n) \in Nat
  BY <1>1, CountType
<1>6. ASSUME NEW j \in open, reqs[j] = k PROVE j = i
  <2>1. /\ CountOf(k, reqs, i) = CountOf(k, reqs, Len(reqs))
        /\ CountOf(k, reqs, j) = CountOf(k, reqs, Len(reqs))
    BY <1>6 DEF InTurn, LastOfItsKind, k
  <2>2. i \in Nat \ {0} /\ j \in Nat \ {0} /\ CountOf(k, reqs, i) \in Nat
    <3>1. i \in 1 .. Len(reqs) /\ j \in 1 .. Len(reqs)
      OBVIOUS
    <3>2. i \in Nat \ {0} /\ j \in Nat \ {0}
      BY <1>1, <3>1
    <3>3. QED BY <3>2, CountType
  <2>3. ~(i < j) /\ ~(j < i)
    BY <1>6, <2>1, <2>2, CountTellsApart DEF k
  <2>4. QED BY <2>2, <2>3
<1>7. LastOfItsKind(reqs, open \ {i})
  BY DEF InTurn, LastOfItsKind
<1>8. AllCounted(reqs, more, open \ {i})
  <2> SUFFICES ASSUME NEW key \in Keys
               PROVE  CountOf(key, KeysOf(more), n + 1)
                        + (IF \E j \in open \ {i} : reqs[j] = key THEN 1 ELSE 0)
                      = CountOf(key, reqs, Len(reqs))
    BY <1>1 DEF AllCounted
  <2>1. CountOf(key, KeysOf(its), n)
          + (IF \E j \in open : reqs[j] = key THEN 1 ELSE 0) = CountOf(key, reqs, Len(reqs))
    BY DEF InTurn, AllCounted, n
  <2>2. CASE key = k
    <3>1. ~\E j \in open \ {i} : reqs[j] = key
      BY <1>6, <2>2
    <3>2. \E j \in open : reqs[j] = key
      BY <2>2 DEF k
    <3>3. CountOf(key, KeysOf(its), n) + 1 = CountOf(key, reqs, Len(reqs))
      BY <2>1, <3>2
    <3>4. CountOf(key, KeysOf(more), n + 1) = CountOf(key, KeysOf(its), n) + 1
      BY <1>4, <2>2
    <3>5. CountOf(key, KeysOf(more), n + 1) + 0 = CountOf(key, reqs, Len(reqs))
      BY <1>5, <3>3, <3>4
    <3>6. QED BY <3>1, <3>5
  <2>3. CASE key # k
    <3>1. (\E j \in open \ {i} : reqs[j] = key) <=> (\E j \in open : reqs[j] = key)
      BY <2>3 DEF k
    <3>2. CountOf(key, KeysOf(more), n + 1) = CountOf(key, KeysOf(its), n)
      BY <1>4, <1>5, <2>3
    <3>3. QED BY <2>1, <3>1, <3>2
  <2>4. QED BY <2>2, <2>3
<1>9. ASSUME NEW j \in (1 .. Len(reqs)) \ (open \ {i}) PROVE Matched(reqs, more, j, given2[j])
  <2>1. CASE j = i
    <3>1. CountOf(k, KeysOf(its), n) + 1 = CountOf(k, reqs, Len(reqs))
      <4>1. \E q \in open : reqs[q] = k
        BY DEF k
      <4>2. k \in Keys
        BY DEF k
      <4>3. QED BY <4>1, <4>2 DEF InTurn, AllCounted, n
    <3>2. CountOf(k, reqs, i) = CountOf(k, reqs, Len(reqs))
      BY DEF InTurn, LastOfItsKind, k
    <3>3. CountOf(k, KeysOf(more), n + 1) = CountOf(k, reqs, i)
      BY <1>4, <3>1, <3>2
    <3>4. n + 1 \in DOMAIN more
      BY <1>1
    <3>5. QED BY <1>1, <2>1, <3>3, <3>4 DEF Matched, k
  <2>2. CASE j # i
    <3>1. Matched(reqs, its, j, given[j])
      BY <1>9, <2>2 DEF InTurn, AllMatched
    <3>2. PICK m \in 1 .. n : /\ its[m].key = reqs[j] /\ its[m].result = given[j]
                              /\ CountOf(reqs[j], KeysOf(its), m) = CountOf(reqs[j], reqs, j)
      BY <1>1, <3>1 DEF Matched
    <3>3. m \in DOMAIN more /\ more[m] = its[m] /\ m \in 0 .. n
      BY <1>1
    <3>4. CountOf(reqs[j], KeysOf(more), m) = CountOf(reqs[j], reqs, j)
      BY <1>3, <3>2, <3>3
    <3>5. given2[j] = given[j]
      BY <1>9, <2>2
    <3>6. QED BY <3>2, <3>3, <3>4, <3>5 DEF Matched
  <2>3. QED BY <2>1, <2>2
<1>10. QED BY <1>7, <1>8, <1>9 DEF InTurn, AllMatched, more, new

\* The n-th of a key's queue is what was recorded for the n-th request of its kind.
LEMMA PushedIsRecorded ==
  ASSUME interactions \in Seq(InteractionType), NEW k \in Keys
  PROVE  /\ CountIn(k) \in Nat /\ Queue(k) \in Seq(Results) /\ Len(Queue(k)) = CountIn(k)
         /\ \A m \in DOMAIN interactions : interactions[m].key = k =>
              LET n == CountOf(k, KeysOf(interactions), m) IN
                /\ n \in 1 .. CountIn(k)
                /\ interactions[m].result # Failed => Queue(k)[n] = interactions[m].result
<1> DEFINE keys == KeysOf(interactions)
           place(n) == CHOOSE i \in DOMAIN interactions :
                      interactions[i].key = k /\ CountOf(k, keys, i) = n
<1>1. /\ DOMAIN interactions = 1 .. Len(interactions) /\ Len(interactions) \in Nat
      /\ \A m \in DOMAIN interactions :
           interactions[m] \in InteractionType /\ keys[m] = interactions[m].key
  BY KeysOfType
<1>2. CountIn(k) \in Nat /\ CountIn(k) = CountOf(k, keys, Len(interactions))
  BY <1>1, CountType DEF CountIn
<1> HIDE DEF keys
<1>3. ASSUME NEW n \in 1 .. CountIn(k)
      PROVE  place(n) \in DOMAIN interactions /\ interactions[place(n)].key = k
             /\ CountOf(k, keys, place(n)) = n
  <2>1. \E m \in DOMAIN interactions : interactions[m].key = k /\ CountOf(k, keys, m) = n
    <3>1. n \in 1 .. CountOf(k, keys, Len(interactions))
      BY <1>2
    <3>2. PICK m \in 1 .. Len(interactions) : keys[m] = k /\ CountOf(k, keys, m) = n
      BY <1>1, <3>1, CountIsReached
    <3>3. QED BY <1>1, <3>2
  <2>2. QED BY <2>1
<1>4. \A n : Pushed(k, n) = IF interactions[place(n)].result = Failed THEN Undefined
                            ELSE interactions[place(n)].result
  BY DEF Pushed, keys
<1> HIDE DEF place
<1>5. ASSUME NEW n \in 1 .. CountIn(k) PROVE Pushed(k, n) \in Results
  <2>1. interactions[place(n)].result \in Results
    BY <1>1, <1>3 DEF InteractionType
  <2>2. Undefined \in Results
    BY RecordAssumption DEF RecordAssumption, Undefined, Results, Unmatched
  <2>3. QED BY <1>4, <2>1, <2>2
<1>6. Queue(k) \in Seq(Results) /\ Len(Queue(k)) = CountIn(k)
      /\ \A n \in 1 .. CountIn(k) : Queue(k)[n] = Pushed(k, n)
  BY <1>2, <1>5 DEF Queue
<1>7. ASSUME NEW m \in DOMAIN interactions, interactions[m].key = k
      PROVE  /\ CountOf(k, keys, m) \in 1 .. CountIn(k)
             /\ place(CountOf(k, keys, m)) = m
  <2>1. m \in Nat \ {0} /\ m <= Len(interactions) /\ keys[m] = k
    BY <1>1, <1>7
  <2>2. CountOf(k, keys, m) \in Nat /\ CountOf(k, keys, m) <= CountIn(k)
    BY <1>1, <1>2, <2>1, CountType, CountGrows
  <2>3. CountOf(k, keys, 0) < CountOf(k, keys, m)
    BY <2>1, CountTellsApart
  <2>4. CountOf(k, keys, m) \in 1 .. CountIn(k)
    BY <1>2, <2>2, <2>3, CountOfNone
  <2> DEFINE i == place(CountOf(k, keys, m))
  <2>5. i \in DOMAIN interactions /\ interactions[i].key = k
        /\ CountOf(k, keys, i) = CountOf(k, keys, m)
    BY <1>3, <2>4
  <2> HIDE DEF i
  <2>6. i \in Nat \ {0} /\ keys[i] = k
    BY <1>1, <2>5
  <2>7. ~(i < m) /\ ~(m < i)
    BY <2>1, <2>2, <2>5, <2>6, CountTellsApart
  <2>8. QED BY <2>1, <2>4, <2>6, <2>7 DEF i
<1>8. ASSUME NEW m \in DOMAIN interactions, interactions[m].key = k,
             interactions[m].result # Failed
      PROVE  Queue(k)[CountOf(k, keys, m)] = interactions[m].result
  BY <1>4, <1>6, <1>7, <1>8
<1>9. QED BY <1>2, <1>6, <1>7, <1>8 DEF keys

\* What is left in the queues while the requests are made again.
QueuesLeft ==
  \A k \in Keys :
    LET done == CountOf(k, requests, Len(replayed))
        all == CountOf(k, requests, Len(requests))
    IN done < all => /\ Len(queues[k]) = all - done
                      /\ \A j \in 1 .. all - done : queues[k][j] = Queue(k)[done + j]

RecordShape ==
  /\ RecordTypeOK
  /\ unanswered \subseteq 1 .. Len(requests) /\ pending \subseteq 1 .. Len(requests)
  /\ answers + Cardinality(unanswered) = Len(requests)
  /\ phase = "recording" => replayed = <<>>
  /\ phase = "replaying" => unanswered = {} /\ Len(replayed) <= Len(requests)

RecordInv ==
  /\ RecordShape
  /\ ~crossed /\ ~collided =>
       /\ pending = unanswered
       /\ InTurn(requests, interactions, unanswered, liveAnswer)
       /\ phase = "replaying" => QueuesLeft
       /\ ReplayIsFaithful

LEMMA RecordShapeStep ==
  ASSUME RecordShape, [RecordNext]_recordVars
  PROVE  RecordShape'
<1> DEFINE n == Len(requests)
<1>1. /\ requests \in Seq(Keys) /\ n \in Nat /\ n <= MaxRequests /\ MaxRequests \in Nat
      /\ unanswered \subseteq 1 .. n /\ pending \subseteq 1 .. n /\ 1 .. n \subseteq Ids
      /\ interactions \in Seq(InteractionType) /\ answers \in 0 .. MaxRequests
      /\ liveAnswer \in [Ids -> 0 .. Failed] /\ queues \in [Keys -> Seq(Results)]
      /\ replayed \in Seq(Results) /\ crossed \in BOOLEAN /\ collided \in BOOLEAN
      /\ phase \in {"recording", "replaying"}
      /\ answers + Cardinality(unanswered) = n
      /\ phase = "recording" => replayed = <<>>
      /\ phase = "replaying" => unanswered = {} /\ Len(replayed) <= n
      /\ \A j \in 1 .. n : requests[j] \in Keys
  <2>1. n \in Nat /\ n <= MaxRequests /\ MaxRequests \in Nat
    BY RecordAssumption DEF RecordAssumption, RecordShape, RecordTypeOK
  <2> HIDE DEF n
  <2>2. 1 .. n \subseteq Ids
    BY <2>1 DEF Ids
  <2>3. QED BY <2>1, <2>2 DEF RecordShape, RecordTypeOK, n
<1> HIDE DEF n
<1>2. IsFiniteSet(unanswered) /\ Cardinality(unanswered) \in Nat
  <2>1. IsFiniteSet(1 .. n)
    BY <1>1, FS_Interval
  <2>2. IsFiniteSet(unanswered)
    BY <1>1, <2>1, FS_Subset
  <2>3. QED BY <2>2, FS_CardinalityType
<1>3. Failed \in Results /\ Undefined \in Results /\ Unmatched \in Results
      /\ \A r \in 1 .. MaxRequests : r \in Results /\ r \in 0 .. Failed
      /\ Failed \in 0 .. Failed
  BY <1>1 DEF Failed, Undefined, Unmatched, Results
<1>4. ASSUME NEW id \in Ids, NEW result \in Results, Records(id, result)
      PROVE  /\ pending' \subseteq 1 .. n
             /\ interactions' \in Seq(InteractionType)
  <2>1. CASE id \in pending
    <3>1. [key |-> requests[id], result |-> result] \in InteractionType
      <4>1. requests[id] \in Keys
        BY <1>1, <2>1
      <4>2. QED BY <4>1 DEF InteractionType
    <3>2. /\ pending' = pending \ {id}
          /\ interactions' = Append(interactions, [key |-> requests[id], result |-> result])
      BY <1>4, <2>1 DEF Records
    <3>3. interactions' \in Seq(InteractionType)
      <4> HIDE DEF InteractionType
      <4>1. QED BY <1>1, <3>1, <3>2
    <3>4. QED BY <1>1, <3>2, <3>3
  <2>2. CASE id \notin pending
    BY <1>1, <1>4, <2>2 DEF Records
  <2>3. QED BY <2>1, <2>2
<1>5. ASSUME NEW k \in Keys, Requested(k) PROVE RecordShape'
  <2>1. /\ phase = "recording" /\ n < MaxRequests /\ requests' = Append(requests, k)
        /\ unanswered' = unanswered \cup {n + 1} /\ pending' = pending \cup {n + 1}
        /\ crossed' = (crossed \/ \E i \in unanswered : requests[i] = k)
        /\ UNCHANGED <<phase, interactions, answers, liveAnswer, queues, replayed, collided>>
    BY <1>5 DEF Requested, n
  <2>2. requests' \in Seq(Keys) /\ Len(requests') = n + 1
    BY <1>1, <2>1 DEF n
  <2>3. Cardinality(unanswered') = Cardinality(unanswered) + 1
    <3>1. n + 1 \notin unanswered
      BY <1>1
    <3>2. QED BY <1>2, <2>1, <3>1, FS_AddElement
  <2>4. unanswered' \subseteq 1 .. n + 1 /\ pending' \subseteq 1 .. n + 1
        /\ 1 .. n + 1 \subseteq Ids /\ crossed' \in BOOLEAN
    BY <1>1, <2>1 DEF Ids
  <2>5. answers' + Cardinality(unanswered') = n + 1
    <3>1. answers' = answers /\ answers \in Nat /\ answers + Cardinality(unanswered) = n
      BY <1>1, <2>1
    <3>2. QED BY <1>2, <2>3, <3>1
  <2>6. QED BY <1>1, <2>1, <2>2, <2>4, <2>5 DEF RecordShape, RecordTypeOK, n
<1>6. ASSUME NEW i \in Ids, AnswerComes(i) PROVE RecordShape'
  <2>1. /\ i \in unanswered /\ unanswered' = unanswered \ {i} /\ answers' = answers + 1
        /\ UNCHANGED <<phase, requests, queues, replayed, crossed, collided>>
    BY <1>6 DEF AnswerComes
  <2>2. PICK result \in {answers + 1, Failed} :
          liveAnswer' = [liveAnswer EXCEPT ![i] = result] /\ Records(i, result)
    BY <1>6 DEF AnswerComes
  <2>3. Cardinality(unanswered') = Cardinality(unanswered) - 1
    BY <1>2, <2>1, FS_RemoveElement
  <2>4. Cardinality(unanswered) # 0
    BY <1>2, <2>1, FS_EmptySet
  <2>5. answers + 1 \in 1 .. MaxRequests
    BY <1>1, <1>2, <2>4, SMTT(30)
  <2>6. result \in Results /\ result \in 0 .. Failed
    BY <1>3, <2>2, <2>5
  <2>7. pending' \subseteq 1 .. n /\ interactions' \in Seq(InteractionType)
    BY <1>4, <2>2, <2>6
  <2>8. liveAnswer' \in [Ids -> 0 .. Failed]
    BY <1>1, <2>2, <2>6
  <2>9. answers' + Cardinality(unanswered') = n
    BY <1>1, <1>2, <2>1, <2>3
  <2>10. unanswered' \subseteq 1 .. n /\ unanswered' \subseteq Ids /\ pending' \subseteq Ids
         /\ answers' \in 0 .. MaxRequests
    BY <1>1, <2>1, <2>5, <2>7
  <2>11. phase = "recording"
    BY <1>1, <2>1
  <2>12. QED BY <1>1, <2>1, <2>7, <2>8, <2>9, <2>10, <2>11 DEF RecordShape, RecordTypeOK, n
<1>7. ASSUME NEW id \in Ids, ServerAsks(id) PROVE RecordShape'
  <2>1. /\ phase = "recording" /\ collided' = (collided \/ id \in pending)
        /\ UNCHANGED <<phase, requests, unanswered, answers, liveAnswer, queues, replayed, crossed>>
        /\ Records(id, Undefined)
    BY <1>7 DEF ServerAsks
  <2>2. pending' \subseteq 1 .. n /\ interactions' \in Seq(InteractionType)
    BY <1>3, <1>4, <2>1
  <2>3. pending' \subseteq Ids /\ collided' \in BOOLEAN
    BY <1>1, <2>1, <2>2
  <2>4. QED BY <1>1, <2>1, <2>2, <2>3 DEF RecordShape, RecordTypeOK, n
<1>8. CASE Replays
  <2>1. /\ phase = "recording" /\ unanswered = {} /\ phase' = "replaying"
        /\ queues' = [k \in Keys |-> Queue(k)]
        /\ UNCHANGED <<requests, unanswered, pending, interactions, answers, liveAnswer, replayed,
                       crossed, collided>>
    BY <1>8 DEF Replays
  <2>2. queues' \in [Keys -> Seq(Results)]
    BY <1>1, <2>1, PushedIsRecorded
  <2>3. Len(replayed) <= n
    BY <1>1, <2>1
  <2>4. QED BY <1>1, <2>1, <2>2, <2>3 DEF RecordShape, RecordTypeOK, n
<1>9. CASE ReplayRequest
  <2> DEFINE k == requests[Len(replayed) + 1]
  <2>1. /\ phase = "replaying" /\ Len(replayed) < n
        /\ replayed' = Append(replayed, Lookup(k))
        /\ queues' = [queues EXCEPT ![k] = IF Len(@) > 1 THEN Tail(@) ELSE @]
        /\ UNCHANGED <<phase, requests, unanswered, pending, interactions, answers, liveAnswer,
                       crossed, collided>>
    BY <1>9 DEF ReplayRequest, n
  <2>2. k \in Keys
    <3>1. Len(replayed) + 1 \in 1 .. n
      BY <1>1, <2>1
    <3>2. QED BY <1>1, <3>1
  <2> HIDE DEF k
  <2>3. queues[k] \in Seq(Results)
    BY <1>1, <2>2
  <2>4. Lookup(k) \in Results
    BY <1>3, <2>3, HeadTailProperties DEF Lookup
  <2>5. replayed' \in Seq(Results) /\ Len(replayed') = Len(replayed) + 1
    BY <1>1, <2>1, <2>4
  <2>6. queues' \in [Keys -> Seq(Results)]
    <3>1. Len(queues[k]) > 1 => Tail(queues[k]) \in Seq(Results)
      BY <2>3
    <3>2. QED BY <1>1, <2>1, <2>3, <3>1
  <2>7. Len(replayed') <= n
    BY <1>1, <2>1, <2>5
  <2>8. QED BY <1>1, <2>1, <2>5, <2>6, <2>7 DEF RecordShape, RecordTypeOK, n
<1>10. CASE UNCHANGED recordVars
  BY <1>1, <1>10 DEF recordVars, RecordShape, RecordTypeOK
<1>11. QED BY <1>5, <1>6, <1>7, <1>8, <1>9, <1>10 DEF RecordNext

LEMMA ShiftedIndex ==
  ASSUME NEW a \in Nat, NEW d \in Nat, NEW j \in 1 .. a - (d + 1)
  PROVE  /\ j \in 1 .. (a - d) - 1 /\ j + 1 \in 1 .. a - d
         /\ d + (j + 1) = (d + 1) + j
OBVIOUS

\* A request that is made again gets what it got, and the next of its kind stands next.
LEMMA ReplayInTurn ==
  ASSUME RecordShape, ReplayRequest, InTurn(requests, interactions, unanswered, liveAnswer),
         QueuesLeft, ReplayIsFaithful
  PROVE  QueuesLeft' /\ ReplayIsFaithful'
<1> DEFINE r == Len(replayed)
           k == requests[r + 1]
           done(key) == CountOf(key, requests, r)
           all(key) == CountOf(key, requests, Len(requests))
<1>1. /\ phase = "replaying" /\ r < Len(requests)
      /\ replayed' = Append(replayed, Lookup(k))
      /\ queues' = [queues EXCEPT ![k] = IF Len(@) > 1 THEN Tail(@) ELSE @]
      /\ UNCHANGED <<requests, interactions, liveAnswer>>
  BY DEF ReplayRequest
<1>2. /\ requests \in Seq(Keys) /\ interactions \in Seq(InteractionType)
      /\ queues \in [Keys -> Seq(Results)] /\ replayed \in Seq(Results)
      /\ r \in Nat /\ Len(requests) \in Nat
      /\ unanswered = {}
  BY <1>1 DEF RecordShape, RecordTypeOK
<1>3. r + 1 \in 1 .. Len(requests) /\ r + 1 \in Nat \ {0} /\ k \in Keys
  BY <1>1, <1>2
<1>4. \A key \in Keys : Queue(key)' = Queue(key)
  BY <1>1 DEF Queue, CountIn, Pushed
<1> HIDE DEF r, k
<1>5. \A key \in Keys : done(key) \in Nat /\ all(key) \in Nat
  BY <1>2, CountType
<1>6. CountOf(k, requests, r + 1) = done(k) + 1 /\ done(k) < all(k)
  <2>1. CountOf(k, requests, r + 1) = done(k) + 1
    BY <1>2, <1>3, CountNext DEF k
  <2>2. CountOf(k, requests, r + 1) <= all(k)
    BY <1>2, <1>3, CountGrows
  <2>3. QED BY <1>3, <1>5, <2>1, <2>2
<1>7. /\ Len(queues[k]) = all(k) - done(k) /\ queues[k] \in Seq(Results)
      /\ \A j \in 1 .. all(k) - done(k) : queues[k][j] = Queue(k)[done(k) + j]
  BY <1>2, <1>3, <1>6 DEF QueuesLeft, r
<1>8. liveAnswer[r + 1] # Failed => Lookup(k) = liveAnswer[r + 1]
  <2> SUFFICES ASSUME liveAnswer[r + 1] # Failed PROVE Lookup(k) = liveAnswer[r + 1]
    OBVIOUS
  <2>1. Matched(requests, interactions, r + 1, liveAnswer[r + 1])
    BY <1>2, <1>3 DEF InTurn, AllMatched
  <2>2. PICK m \in DOMAIN interactions :
          /\ interactions[m].key = k /\ interactions[m].result = liveAnswer[r + 1]
          /\ CountOf(k, KeysOf(interactions), m) = done(k) + 1
    BY <1>6, <2>1 DEF Matched, k
  <2>3. Queue(k)[done(k) + 1] = liveAnswer[r + 1]
    BY <1>2, <1>3, <2>2, PushedIsRecorded
  <2>4. 1 \in 1 .. all(k) - done(k)
    BY <1>3, <1>5, <1>6
  <2>5. queues[k][1] = liveAnswer[r + 1]
    BY <1>7, <2>3, <2>4
  <2>6. queues[k] # <<>> /\ Head(queues[k]) = queues[k][1]
    BY <1>7, <2>4
  <2>7. QED BY <2>5, <2>6 DEF Lookup
<1>9. ReplayIsFaithful'
  <2>1. /\ DOMAIN replayed' = 1 .. r + 1 /\ replayed'[r + 1] = Lookup(k)
        /\ \A i \in 1 .. r : replayed'[i] = replayed[i] /\ i \in DOMAIN replayed
    BY <1>1, <1>2 DEF r
  <2> SUFFICES ASSUME ~crossed', ~collided', NEW i \in 1 .. r + 1, liveAnswer[i] # Failed
               PROVE  replayed'[i] = liveAnswer[i]
    BY <1>1, <2>1 DEF ReplayIsFaithful
  <2>2. CASE i = r + 1
    BY <1>8, <2>1, <2>2
  <2>3. CASE i # r + 1
    <3>1. i \in 1 .. r
      BY <1>2, <2>3
    <3>2. ~crossed /\ ~collided
      BY DEF ReplayRequest
    <3>3. QED BY <2>1, <3>1, <3>2 DEF ReplayIsFaithful
  <2>4. QED BY <2>2, <2>3
<1>10. QueuesLeft'
  <2>1. Len(replayed') = r + 1
    BY <1>1, <1>2 DEF r
  <2> SUFFICES ASSUME NEW key \in Keys, CountOf(key, requests, r + 1) < all(key)
               PROVE  LET now == CountOf(key, requests, r + 1) IN
                        /\ Len(queues'[key]) = all(key) - now
                        /\ \A j \in 1 .. all(key) - now : queues'[key][j] = Queue(key)[now + j]
    BY <1>1, <1>4, <2>1 DEF QueuesLeft
  <2>2. CASE key = k
    <3>1. CountOf(key, requests, r + 1) = done(k) + 1 /\ done(k) + 1 < all(k)
      BY <1>6, <2>2
    <3>2. Len(queues[k]) > 1
      BY <1>3, <1>5, <1>7, <3>1
    <3>3. queues'[k] = Tail(queues[k])
      BY <1>1, <1>2, <1>3, <3>2
    <3>4. /\ Len(queues'[k]) = Len(queues[k]) - 1
          /\ \A j \in 1 .. Len(queues[k]) - 1 : queues'[k][j] = queues[k][j + 1]
      <4>1. queues[k] # <<>>
        BY <3>2
      <4>2. QED BY <1>7, <3>3, <4>1, HeadTailProperties
    <3>5. /\ Len(queues'[k]) = all(k) - (done(k) + 1)
          /\ \A j \in 1 .. all(k) - (done(k) + 1) : queues'[k][j] = Queue(k)[(done(k) + 1) + j]
      <4>1. all(k) \in Nat /\ done(k) \in Nat
        BY <1>3, <1>5
      <4>2. all(k) - done(k) - 1 = all(k) - (done(k) + 1)
        BY <4>1
      <4>3. ASSUME NEW j \in 1 .. all(k) - (done(k) + 1)
            PROVE  queues'[k][j] = Queue(k)[(done(k) + 1) + j]
        <5>1. /\ j \in 1 .. Len(queues[k]) - 1 /\ j + 1 \in 1 .. all(k) - done(k)
              /\ done(k) + (j + 1) = (done(k) + 1) + j
          BY <1>7, <4>1, ShiftedIndex
        <5>2. queues'[k][j] = queues[k][j + 1]
          BY <3>4, <5>1
        <5>3. queues[k][j + 1] = Queue(k)[done(k) + (j + 1)]
          BY <1>7, <5>1
        <5>4. QED BY <5>1, <5>2, <5>3
      <4>4. QED BY <1>7, <3>4, <4>2, <4>3
    <3>6. QED BY <2>2, <3>1, <3>5
  <2>3. CASE key # k
    <3>1. CountOf(key, requests, r + 1) = done(key)
      <4>1. CountOf(key, requests, r + 1) = done(key) + 0
        BY <1>2, <2>3, CountNext DEF k
      <4>2. QED BY <1>5, <4>1
    <3>2. queues'[key] = queues[key]
      BY <1>1, <1>2, <2>3
    <3>3. done(key) < all(key)
      BY <3>1
    <3>4. QED BY <3>1, <3>2, <3>3 DEF QueuesLeft, r
  <2>4. QED BY <2>2, <2>3
<1>11. QED BY <1>9, <1>10

LEMMA RecordInvStep ==
  ASSUME RecordInv, [RecordNext]_recordVars
  PROVE  RecordInv'
<1>1. RecordShape /\ RecordShape'
  BY RecordShapeStep DEF RecordInv
<1>2. /\ requests \in Seq(Keys) /\ Len(requests) \in Nat
      /\ interactions \in Seq(InteractionType)
      /\ liveAnswer \in [Ids -> 0 .. Failed]
      /\ unanswered \subseteq 1 .. Len(requests) /\ 1 .. Len(requests) \subseteq Ids
      /\ phase = "recording" => replayed = <<>>
      /\ unanswered # {} => phase = "recording"
  <2>1. Len(requests) \in Nat /\ Len(requests) <= MaxRequests
    BY <1>1 DEF RecordShape, RecordTypeOK
  <2>2. 1 .. Len(requests) \subseteq Ids
    BY <2>1, RecordAssumption DEF RecordAssumption, Ids
  <2>3. QED BY <1>1, <2>1, <2>2 DEF RecordShape, RecordTypeOK
<1> SUFFICES ASSUME ~crossed', ~collided'
             PROVE  /\ pending' = unanswered'
                    /\ InTurn(requests', interactions', unanswered', liveAnswer')
                    /\ phase' = "replaying" => QueuesLeft'
                    /\ ReplayIsFaithful'
  BY <1>1 DEF RecordInv
<1>3. ASSUME ~crossed, ~collided
      PROVE  /\ pending = unanswered
             /\ InTurn(requests, interactions, unanswered, liveAnswer)
             /\ phase = "replaying" => QueuesLeft
             /\ ReplayIsFaithful
  BY <1>3 DEF RecordInv
<1>4. replayed' = <<>> => ReplayIsFaithful'
  BY DEF ReplayIsFaithful
<1>5. ASSUME NEW k \in Keys, Requested(k)
      PROVE  /\ pending' = unanswered' /\ phase' = "recording" /\ replayed' = <<>>
             /\ InTurn(requests', interactions', unanswered', liveAnswer')
  <2>1. /\ phase = "recording" /\ requests' = Append(requests, k)
        /\ unanswered' = unanswered \cup {Len(requests) + 1}
        /\ pending' = pending \cup {Len(requests) + 1}
        /\ crossed' = (crossed \/ \E i \in unanswered : requests[i] = k)
        /\ UNCHANGED <<phase, interactions, liveAnswer, replayed, collided>>
    BY <1>5 DEF Requested
  <2>2. ~crossed /\ ~collided /\ \A i \in unanswered : requests[i] # k
    BY <2>1
  <2>3. QED BY <1>2, <1>3, <2>1, <2>2, RequestInTurn
<1>6. ASSUME NEW i \in Ids, AnswerComes(i)
      PROVE  /\ pending' = unanswered' /\ phase' = "recording" /\ replayed' = <<>>
             /\ InTurn(requests', interactions', unanswered', liveAnswer')
  <2>1. /\ i \in unanswered /\ unanswered' = unanswered \ {i}
        /\ UNCHANGED <<phase, requests, replayed, crossed, collided>>
    BY <1>6 DEF AnswerComes
  <2>2. PICK result : liveAnswer' = [liveAnswer EXCEPT ![i] = result] /\ Records(i, result)
    BY <1>6 DEF AnswerComes
  <2>3. pending = unanswered /\ InTurn(requests, interactions, unanswered, liveAnswer)
    BY <1>3, <2>1
  <2>4. /\ pending' = pending \ {i}
        /\ interactions' = Append(interactions, [key |-> requests[i], result |-> result])
    BY <2>1, <2>2, <2>3 DEF Records
  <2>5. [key |-> requests[i], result |-> result] \in InteractionType
    <3>1. interactions' \in Seq(InteractionType)
      BY <1>1 DEF RecordShape, RecordTypeOK
    <3>2. /\ Len(interactions) + 1 \in DOMAIN interactions'
          /\ interactions'[Len(interactions) + 1] = [key |-> requests[i], result |-> result]
      BY <1>2, <2>4
    <3> HIDE DEF InteractionType
    <3>3. QED BY <3>1, <3>2
  <2>6. /\ \A j \in (1 .. Len(requests)) \ {i} : liveAnswer'[j] = liveAnswer[j]
        /\ liveAnswer'[i] = result
    BY <1>2, <2>1, <2>2
  <2>7. InTurn(requests, interactions', unanswered \ {i}, liveAnswer')
    BY <1>2, <2>1, <2>3, <2>4, <2>5, <2>6, AnswerInTurn
  <2>8. QED BY <1>2, <2>1, <2>3, <2>4, <2>7
<1>7. ASSUME NEW id \in Ids, ServerAsks(id)
      PROVE  /\ pending' = unanswered' /\ phase' = "recording" /\ replayed' = <<>>
             /\ InTurn(requests', interactions', unanswered', liveAnswer')
  <2>1. /\ phase = "recording" /\ collided' = (collided \/ id \in pending)
        /\ UNCHANGED <<phase, requests, unanswered, liveAnswer, replayed, crossed>>
        /\ Records(id, Undefined)
    BY <1>7 DEF ServerAsks
  <2>2. ~crossed /\ ~collided /\ id \notin pending
    BY <2>1
  <2>3. UNCHANGED <<pending, interactions>>
    BY <2>1, <2>2 DEF Records
  <2>4. QED BY <1>2, <1>3, <2>1, <2>2, <2>3
<1>8. CASE Replays
  <2>1. /\ phase = "recording" /\ unanswered = {} /\ replayed = <<>>
        /\ queues' = [k \in Keys |-> Queue(k)]
        /\ UNCHANGED <<requests, unanswered, pending, interactions, liveAnswer, replayed,
                       crossed, collided>>
    BY <1>2, <1>8 DEF Replays
  <2>2. pending = unanswered /\ InTurn(requests, interactions, unanswered, liveAnswer)
    BY <1>3, <2>1
  <2>3. ASSUME NEW k \in Keys
        PROVE  /\ CountOf(k, requests, 0) = 0
               /\ Queue(k)' = Queue(k) /\ queues'[k] = Queue(k)
               /\ CountOf(k, requests, Len(requests)) = Len(Queue(k))
               /\ Len(Queue(k)) \in Nat
    <3>1. Queue(k)' = Queue(k) /\ queues'[k] = Queue(k)
      BY <2>1 DEF Queue, CountIn, Pushed
    <3>2. CountIn(k) + 0 = CountOf(k, requests, Len(requests))
      BY <2>1, <2>2 DEF InTurn, AllCounted, CountIn
    <3>3. Len(Queue(k)) = CountIn(k) /\ CountIn(k) \in Nat
      BY <1>2, PushedIsRecorded
    <3>4. QED BY <3>1, <3>2, <3>3, CountOfNone
  <2>4. Len(replayed') = 0 /\ requests' = requests
    BY <2>1
  <2>5. QueuesLeft'
    <3> SUFFICES ASSUME NEW k \in Keys
                 PROVE  LET done == CountOf(k, requests, 0)
                            all == CountOf(k, requests, Len(requests))
                        IN /\ Len(queues'[k]) = all - done
                           /\ \A j \in 1 .. all - done : queues'[k][j] = Queue(k)'[done + j]
      BY <2>4 DEF QueuesLeft
    <3>1. CountOf(k, requests, 0) = 0 /\ CountOf(k, requests, Len(requests)) = Len(Queue(k))
          /\ Len(Queue(k)) \in Nat
      BY <2>3
    <3>2. QED BY <2>3, <3>1
  <2>6. QED BY <1>4, <2>1, <2>2, <2>5
<1>9. CASE ReplayRequest
  <2>1. ~crossed /\ ~collided /\ phase = "replaying"
        /\ UNCHANGED <<pending, unanswered, requests, interactions, liveAnswer, phase>>
    BY <1>9 DEF ReplayRequest
  <2>2. QED BY <1>1, <1>3, <1>9, <2>1, ReplayInTurn
<1>10. CASE UNCHANGED recordVars
  <2>1. ~crossed /\ ~collided
    BY <1>10 DEF recordVars
  <2>2. UNCHANGED <<phase, requests, unanswered, pending, interactions, liveAnswer, queues,
                    replayed, crossed, collided>>
    BY <1>10 DEF recordVars
  <2>3. \A k \in Keys : Queue(k)' = Queue(k)
    BY <2>2 DEF Queue, CountIn, Pushed
  <2>4. phase' = "replaying" => QueuesLeft'
    BY <1>3, <2>1, <2>2, <2>3 DEF QueuesLeft
  <2>5. ReplayIsFaithful'
    BY <1>3, <2>1, <2>2 DEF ReplayIsFaithful
  <2>6. QED BY <1>3, <2>1, <2>2, <2>4, <2>5
<1>11. QED BY <1>4, <1>5, <1>6, <1>7, <1>8, <1>9, <1>10 DEF RecordNext

\* A session that is replayed gives each request what it was given when it was recorded, for
\* any number of requests and keys (record.ts, replay.ts:19-38), but for those that
\* ReplayIsFaithful excepts.
THEOREM ReplaysWhatWasRecorded == RecordSpec => []ReplayIsFaithful
<1>1. RecordInit => RecordInv
  <2> SUFFICES ASSUME RecordInit PROVE RecordInv
    OBVIOUS
  <2>1. /\ phase = "recording" /\ requests = <<>> /\ unanswered = {} /\ pending = {}
        /\ interactions = <<>> /\ answers = 0 /\ liveAnswer = [i \in Ids |-> 0]
        /\ queues = [k \in Keys |-> <<>>] /\ replayed = <<>> /\ ~crossed /\ ~collided
        /\ crossed = FALSE /\ collided = FALSE
    BY DEF RecordInit
  <2>2. Cardinality(unanswered) = 0 /\ Len(requests) = 0 /\ Len(interactions) = 0
    BY <2>1, FS_EmptySet
  <2>3. RecordShape
    <3>1. 0 \in 0 .. Failed /\ MaxRequests \in Nat /\ 0 \in 0 .. MaxRequests
      BY RecordAssumption DEF RecordAssumption, Failed
    <3>2. liveAnswer \in [Ids -> 0 .. Failed] /\ queues \in [Keys -> Seq(Results)]
      BY <2>1, <3>1
    <3>3. interactions \in Seq(InteractionType) /\ requests \in Seq(Keys) /\ replayed \in Seq(Results)
      <4> HIDE DEF InteractionType
      <4>1. QED BY <2>1
    <3>4. Len(requests) <= MaxRequests
      BY <2>2, <3>1
    <3>5. RecordTypeOK
      BY <2>1, <3>1, <3>2, <3>3, <3>4 DEF RecordTypeOK
    <3>6. QED BY <2>1, <2>2, <3>5 DEF RecordShape
  <2>4. InTurn(requests, interactions, unanswered, liveAnswer)
    <3>1. \A k : CountOf(k, KeysOf(interactions), 0) = 0 /\ CountOf(k, requests, 0) = 0
      BY CountOfNone
    <3>2. QED BY <2>1, <2>2, <3>1 DEF InTurn, LastOfItsKind, AllCounted, AllMatched
  <2>5. QED BY <2>1, <2>3, <2>4 DEF RecordInv, ReplayIsFaithful
<1>2. RecordInv => ReplayIsFaithful
  BY DEF RecordInv, ReplayIsFaithful
<1>3. QED BY <1>1, <1>2, RecordInvStep, PTL DEF RecordSpec

-----------------------------------------------------------------------------
(* An open note                                                            *)

\* "lastRef": the text the next read is compared with is the text on the screen, so that a
\* read is taken for old news only when the screen has its text already.
ComparedIsShown == content = lastText

\* What ShowsTheDisk rests on: saves shown at once, their roll-backs and the reads in between
\* never part the screen from what the next read is compared with (hooks.ts, useLiveFile).
THEOREM ScreenIsCompared == LiveSpec => []ComparedIsShown
<1>1. LiveInit => ComparedIsShown
  BY DEF LiveInit, ComparedIsShown
<1>2. ComparedIsShown /\ [LiveNext]_liveVars => ComparedIsShown'
  BY DEF ComparedIsShown, LiveNext, liveVars, Open, Poll, Refetch, ServerReads, TextArrives, ReadLost,
    StartEdit, Type, Leave, Save, SetOptimistic, ServerWrites, SaveReturns, SaveThrows, Rollback, OtherWrites
<1>3. QED BY <1>1, <1>2, PTL DEF LiveSpec

-----------------------------------------------------------------------------
(* The sessions of an app                                                  *)

\* What each status and await of a session says of the others.
SessionFacts(r) ==
  /\ effect[r] = "none" <=> r > run
  /\ effect[r] \in {"none", "opening"} => app[r] = "none"
  /\ app[r] = "none" => cleanups[r] = 0 /\ closing[r] = "no" /\ waiter[r] = "none"
  /\ closing[r] = "no" => app[r] \notin {"closing", "closed"}
  /\ closing[r] \in {"teardown", "bridge"} => app[r] = "closing"
  /\ closing[r] = "done" => app[r] = "closed" /\ cleanups[r] = 0
  /\ r <= run /\ CleanedUp(r) /\ app[r] # "none" => closing[r] # "no"
  /\ effect[r] \in {"connecting", "dropping"} => app[r] # "none"
  /\ sending[r] => app[r] # "none"
  /\ waiter[r] = "waiting" => app[r] \in {"loaded", "connecting"}

AppInv ==
  /\ AppTypeOK
  /\ \A r \in Runs : SessionFacts(r)
  /\ mounted => run # 0
  /\ shown # 0 => mounted /\ shown = run /\ app[run] # "none"

\* The session of a run whose cleanup has run is not opened yet (and will be dropped), was
\* never opened, is being closed, or is closed with its frame and all its cleanups done.
GoneIsClosing ==
  \A r \in Runs :
    r <= run /\ CleanedUp(r) =>
      \/ app[r] = "none" /\ effect[r] \in {"opening", "done"} /\ cleanups[r] = 0
      \/ app[r] = "closing" /\ closing[r] \in {"teardown", "bridge"}
      \/ app[r] = "closed" /\ cleanups[r] = 0

\* A session that is closed stays closed, with nothing to clean up.
ClosedForGood ==
  [][\A r \in Runs : app[r] = "closed" => app'[r] = "closed" /\ cleanups[r] = 0 /\ cleanups'[r] = 0]_appVars

\* Nobody waits for a session that is ready or is over, and the component shows the session
\* of its own run, if it is there.
NobodyIsLeftWaiting ==
  /\ \A r \in Runs : waiter[r] = "waiting" => app[r] \in {"loaded", "connecting"}
  /\ shown # 0 => mounted /\ shown = run

\* What a step does to the status of session r, whoever waits for it.
LEMMA TurnsFacts ==
  ASSUME AppTypeOK, NEW r \in Runs, NEW st \in AppStatus, Turns(r, st)
  PROVE  /\ app' \in [Runs -> AppStatus] /\ app'[r] = st
         /\ waiter' \in [Runs -> {"none", "waiting", "resolved", "rejected"}]
         /\ waiter[r] = "none" => waiter'[r] = "none"
         /\ waiter'[r] = "waiting" => st \notin {"ready", "closed", "closing", "error"}
         /\ \A q \in Runs \ {r} : app'[q] = app[q] /\ waiter'[q] = waiter[q]
BY DEF AppTypeOK, Turns

LEMMA CloseFacts ==
  ASSUME AppTypeOK, NEW r \in Runs, Close(r), app[r] # "none"
  PROVE  /\ app' \in [Runs -> AppStatus]
         /\ waiter' \in [Runs -> {"none", "waiting", "resolved", "rejected"}]
         /\ closing' \in [Runs -> {"no", "teardown", "bridge", "done"}]
         /\ \A q \in Runs \ {r} : app'[q] = app[q] /\ waiter'[q] = waiter[q] /\ closing'[q] = closing[q]
         /\ IF closing[r] # "no"
            THEN app'[r] = app[r] /\ waiter'[r] = waiter[r] /\ closing'[r] = closing[r]
            ELSE app'[r] = "closing" /\ closing'[r] \in {"teardown", "bridge"} /\ waiter'[r] # "waiting"
<1>1. CASE closing[r] # "no"
  BY <1>1 DEF Close, AppTypeOK
<1>2. CASE closing[r] = "no"
  <2>1. Turns(r, "closing") /\ closing' = [closing EXCEPT ![r] = IF info[r] THEN "teardown" ELSE "bridge"]
    BY <1>2 DEF Close
  <2>2. "closing" \in AppStatus
    BY DEF AppStatus
  <2>3. QED BY <1>2, <2>1, <2>2, TurnsFacts DEF AppTypeOK
<1>3. QED BY <1>1, <1>2

LEMMA FailFacts ==
  ASSUME AppTypeOK, NEW r \in Runs, Fail(r)
  PROVE  /\ app' \in [Runs -> AppStatus]
         /\ waiter' \in [Runs -> {"none", "waiting", "resolved", "rejected"}]
         /\ \A q \in Runs \ {r} : app'[q] = app[q] /\ waiter'[q] = waiter[q]
         /\ IF closing[r] # "no" THEN app'[r] = app[r] /\ waiter'[r] = waiter[r]
                                 ELSE app'[r] = "error" /\ waiter'[r] # "waiting"
<1>1. "error" \in AppStatus
  BY DEF AppStatus
<1>2. CASE closing[r] = "no"
  BY <1>1, <1>2, TurnsFacts DEF Fail
<1>3. CASE closing[r] # "no"
  BY <1>3 DEF Fail, AppTypeOK
<1>4. QED BY <1>2, <1>3

\* A step of session r, which leaves the other sessions and the component alone.
OthersAlone(r) ==
  /\ UNCHANGED <<run, mounted>>
  /\ \A q \in Runs \ {r} :
       /\ effect'[q] = effect[q] /\ app'[q] = app[q] /\ closing'[q] = closing[q]
       /\ cleanups'[q] = cleanups[q] /\ waiter'[q] = waiter[q] /\ sending'[q] = sending[q]

LEMMA OneSession ==
  ASSUME AppInv, NEW r \in Runs, OthersAlone(r), AppTypeOK', SessionFacts(r)',
         \/ shown' = shown /\ (app[r] # "none" => app'[r] # "none")
         \/ shown' = r /\ mounted /\ r = run /\ app'[r] # "none"
  PROVE  AppInv'
<1>1. ASSUME NEW q \in Runs PROVE SessionFacts(q)'
  <2>1. CASE q = r BY <2>1
  <2>2. CASE q # r BY <2>2 DEF AppInv, OthersAlone, SessionFacts, CleanedUp
  <2>3. QED BY <2>1, <2>2
<1>2. (mounted' => run' # 0) /\ (shown' # 0 => mounted' /\ shown' = run' /\ app'[run'] # "none")
  BY DEF AppInv, OthersAlone, AppTypeOK, Runs
<1>3. QED BY <1>1, <1>2 DEF AppInv

LEMMA AppStep ==
  ASSUME AppInv, [AppNext]_appVars
  PROVE  AppInv'
<1>t. /\ AppTypeOK /\ \A r \in Runs : SessionFacts(r)
      /\ MaxRuns \in Nat \ {0} /\ Runs = 1 .. MaxRuns /\ {0, run} \subseteq 0 .. MaxRuns
  BY AppAssumption DEF AppAssumption, AppInv, AppTypeOK, Runs
<1>1. CASE Mount
  <2>1. run + 1 \in Runs /\ run' = run + 1 /\ mounted' = TRUE /\ shown' = shown /\ shown = 0
        /\ UNCHANGED <<app, info, sending, closing, cleanups, waiter>>
        /\ effect' = [effect EXCEPT ![run + 1] = "opening"]
    BY <1>1, <1>t DEF Mount, AppInv
  <2>2. AppTypeOK'
    BY <1>t, <2>1 DEF AppTypeOK
  <2>3. effect'[run + 1] = "opening" /\ \A q \in Runs \ {run + 1} : effect'[q] = effect[q]
    BY <1>t, <2>1 DEF AppTypeOK
  <2>4. ASSUME NEW q \in Runs PROVE SessionFacts(q)'
    <3>1. CASE q = run + 1
      BY <1>t, <2>1, <2>3, <3>1 DEF SessionFacts, CleanedUp
    <3>2. CASE q # run + 1
      <4>1. q \in Nat /\ (q > run + 1 <=> q > run) /\ (q < run + 1 <=> q <= run)
        BY <1>t, <3>2
      <4>2. q <= run => CleanedUp(q)
        BY <1>1, <1>t DEF Mount, CleanedUp
      <4>3. QED BY <1>t, <2>1, <2>3, <3>2, <4>1, <4>2 DEF SessionFacts, CleanedUp
    <3>3. QED BY <3>1, <3>2
  <2>5. QED BY <1>t, <2>1, <2>2, <2>4 DEF AppInv
<1>2. CASE Unmount
  <2>1. mounted /\ mounted' = FALSE /\ shown' = 0 /\ UNCHANGED <<run, effect, info, sending, cleanups>>
    BY <1>2 DEF Unmount
  <2>2. CASE app[run] # "none" /\ run \in Runs /\ Close(run)
    <3>1. AppTypeOK'
      BY <1>t, <2>1, <2>2, CloseFacts DEF AppTypeOK
    <3>2. ASSUME NEW q \in Runs PROVE SessionFacts(q)'
      <4>1. CASE q = run
        BY <1>t, <2>1, <2>2, <4>1, CloseFacts DEF SessionFacts
      <4>2. CASE q # run
        <5>1. app'[q] = app[q] /\ waiter'[q] = waiter[q] /\ closing'[q] = closing[q]
          BY <1>t, <2>2, <4>2, CloseFacts
        <5>2. CleanedUp(q)' <=> CleanedUp(q)
          BY <2>1, <4>2 DEF CleanedUp
        <5>3. QED BY <1>t, <2>1, <5>1, <5>2 DEF SessionFacts
      <4>3. QED BY <4>1, <4>2
    <3>3. QED BY <2>1, <3>1, <3>2 DEF AppInv
  <2>3. CASE (run \in Runs => app[run] = "none") /\ UNCHANGED <<app, waiter, closing>>
    <3>1. AppTypeOK'
      BY <1>t, <2>1, <2>3 DEF AppTypeOK
    <3>2. ASSUME NEW q \in Runs PROVE SessionFacts(q)'
      BY <1>t, <2>1, <2>3 DEF SessionFacts, CleanedUp
    <3>3. QED BY <2>1, <3>1, <3>2 DEF AppInv
  <2>4. QED
    <3>1. run \in Runs
      BY <1>t, <2>1 DEF AppInv
    <3>2. QED BY <1>2, <2>2, <2>3, <3>1 DEF Unmount
<1>3. ASSUME NEW r \in Runs, Opened(r) PROVE AppInv'
  <2>1. effect[r] = "opening" /\ app[r] = "none" /\ cleanups[r] = 0 /\ waiter[r] = "none" /\ r <= run
    BY <1>3, <1>t DEF Opened, SessionFacts
  <2>2. UNCHANGED <<run, mounted, info, sending, waiter>>
    BY <1>3 DEF Opened, Dropped
  <2>3. CASE Dropped(r) /\ \E n \in 0 .. 1 : cleanups' = [cleanups EXCEPT ![r] = n]
    <3>1. AppTypeOK'
      BY <1>3, <1>t, <2>2, <2>3 DEF AppTypeOK, Dropped, Opened, AppStatus
    <3>2. SessionFacts(r)' /\ OthersAlone(r)
      BY <1>t, <2>1, <2>2, <2>3 DEF AppTypeOK, Dropped, SessionFacts, OthersAlone
    <3>3. app'[r] # "none"
      BY <1>t, <2>3 DEF AppTypeOK, Dropped
    <3>4. shown' = shown \/ (shown' = r /\ mounted /\ r = run)
      BY <1>3, <1>t, <2>1 DEF Opened, CleanedUp
    <3>5. QED BY <3>1, <3>2, <3>3, <3>4, OneSession
  <2>4. CASE /\ ~CleanedUp(r) /\ shown' = r
             /\ cleanups' = [cleanups EXCEPT ![r] = 1]
             /\ app' = [app EXCEPT ![r] = "connecting"]
             /\ effect' = [effect EXCEPT ![r] = "connecting"]
             /\ UNCHANGED <<closing, waiter>>
    <3>1. AppTypeOK'
      BY <1>3, <1>t, <2>2, <2>4 DEF AppTypeOK, AppStatus
    <3>2. SessionFacts(r)' /\ OthersAlone(r)
      BY <1>t, <2>1, <2>2, <2>4 DEF AppTypeOK, SessionFacts, OthersAlone, CleanedUp
    <3>3. app'[r] # "none" /\ mounted /\ r = run
      BY <1>t, <2>1, <2>4 DEF AppTypeOK, CleanedUp
    <3>4. QED BY <2>4, <3>1, <3>2, <3>3, OneSession
  <2>5. QED
    <3>1. CASE CleanedUp(r) /\ Dropped(r) /\ UNCHANGED <<cleanups, shown>>
      <4>1. cleanups' = [cleanups EXCEPT ![r] = 0]
        BY <1>t, <2>1, <3>1 DEF AppTypeOK
      <4>2. 0 \in 0 .. 1
        OBVIOUS
      <4>3. QED BY <2>3, <3>1, <4>1, <4>2
    <3>2. QED BY <1>3, <2>3, <2>4, <3>1 DEF Opened
<1>4. ASSUME NEW r \in Runs, OpenFails(r) \/ Connected(r) PROVE AppInv'
  <2>1. /\ effect[r] \in {"opening", "connecting"} /\ effect' = [effect EXCEPT ![r] = "done"]
        /\ UNCHANGED <<run, mounted, app, info, sending, closing, cleanups, waiter, shown>>
    BY <1>4 DEF OpenFails, Connected
  <2>2. AppTypeOK'
    BY <1>t, <2>1 DEF AppTypeOK
  <2>3. SessionFacts(r)' /\ OthersAlone(r)
    BY <1>t, <2>1 DEF AppTypeOK, SessionFacts, OthersAlone, CleanedUp
  <2>4. QED BY <2>1, <2>2, <2>3, OneSession
<1>5. ASSUME NEW r \in Runs, ConnectFails(r) PROVE AppInv'
  <2>1. /\ effect[r] = "connecting" /\ effect' = [effect EXCEPT ![r] = "dropping"] /\ Fail(r)
        /\ UNCHANGED <<run, mounted, info, sending, closing, cleanups, shown>>
    BY <1>5 DEF ConnectFails
  <2>2. AppTypeOK'
    BY <1>t, <2>1, FailFacts DEF AppTypeOK
  <2>3. SessionFacts(r)' /\ OthersAlone(r)
    BY <1>t, <2>1, FailFacts DEF AppTypeOK, SessionFacts, OthersAlone, CleanedUp
  <2>4. app[r] # "none" => app'[r] # "none"
    BY <1>t, <2>1, FailFacts
  <2>5. QED BY <2>1, <2>2, <2>3, <2>4, OneSession
<1>6. ASSUME NEW r \in Runs, Drops(r) \/ CloseCalled(r) PROVE AppInv'
  <2>1. /\ app[r] # "none" /\ Close(r)
        /\ effect' = effect \/ (effect[r] = "dropping" /\ effect' = [effect EXCEPT ![r] = "done"])
        /\ UNCHANGED <<run, mounted, info, sending, cleanups, shown>>
    BY <1>6, <1>t DEF Drops, CloseCalled, SessionFacts
  <2>2. AppTypeOK'
    BY <1>t, <2>1, CloseFacts DEF AppTypeOK
  <2>3. SessionFacts(r)' /\ OthersAlone(r)
    BY <1>t, <2>1, CloseFacts DEF AppTypeOK, SessionFacts, OthersAlone, CleanedUp
  <2>4. app'[r] # "none"
    BY <1>t, <2>1, CloseFacts
  <2>5. QED BY <2>1, <2>2, <2>3, <2>4, OneSession
<1>7. ASSUME NEW r \in Runs, Initialized(r) PROVE AppInv'
  <2>1. /\ effect[r] \in {"connecting", "done"} /\ app[r] # "none" /\ closing[r] = "no" /\ Turns(r, "ready")
        /\ info' = [info EXCEPT ![r] = TRUE] /\ sending' = [sending EXCEPT ![r] = TRUE]
        /\ UNCHANGED <<run, mounted, effect, closing, cleanups, shown>>
    BY <1>7 DEF Initialized, Live
  <2>2. "ready" \in AppStatus
    BY DEF AppStatus
  <2>3. AppTypeOK'
    BY <1>t, <2>1, <2>2, TurnsFacts DEF AppTypeOK
  <2>4. SessionFacts(r)' /\ OthersAlone(r)
    BY <1>t, <2>1, <2>2, TurnsFacts DEF SessionFacts, OthersAlone, CleanedUp
  <2>5. app'[r] # "none"
    BY <1>t, <2>1, <2>2, TurnsFacts
  <2>6. QED BY <2>1, <2>3, <2>4, <2>5, OneSession
<1>8. ASSUME NEW r \in Runs, Sent(r) PROVE AppInv'
  <2>1. /\ sending' = [sending EXCEPT ![r] = FALSE] /\ (UNCHANGED <<app, waiter>> \/ Fail(r))
        /\ UNCHANGED <<run, mounted, effect, info, closing, cleanups, shown>>
    BY <1>8 DEF Sent
  <2>2. CASE UNCHANGED <<app, waiter>>
    <3>1. AppTypeOK' /\ SessionFacts(r)' /\ OthersAlone(r)
      BY <1>t, <2>1, <2>2 DEF AppTypeOK, SessionFacts, OthersAlone, CleanedUp
    <3>2. QED BY <2>1, <2>2, <3>1, OneSession
  <2>3. CASE Fail(r) /\ app[r] # "none"
    <3>1. AppTypeOK'
      BY <1>t, <2>1, <2>3, FailFacts DEF AppTypeOK
    <3>2. SessionFacts(r)' /\ OthersAlone(r)
      BY <1>t, <2>1, <2>3, FailFacts DEF SessionFacts, OthersAlone, CleanedUp
    <3>3. app'[r] # "none"
      BY <1>t, <2>1, <2>3, FailFacts
    <3>4. QED BY <2>1, <3>1, <3>2, <3>3, OneSession
  <2>4. app[r] # "none"
    BY <1>8, <1>t DEF Sent, SessionFacts
  <2>5. QED BY <2>1, <2>2, <2>3, <2>4
<1>9. ASSUME NEW r \in Runs, TornDown(r) PROVE AppInv'
  <2>1. /\ closing[r] = "teardown" /\ closing' = [closing EXCEPT ![r] = "bridge"]
        /\ UNCHANGED <<run, mounted, effect, app, info, sending, cleanups, waiter, shown>>
    BY <1>9 DEF TornDown
  <2>2. AppTypeOK' /\ SessionFacts(r)' /\ OthersAlone(r)
    BY <1>t, <2>1 DEF AppTypeOK, SessionFacts, OthersAlone, CleanedUp
  <2>3. QED BY <2>1, <2>2, OneSession
<1>10. ASSUME NEW r \in Runs, BridgeClosed(r) PROVE AppInv'
  <2>1. /\ closing[r] = "bridge" /\ closing' = [closing EXCEPT ![r] = "done"] /\ Turns(r, "closed")
        /\ cleanups' = [cleanups EXCEPT ![r] = 0]
        /\ UNCHANGED <<run, mounted, effect, info, sending, shown>>
    BY <1>10 DEF BridgeClosed
  <2>2. "closed" \in AppStatus
    BY DEF AppStatus
  <2>3. AppTypeOK'
    BY <1>t, <2>1, <2>2, TurnsFacts DEF AppTypeOK
  <2>4. SessionFacts(r)' /\ OthersAlone(r)
    BY <1>t, <2>1, <2>2, TurnsFacts DEF AppTypeOK, SessionFacts, OthersAlone, CleanedUp
  <2>5. app'[r] # "none"
    BY <1>t, <2>1, <2>2, TurnsFacts
  <2>6. QED BY <2>1, <2>3, <2>4, <2>5, OneSession
<1>11. ASSUME NEW r \in Runs, AddCleanup(r) PROVE AppInv'
  <2>1. /\ app[r] # "none" /\ closing[r] = "no" /\ cleanups' = [cleanups EXCEPT ![r] = @ + 1]
        /\ UNCHANGED <<run, mounted, effect, app, info, sending, closing, waiter, shown>>
    BY <1>11 DEF AddCleanup
  <2>2. AppTypeOK' /\ SessionFacts(r)' /\ OthersAlone(r)
    BY <1>t, <2>1 DEF AppTypeOK, SessionFacts, OthersAlone, CleanedUp
  <2>3. QED BY <2>1, <2>2, OneSession
<1>12. ASSUME NEW r \in Runs, WhenReady(r) \/ WaitEnds(r) PROVE AppInv'
  <2>1. /\ UNCHANGED <<run, mounted, effect, app, info, sending, closing, cleanups, shown>>
        /\ app[r] # "none"
        /\ \E w \in {"resolved", "rejected", "waiting"} :
             /\ waiter' = [waiter EXCEPT ![r] = w]
             /\ w = "waiting" => app[r] \notin {"ready", "closed", "closing", "error"}
    BY <1>12, <1>t DEF WhenReady, WaitEnds, SessionFacts
  <2>2. PICK w \in {"resolved", "rejected", "waiting"} :
             /\ waiter' = [waiter EXCEPT ![r] = w]
             /\ w = "waiting" => app[r] \notin {"ready", "closed", "closing", "error"}
    BY <2>1
  <2>3. AppTypeOK'
    BY <1>t, <2>1, <2>2 DEF AppTypeOK
  <2>4. SessionFacts(r)' /\ OthersAlone(r)
    BY <1>t, <2>1, <2>2 DEF AppTypeOK, AppStatus, SessionFacts, OthersAlone, CleanedUp
  <2>5. QED BY <2>1, <2>3, <2>4, OneSession
<1>13. CASE UNCHANGED appVars
  BY <1>13 DEF appVars, AppInv, AppTypeOK, SessionFacts, CleanedUp
<1>14. QED
  BY <1>1, <1>2, <1>3, <1>4, <1>5, <1>6, <1>7, <1>8, <1>9, <1>10, <1>11, <1>12, <1>13
    DEF AppNext, Settling

LEMMA AppInvariant == AppSpec => []AppInv
<1>1. AppInit => AppInv
  <2>1. AppInit => \A r \in Runs : SessionFacts(r)
    BY AppAssumption DEF AppAssumption, AppInit, SessionFacts, CleanedUp, Runs
  <2>2. AppInit => AppTypeOK
    <3>1. 0 \in 0 .. MaxRuns
      BY AppAssumption DEF AppAssumption
    <3>2. AppInit => mounted \in BOOLEAN /\ info \in [Runs -> BOOLEAN] /\ sending \in [Runs -> BOOLEAN]
      <4>1. [r \in Runs |-> FALSE] \in [Runs -> BOOLEAN] /\ FALSE \in BOOLEAN
        OBVIOUS
      <4>2. QED BY <4>1, Zenon DEF AppInit
    <3>3. AppInit => app \in [Runs -> AppStatus]
      BY DEF AppInit, AppStatus
    <3>4. AppInit => run \in 0 .. MaxRuns /\ shown \in 0 .. MaxRuns /\ cleanups \in [Runs -> Nat]
      BY <3>1 DEF AppInit
    <3>5. AppInit => /\ effect \in [Runs -> {"none", "opening", "connecting", "dropping", "done"}]
                     /\ closing \in [Runs -> {"no", "teardown", "bridge", "done"}]
                     /\ waiter \in [Runs -> {"none", "waiting", "resolved", "rejected"}]
      BY DEF AppInit
    <3>6. QED BY <3>2, <3>3, <3>4, <3>5 DEF AppTypeOK
  <2>3. QED BY <2>1, <2>2 DEF AppInv, AppInit
<1>2. QED BY <1>1, AppStep, PTL DEF AppSpec

\* Every variable keeps its type, for any number of runs.
THEOREM AppTypeCorrect == AppSpec => []AppTypeOK
<1>1. AppInv => AppTypeOK
  BY DEF AppInv
<1>2. QED BY <1>1, AppInvariant, PTL

\* What NoSessionLeaks rests on: at whatever await the cleanup of a run finds its session, the
\* session is closed, on its way to be, or was never made (react.ts:60-80, host.ts:179-202).
THEOREM GoneIsClosed == AppSpec => []GoneIsClosing
<1>1. AppInv => GoneIsClosing
  BY DEF AppInv, AppTypeOK, SessionFacts, GoneIsClosing, Runs
<1>2. QED BY <1>1, AppInvariant, PTL

\* close() is for good: no late connection, initialization, failure or cleanup brings a closed
\* session back or leaves it something to clean up (host.ts:179-202).
THEOREM ClosedStaysClosed == AppSpec => ClosedForGood
<1>1. ASSUME AppInv, AppInv', [AppNext]_appVars, NEW r \in Runs, app[r] = "closed"
      PROVE  app'[r] = "closed" /\ cleanups[r] = 0 /\ cleanups'[r] = 0
  <2>1. closing[r] = "done"
    BY <1>1 DEF AppInv, AppTypeOK, SessionFacts
  <2>2. closing'[r] = "done"
    <3>1. closing[r] = closing'[r]
      <4>1. ASSUME NEW q \in Runs, Close(q) PROVE closing[r] = closing'[r]
        BY <1>1, <2>1, <4>1 DEF Close, AppInv, AppTypeOK
      <4>2. ASSUME NEW q \in Runs, Opened(q) PROVE closing[r] = closing'[r]
        <5>1. q # r
          BY <1>1, <4>2 DEF Opened, AppInv, SessionFacts
        <5>2. QED BY <1>1, <4>2, <5>1 DEF Opened, Dropped, AppInv, AppTypeOK
      <4>3. ASSUME NEW q \in Runs, TornDown(q) \/ BridgeClosed(q) PROVE closing[r] = closing'[r]
        BY <1>1, <2>1, <4>3 DEF TornDown, BridgeClosed, AppInv, AppTypeOK
      <4>4. CASE Unmount
        <5>1. run \in Runs \/ closing' = closing
          BY <1>1, <4>4, AppAssumption DEF Unmount, AppInv, AppTypeOK, Runs, AppAssumption, Close
        <5>2. QED BY <1>1, <4>1, <4>4, <5>1 DEF Unmount
      <4>5. QED
        BY <1>1, <4>1, <4>2, <4>3, <4>4 DEF AppNext, Settling, appVars, Mount, OpenFails, Connected,
          ConnectFails, Drops, Initialized, Sent, CloseCalled, AddCleanup, WhenReady, WaitEnds
    <3>2. QED BY <2>1, <3>1
  <2>3. QED BY <1>1, <2>1, <2>2 DEF AppInv, SessionFacts
<1>2. AppInv /\ AppInv' /\ [AppNext]_appVars =>
        [\A r \in Runs : app[r] = "closed" => app'[r] = "closed" /\ cleanups[r] = 0 /\ cleanups'[r] = 0]_appVars
  BY <1>1
<1>3. QED BY <1>2, AppInvariant, PTL DEF AppSpec, ClosedForGood

\* whenReady() settles as soon as the session is ready or over, and the component shows the
\* session of its own run (host.ts, react.ts:60-80).
THEOREM WaitersAreTold == AppSpec => []NobodyIsLeftWaiting
<1>1. AppInv => NobodyIsLeftWaiting
  BY DEF AppInv, SessionFacts, NobodyIsLeftWaiting
<1>2. QED BY <1>1, AppInvariant, PTL

-----------------------------------------------------------------------------
(* A page behind the local proxy                                           *)

ToProxyFrames == {"connect", "close", "fin"}
ToPageFrames == {"connected", "failed", "closed", "fin"}
Has(frames, some) == \E i \in DOMAIN frames : frames[i] \in some

LinkTypeOK ==
  /\ starting \in {"idle", "asking", "started", "failed"}
  /\ told \in BOOLEAN /\ pageOpen \in BOOLEAN /\ proxyOpen \in BOOLEAN
  /\ proxyEnded \in BOOLEAN /\ admitted \in BOOLEAN
  /\ toProxy \in Seq(ToProxyFrames) /\ toPage \in Seq(ToPageFrames)
  /\ target \in {"none", "starting", "running", "closed"}

\* What ends the target or the page's transport is on its way before it is needed: a page
\* whose transport is over has told the proxy of a target that runs, or that is still to be
\* asked for; a target that is gone has told the page; and behind a socket whose end the proxy
\* has seen no target runs.
EndIsOnItsWay ==
  /\ told /\ (target \in {"starting", "running"} \/ Has(toProxy, {"connect"})) => Has(toProxy, {"close", "fin"})
  /\ target = "closed" => told \/ Has(toPage, {"closed", "fin"})
  /\ proxyEnded => target \in {"none", "closed"} /\ ~Has(toProxy, {"connect"})

\* There has been no socket yet, or never will be.
NoSocket ==
  /\ starting \in {"idle", "failed"} /\ target = "none"
  /\ toProxy = <<>> /\ toPage = <<>> /\ ~pageOpen /\ ~proxyOpen /\ ~told /\ ~proxyEnded

\* An end of the socket that no longer sends has been heard of, or will be.
Socket ==
  /\ starting # "idle"
  /\ ~pageOpen => told
  /\ ~proxyOpen => told \/ Has(toPage, {"fin"})
  /\ target = "closed" => ~proxyOpen
  /\ Has(toPage, {"closed"}) => target = "closed"

\* The target is asked for by the first frame, of a socket that was admitted, and once.
AskedOnce ==
  /\ \A i \in DOMAIN toProxy : toProxy[i] = "connect" => i = 1 /\ target = "none"
  /\ ~admitted => target = "none"

LinkInv == LinkTypeOK /\ EndIsOnItsWay /\ (NoSocket \/ Socket) /\ AskedOnce

LEMMA JoinHas ==
  ASSUME NEW S, NEW q \in Seq(S), NEW f \in Seq(S), NEW some
  PROVE  /\ q \o f \in Seq(S)
         /\ Has(q \o f, some) <=> Has(q, some) \/ Has(f, some)
         /\ \A i \in DOMAIN (q \o f) : (i \in DOMAIN q /\ (q \o f)[i] = q[i]) \/ \E j \in DOMAIN f : (q \o f)[i] = f[j]
<1>1. /\ DOMAIN q = 1 .. Len(q) /\ DOMAIN f = 1 .. Len(f) /\ Len(q) \in Nat /\ Len(f) \in Nat
      /\ q \o f \in Seq(S) /\ DOMAIN (q \o f) = 1 .. Len(q) + Len(f)
  OBVIOUS
<1>2. \A i \in DOMAIN (q \o f) : (q \o f)[i] = IF i <= Len(q) THEN q[i] ELSE f[i - Len(q)]
  OBVIOUS
<1>3. ASSUME NEW i \in DOMAIN (q \o f)
      PROVE  (i \in DOMAIN q /\ (q \o f)[i] = q[i]) \/ \E j \in DOMAIN f : (q \o f)[i] = f[j]
  <2>1. CASE i <= Len(q) BY <1>1, <1>2, <2>1
  <2>2. CASE ~(i <= Len(q))
    <3>1. i - Len(q) \in DOMAIN f /\ (q \o f)[i] = f[i - Len(q)]
      BY <1>1, <1>2, <2>2
    <3>2. QED BY <3>1
  <2>3. QED BY <2>1, <2>2
<1>4. ASSUME NEW j \in DOMAIN q PROVE j \in DOMAIN (q \o f) /\ (q \o f)[j] = q[j]
  BY <1>1, <1>2
<1>5. ASSUME NEW j \in DOMAIN f PROVE Len(q) + j \in DOMAIN (q \o f) /\ (q \o f)[Len(q) + j] = f[j]
  <2>1. Len(q) + j \in DOMAIN (q \o f) /\ ~(Len(q) + j <= Len(q)) /\ (Len(q) + j) - Len(q) = j
    BY <1>1
  <2>2. QED BY <1>2, <2>1
<1>6. Has(q \o f, some) => Has(q, some) \/ Has(f, some)
  BY <1>3 DEF Has
<1>7. Has(q, some) \/ Has(f, some) => Has(q \o f, some)
  BY <1>4, <1>5 DEF Has
<1>8. QED BY <1>1, <1>3, <1>6, <1>7

LEMMA TailHas ==
  ASSUME NEW S, NEW q \in Seq(S), q # <<>>, NEW some
  PROVE  /\ Tail(q) \in Seq(S) /\ 1 \in DOMAIN q /\ Head(q) = q[1] /\ Head(q) \in S
         /\ Has(q, some) <=> Head(q) \in some \/ Has(Tail(q), some)
         /\ \A i \in DOMAIN Tail(q) : i + 1 \in DOMAIN q /\ i + 1 # 1 /\ Tail(q)[i] = q[i + 1]
<1>1. /\ DOMAIN q = 1 .. Len(q) /\ Len(q) \in Nat \ {0} /\ Head(q) = q[1] /\ 1 \in DOMAIN q
      /\ Head(q) \in S /\ Tail(q) \in Seq(S) /\ DOMAIN Tail(q) = 1 .. Len(q) - 1
  OBVIOUS
<1>2. \A i \in DOMAIN Tail(q) : i + 1 \in DOMAIN q /\ i + 1 # 1 /\ Tail(q)[i] = q[i + 1]
  BY <1>1
<1>3. ASSUME NEW j \in DOMAIN q, j # 1 PROVE j - 1 \in DOMAIN Tail(q) /\ Tail(q)[j - 1] = q[j]
  <2>1. j - 1 \in DOMAIN Tail(q) /\ (j - 1) + 1 = j
    BY <1>1, <1>3
  <2>2. QED BY <1>2, <2>1
<1>4. Has(q, some) => Head(q) \in some \/ Has(Tail(q), some)
  BY <1>1, <1>3 DEF Has
<1>5. Head(q) \in some \/ Has(Tail(q), some) => Has(q, some)
  BY <1>1, <1>2 DEF Has
<1>6. QED BY <1>1, <1>2, <1>4, <1>5

LEMMA EmptyHas == \A some : ~Has(<<>>, some)
BY DEF Has

LEMMA HasMore ==
  ASSUME NEW frames, NEW few, NEW many, few \subseteq many, Has(frames, few)
  PROVE  Has(frames, many)
BY DEF Has

\* What the frames are, and are not, that the two ends send.
LEMMA PageFrames ==
  /\ <<"connect">> \in Seq(ToProxyFrames) /\ ~Has(<<"connect">>, {"close", "fin"})
  /\ DOMAIN <<"connect">> = {1}
  /\ <<"fin">> \in Seq(ToProxyFrames) /\ ~Has(<<"fin">>, {"connect"}) /\ Has(<<"fin">>, {"close", "fin"})
  /\ <<"close", "fin">> \in Seq(ToProxyFrames) /\ ~Has(<<"close", "fin">>, {"connect"})
  /\ Has(<<"close", "fin">>, {"close", "fin"})
<1>1. /\ <<"connect">> \in Seq(ToProxyFrames) /\ <<"fin">> \in Seq(ToProxyFrames)
      /\ <<"close", "fin">> \in Seq(ToProxyFrames)
  BY DEF ToProxyFrames
<1>2. /\ DOMAIN <<"connect">> = {1} /\ <<"connect">>[1] = "connect"
      /\ DOMAIN <<"fin">> = {1} /\ <<"fin">>[1] = "fin"
  OBVIOUS
<1>3. DOMAIN <<"close", "fin">> = {1, 2} /\ <<"close", "fin">>[1] = "close" /\ <<"close", "fin">>[2] = "fin"
  OBVIOUS
<1>4. /\ ~Has(<<"connect">>, {"close", "fin"})
      /\ ~Has(<<"fin">>, {"connect"}) /\ Has(<<"fin">>, {"close", "fin"})
  BY <1>2 DEF Has
<1>5. ~Has(<<"close", "fin">>, {"connect"}) /\ Has(<<"close", "fin">>, {"close", "fin"})
  BY <1>3 DEF Has
<1>6. QED BY <1>1, <1>2, <1>4, <1>5

LEMMA ProxyFrames ==
  /\ <<"fin">> \in Seq(ToPageFrames) /\ Has(<<"fin">>, {"fin"}) /\ ~Has(<<"fin">>, {"closed"})
  /\ <<"connected">> \in Seq(ToPageFrames) /\ ~Has(<<"connected">>, {"closed"})
  /\ \A a \in {"closed", "failed"} : <<a, "fin">> \in Seq(ToPageFrames) /\ Has(<<a, "fin">>, {"fin"})
<1>1. <<"fin">> \in Seq(ToPageFrames) /\ <<"connected">> \in Seq(ToPageFrames)
  BY DEF ToPageFrames
<1>2. /\ DOMAIN <<"fin">> = {1} /\ <<"fin">>[1] = "fin"
      /\ DOMAIN <<"connected">> = {1} /\ <<"connected">>[1] = "connected"
  OBVIOUS
<1>3. Has(<<"fin">>, {"fin"}) /\ ~Has(<<"fin">>, {"closed"}) /\ ~Has(<<"connected">>, {"closed"})
  BY <1>2 DEF Has
<1>4. ASSUME NEW a \in {"closed", "failed"}
      PROVE  <<a, "fin">> \in Seq(ToPageFrames) /\ Has(<<a, "fin">>, {"fin"})
  <2>1. <<a, "fin">> \in Seq(ToPageFrames)
    BY DEF ToPageFrames
  <2>2. DOMAIN <<a, "fin">> = {1, 2} /\ <<a, "fin">>[2] = "fin"
    OBVIOUS
  <2>3. QED BY <2>1, <2>2 DEF Has
<1>5. QED BY <1>1, <1>3, <1>4

\* What the page sends; no frame of it asks for a target.
LEMMA PageSendsFacts ==
  ASSUME LinkInv, NEW f \in Seq(ToProxyFrames), ~Has(f, {"connect"}), PageSends(f)
  PROVE  /\ toProxy' \in Seq(ToProxyFrames)
         /\ Has(toProxy', {"connect"}) <=> Has(toProxy, {"connect"})
         /\ \A i \in DOMAIN toProxy' : toProxy'[i] = "connect" => i = 1 /\ target = "none"
         /\ Has(toProxy, {"close", "fin"}) => Has(toProxy', {"close", "fin"})
         /\ pageOpen /\ Has(f, {"close", "fin"}) => Has(toProxy', {"close", "fin"})
<1>1. toProxy \in Seq(ToProxyFrames) /\ \A i \in DOMAIN toProxy : toProxy[i] = "connect" => i = 1 /\ target = "none"
  BY DEF LinkInv, LinkTypeOK, AskedOnce
<1>2. CASE ~pageOpen
  BY <1>1, <1>2 DEF PageSends
<1>3. CASE pageOpen
  <2>1. toProxy' = toProxy \o f
    BY <1>3 DEF PageSends
  <2>2. \A j \in DOMAIN f : f[j] # "connect"
    BY DEF Has
  <2>3. \A i \in DOMAIN toProxy' : toProxy'[i] = "connect" => i = 1 /\ target = "none"
    <3>1. \A i \in DOMAIN (toProxy \o f) :
            (i \in DOMAIN toProxy /\ (toProxy \o f)[i] = toProxy[i]) \/ \E j \in DOMAIN f : (toProxy \o f)[i] = f[j]
      BY <1>1, JoinHas
    <3>2. QED BY <1>1, <2>1, <2>2, <3>1
  <2>4. QED BY <1>1, <2>1, <2>3, JoinHas
<1>4. QED BY <1>2, <1>3

\* What the proxy sends, and ends its side with.
LEMMA ProxyEndsFacts ==
  ASSUME LinkInv, Socket, NEW a \in {"closed", "failed"}, ProxySends(<<a, "fin">>)
  PROVE  /\ toPage' \in Seq(ToPageFrames)
         /\ told \/ Has(toPage', {"fin"})
<1>1. <<a, "fin">> \in Seq(ToPageFrames) /\ Has(<<a, "fin">>, {"fin"}) /\ toPage \in Seq(ToPageFrames)
  BY ProxyFrames DEF LinkInv, LinkTypeOK
<1>2. CASE proxyOpen
  <2>1. toPage' = toPage \o <<a, "fin">>
    BY <1>2 DEF ProxySends
  <2>2. QED BY <1>1, <2>1, JoinHas
<1>3. CASE ~proxyOpen
  BY <1>1, <1>3 DEF ProxySends, Socket
<1>4. QED BY <1>2, <1>3 DEF LinkInv, LinkTypeOK

\* A target ends, whoever ends it.
LEMMA TargetEnds ==
  ASSUME LinkInv, target \in {"starting", "running"}, target' = "closed", proxyOpen' = FALSE,
         NEW a \in {"closed", "failed"}, ProxySends(<<a, "fin">>),
         UNCHANGED <<starting, told, pageOpen, admitted>>,
         proxyEnded' \in BOOLEAN, toProxy' \in Seq(ToProxyFrames), ~Has(toProxy', {"connect"})
  PROVE  LinkInv'
<1>1. Socket
  BY DEF LinkInv, NoSocket
<1>2. toPage' \in Seq(ToPageFrames) /\ (told \/ Has(toPage', {"fin"}))
  BY <1>1, ProxyEndsFacts
<1>3. LinkTypeOK'
  BY <1>2 DEF LinkInv, LinkTypeOK
<1>4. told' \/ Has(toPage', {"closed", "fin"})
  BY <1>2, HasMore
<1>5. EndIsOnItsWay'
  BY <1>4 DEF EndIsOnItsWay
<1>6. Socket'
  BY <1>1, <1>2 DEF Socket
<1>7. AskedOnce'
  BY DEF LinkInv, AskedOnce, Has
<1>8. QED BY <1>3, <1>5, <1>6, <1>7 DEF LinkInv

LEMMA LinkStep ==
  ASSUME LinkInv, [LinkNext]_linkVars
  PROVE  LinkInv'
<1>t. /\ toProxy \in Seq(ToProxyFrames) /\ toPage \in Seq(ToPageFrames)
      /\ LinkTypeOK /\ EndIsOnItsWay /\ AskedOnce
  BY DEF LinkInv, LinkTypeOK
<1>1. ASSUME NEW right \in BOOLEAN, Start(right) PROVE LinkInv'
  <2>1. /\ NoSocket /\ starting' = "asking" /\ pageOpen' = TRUE /\ toProxy' = <<"connect">>
        /\ admitted' = right /\ proxyOpen' = right
        /\ toPage' = IF right THEN <<>> ELSE <<"fin">>
        /\ UNCHANGED <<told, target, proxyEnded>>
    BY <1>1 DEF Start, LinkInv, Socket
  <2>2. /\ <<"connect">> \in Seq(ToProxyFrames) /\ DOMAIN <<"connect">> = {1} /\ ~Has(<<"connect">>, {"close", "fin"})
        /\ <<"fin">> \in Seq(ToPageFrames) /\ Has(<<"fin">>, {"fin"}) /\ ~Has(<<"fin">>, {"closed"})
    BY PageFrames, ProxyFrames
  <2>3. LinkTypeOK'
    BY <1>t, <2>1, <2>2 DEF LinkTypeOK
  <2>4. ~told /\ target = "none" /\ ~proxyEnded
    BY <1>1, <1>t, <2>1 DEF NoSocket
  <2>5. EndIsOnItsWay' /\ AskedOnce'
    BY <2>1, <2>2, <2>4 DEF EndIsOnItsWay, AskedOnce
  <2>6. Socket'
    BY <2>1, <2>2, <2>4, EmptyHas DEF Socket
  <2>7. QED BY <2>3, <2>5, <2>6 DEF LinkInv
<1>2. CASE StartFails
  <2>1. NoSocket /\ NoSocket' /\ starting' = "failed" /\ UNCHANGED <<told, toProxy, toPage, pageOpen, proxyOpen, proxyEnded, admitted, target>>
    BY <1>2 DEF StartFails, LinkInv, Socket, NoSocket
  <2>2. QED BY <1>t, <2>1 DEF LinkInv, LinkTypeOK, EndIsOnItsWay, AskedOnce
<1>3. CASE PageGets
  <2> PICK frame : frame = Head(toPage)
    OBVIOUS
  <2>1. /\ toPage # <<>> /\ toPage' = Tail(toPage)
        /\ starting' \in {starting, "started", "failed"}
        /\ told' = (told \/ frame \in {"closed", "fin"})
        /\ IF frame = "fin" THEN PageSends(<<"fin">>) /\ pageOpen' = FALSE ELSE UNCHANGED <<toProxy, pageOpen>>
        /\ UNCHANGED <<proxyOpen, proxyEnded, admitted, target>>
    BY <1>3 DEF PageGets
  <2>2. Socket
    BY <2>1 DEF LinkInv, NoSocket
  <2>3. /\ toPage' \in Seq(ToPageFrames) /\ frame \in ToPageFrames
        /\ \A some : Has(toPage, some) <=> frame \in some \/ Has(toPage', some)
    BY <1>t, <2>1, TailHas
  <2>4. Socket'
    BY <2>1, <2>2, <2>3 DEF Socket
  <2>5. target' = "closed" => told' \/ Has(toPage', {"closed", "fin"})
    BY <1>t, <2>1, <2>3 DEF EndIsOnItsWay
  <2>6. CASE frame = "fin"
    <3>1. PageSends(<<"fin">>) /\ told' /\ pageOpen' = FALSE
      BY <2>1, <2>6
    <3>2. <<"fin">> \in Seq(ToProxyFrames) /\ ~Has(<<"fin">>, {"connect"}) /\ Has(<<"fin">>, {"close", "fin"})
      BY PageFrames, ProxyFrames
    <3>3. /\ toProxy' \in Seq(ToProxyFrames)
          /\ Has(toProxy', {"connect"}) <=> Has(toProxy, {"connect"})
          /\ \A i \in DOMAIN toProxy' : toProxy'[i] = "connect" => i = 1 /\ target = "none"
          /\ Has(toProxy, {"close", "fin"}) => Has(toProxy', {"close", "fin"})
          /\ pageOpen => Has(toProxy', {"close", "fin"})
      BY <3>1, <3>2, PageSendsFacts
    <3>4. LinkTypeOK' /\ AskedOnce'
      BY <1>t, <2>1, <2>3, <3>1, <3>3 DEF LinkTypeOK, AskedOnce
    <3>5. EndIsOnItsWay'
      BY <1>t, <2>1, <2>2, <2>5, <3>1, <3>3 DEF EndIsOnItsWay, Socket
    <3>6. QED BY <2>4, <3>4, <3>5 DEF LinkInv
  <2>7. CASE frame # "fin"
    <3>1. LinkTypeOK' /\ AskedOnce'
      BY <1>t, <2>1, <2>3, <2>7 DEF LinkTypeOK, AskedOnce
    <3>2. frame = "closed" => target = "closed"
      BY <2>2, <2>3 DEF Socket
    <3>3. Has(toProxy, {"connect"}) => target = "none"
      BY <1>t DEF Has, AskedOnce
    <3>4. EndIsOnItsWay'
      BY <1>t, <2>1, <2>5, <2>7, <3>2, <3>3 DEF EndIsOnItsWay
    <3>5. QED BY <2>4, <3>1, <3>4 DEF LinkInv
  <2>8. QED BY <2>6, <2>7
<1>4. CASE PageCloses
  <2>1. /\ pageOpen /\ PageSends(<<"close", "fin">>) /\ pageOpen' = FALSE /\ told' = TRUE
        /\ UNCHANGED <<starting, toPage, proxyOpen, proxyEnded, admitted, target>>
    BY <1>4 DEF PageCloses
  <2>2. Socket
    BY <2>1 DEF LinkInv, NoSocket
  <2>3. <<"close", "fin">> \in Seq(ToProxyFrames) /\ ~Has(<<"close", "fin">>, {"connect"})
        /\ Has(<<"close", "fin">>, {"close", "fin"})
    BY PageFrames, ProxyFrames
  <2>4. /\ toProxy' \in Seq(ToProxyFrames)
        /\ Has(toProxy', {"connect"}) <=> Has(toProxy, {"connect"})
        /\ \A i \in DOMAIN toProxy' : toProxy'[i] = "connect" => i = 1 /\ target = "none"
        /\ Has(toProxy', {"close", "fin"})
    BY <2>1, <2>3, PageSendsFacts
  <2>5. LinkTypeOK' /\ AskedOnce' /\ EndIsOnItsWay'
    BY <1>t, <2>1, <2>4 DEF LinkTypeOK, AskedOnce, EndIsOnItsWay
  <2>6. Socket'
    BY <2>1, <2>2 DEF Socket
  <2>7. QED BY <2>5, <2>6 DEF LinkInv
<1>5. CASE ProxyGets
  <2> PICK frame : frame = Head(toProxy)
    OBVIOUS
  <2>1. toProxy # <<>> /\ toProxy' = Tail(toProxy) /\ UNCHANGED <<starting, told, pageOpen, admitted>>
    BY <1>5 DEF ProxyGets
  <2>2. Socket
    BY <2>1 DEF LinkInv, NoSocket
  <2>3. /\ toProxy' \in Seq(ToProxyFrames) /\ 1 \in DOMAIN toProxy /\ toProxy[1] = frame
        /\ \A some : Has(toProxy, some) <=> frame \in some \/ Has(toProxy', some)
        /\ \A i \in DOMAIN toProxy' : i + 1 \in DOMAIN toProxy /\ i + 1 # 1 /\ toProxy'[i] = toProxy[i + 1]
    BY <1>t, <2>1, TailHas
  <2>4. ~Has(toProxy', {"connect"}) /\ (frame = "connect" => target = "none")
    BY <1>t, <2>3 DEF AskedOnce, Has
  <2>5. CASE /\ frame = "connect" /\ admitted /\ target = "none" /\ target' = "starting"
             /\ UNCHANGED <<toPage, proxyOpen, proxyEnded>>
    <3>1. ~proxyEnded /\ (told => Has(toProxy', {"close", "fin"}))
      BY <1>t, <2>3, <2>5 DEF EndIsOnItsWay
    <3>2. LinkTypeOK'
      BY <1>t, <2>1, <2>3, <2>5 DEF LinkTypeOK
    <3>3. EndIsOnItsWay' /\ AskedOnce'
      BY <1>t, <2>1, <2>4, <2>5, <3>1 DEF EndIsOnItsWay, AskedOnce, Has
    <3>4. Socket'
      BY <2>1, <2>2, <2>5 DEF Socket
    <3>5. QED BY <3>2, <3>3, <3>4 DEF LinkInv
  <2>6. CASE target \in {"starting", "running"} /\ TargetClosed /\ proxyEnded' \in BOOLEAN
    <3>1. target' = "closed" /\ proxyOpen' = FALSE /\ ProxySends(<<"closed", "fin">>)
      BY <2>6 DEF TargetClosed
    <3>2. QED BY <2>1, <2>3, <2>4, <2>6, <3>1, TargetEnds
  <2>7. CASE target \in {"none", "closed"} /\ UNCHANGED <<target, toPage, proxyOpen>> /\ proxyEnded' \in BOOLEAN
    <3>1. LinkTypeOK'
      BY <1>t, <2>1, <2>3, <2>7 DEF LinkTypeOK
    <3>2. EndIsOnItsWay' /\ AskedOnce'
      BY <1>t, <2>1, <2>4, <2>7 DEF EndIsOnItsWay, AskedOnce, Has
    <3>3. Socket'
      BY <2>1, <2>2, <2>7 DEF Socket
    <3>4. QED BY <3>1, <3>2, <3>3 DEF LinkInv
  <2>8. QED
    <3>1. proxyEnded \in BOOLEAN /\ target \in {"none", "starting", "running", "closed"}
      BY <1>t DEF LinkTypeOK
    <3>2. CASE ~admitted /\ UNCHANGED <<target, toPage, proxyOpen, proxyEnded>>
      BY <1>t, <2>7, <3>1, <3>2 DEF AskedOnce
    <3>3. CASE CloseTarget /\ proxyEnded' \in BOOLEAN
      BY <2>6, <2>7, <3>1, <3>3 DEF CloseTarget
    <3>4. QED BY <1>5, <2>5, <3>1, <3>2, <3>3 DEF ProxyGets, AtSocketEnd
<1>6. CASE TargetStarts
  <2>1. /\ target = "starting" /\ target' = "running" /\ ProxySends(<<"connected">>)
        /\ UNCHANGED <<starting, told, toProxy, pageOpen, proxyOpen, proxyEnded, admitted>>
    BY <1>6 DEF TargetStarts
  <2>2. Socket
    BY <2>1 DEF LinkInv, NoSocket
  <2>3. /\ <<"connected">> \in Seq(ToPageFrames)
        /\ ~Has(<<"connected">>, {"closed"})
    BY PageFrames, ProxyFrames
  <2>4. /\ toPage' \in Seq(ToPageFrames)
        /\ Has(toPage', {"closed"}) => Has(toPage, {"closed"})
        /\ Has(toPage, {"fin"}) => Has(toPage', {"fin"})
    BY <1>t, <2>1, <2>3, JoinHas DEF ProxySends
  <2>5. LinkTypeOK'
    BY <1>t, <2>1, <2>4 DEF LinkTypeOK
  <2>6. EndIsOnItsWay' /\ AskedOnce'
    BY <1>t, <2>1 DEF EndIsOnItsWay, AskedOnce, Has
  <2>7. Socket'
    BY <2>1, <2>2, <2>4 DEF Socket
  <2>8. QED BY <2>5, <2>6, <2>7 DEF LinkInv
<1>7. CASE TargetRefuses \/ TargetExits
  <2>1. \E a \in {"closed", "failed"} : ProxySends(<<a, "fin">>)
    BY <1>7 DEF TargetRefuses, TargetExits, TargetClosed
  <2>2. /\ target \in {"starting", "running"} /\ target' = "closed" /\ proxyOpen' = FALSE
        /\ UNCHANGED <<starting, told, toProxy, pageOpen, proxyEnded, admitted>>
    BY <1>7 DEF TargetRefuses, TargetExits, TargetClosed
  <2>3. ~Has(toProxy', {"connect"}) /\ proxyEnded' \in BOOLEAN
    BY <1>t, <2>2 DEF AskedOnce, Has, LinkTypeOK
  <2>4. QED BY <1>t, <2>1, <2>2, <2>3, TargetEnds
<1>8. CASE SocketDrops
  <2>1. /\ toProxy' = IF proxyEnded THEN <<>> ELSE <<"fin">>
        /\ toPage' = IF pageOpen THEN <<"fin">> ELSE <<>>
        /\ proxyOpen' = FALSE /\ (pageOpen \/ proxyOpen)
        /\ UNCHANGED <<starting, told, pageOpen, proxyEnded, admitted, target>>
    BY <1>8 DEF SocketDrops
  <2>2. Socket
    BY <2>1 DEF LinkInv, NoSocket
  <2>3. /\ <<"fin">> \in Seq(ToProxyFrames) /\ <<"fin">> \in Seq(ToPageFrames) /\ DOMAIN <<"fin">> = {1}
        /\ <<"fin">>[1] = "fin"
        /\ \A some : Has(<<"fin">>, some) <=> "fin" \in some
    <3>1. DOMAIN <<"fin">> = {1} /\ <<"fin">>[1] = "fin"
      OBVIOUS
    <3>2. QED BY <3>1, PageFrames, ProxyFrames DEF Has
  <2>4. LinkTypeOK'
    <3>1. <<>> \in Seq(ToProxyFrames) /\ <<>> \in Seq(ToPageFrames)
      OBVIOUS
    <3>2. toProxy' \in Seq(ToProxyFrames) /\ toPage' \in Seq(ToPageFrames)
      BY <2>1, <2>3, <3>1
    <3>3. QED BY <1>t, <2>1, <3>2 DEF LinkTypeOK
  <2>5. EndIsOnItsWay' /\ AskedOnce'
    BY <1>t, <2>1, <2>2, <2>3, EmptyHas DEF EndIsOnItsWay, AskedOnce, Socket
  <2>6. Socket'
    BY <2>1, <2>2, <2>3, EmptyHas DEF Socket
  <2>7. QED BY <2>4, <2>5, <2>6 DEF LinkInv
<1>9. CASE UNCHANGED linkVars
  BY <1>9 DEF linkVars, LinkInv, LinkTypeOK, EndIsOnItsWay, NoSocket, Socket, AskedOnce
<1>10. QED
  BY <1>1, <1>2, <1>3, <1>4, <1>5, <1>6, <1>7, <1>8, <1>9 DEF LinkNext

\* What EndsTogether rests on: whichever end goes first and whatever is on its way or lost
\* then, the frame that ends the other one is on its way before it is needed, and no target is
\* started behind a socket that has ended (proxy.ts, transport.ts of apps/shared).
THEOREM EndsAreAnnounced == LinkSpec => []EndIsOnItsWay
<1>1. LinkInit => LinkInv
  <2>1. <<>> \in Seq(ToProxyFrames) /\ <<>> \in Seq(ToPageFrames) /\ DOMAIN <<>> = {}
    OBVIOUS
  <2>2. QED
    BY <2>1, EmptyHas DEF LinkInit, LinkInv, LinkTypeOK, EndIsOnItsWay, NoSocket, AskedOnce
<1>2. LinkInv => EndIsOnItsWay
  BY DEF LinkInv
<1>3. QED BY <1>1, <1>2, LinkStep, PTL DEF LinkSpec
=============================================================================
