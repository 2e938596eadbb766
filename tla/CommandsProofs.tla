--------------------------- MODULE CommandsProofs ---------------------------
(***************************************************************************)
(* Theorems about what the commands of the CLI do: the pool of the keep-   *)
(* alive daemon (DaemonPool), how it is started and found (DaemonStartup), *)
(* the interactive session (Repl), the files that name the servers         *)
(* (ServerFiles), one command line (CommandLine), and the check of a       *)
(* contract (ContractCheck); for every set of requests and servers, of     *)
(* daemons and callers, of shells, names and entries, of command lines,    *)
(* catalogs and schemas nested to any depth, and any number of lines.      *)
(***************************************************************************)
EXTENDS DaemonPool, DaemonStartup, Repl, ServerFiles, CommandLine, ContractCheck, FiniteSetTheorems,
        SequenceTheorems, WellFoundedInduction, TLAPS

-----------------------------------------------------------------------------
(* The pool: types                                                         *)

LEMMA ConfigFacts ==
  ASSUME TypeOK
  PROVE  /\ config \in ConfigType /\ config.maxFaults \in Nat /\ MaxConns \in Nat
         /\ \A r \in Requests : key(r) \in Servers
BY PoolAssumption DEF TypeOK, PoolAssumption, ConfigType, key

LEMMA InitType == Init => TypeOK
<1> SUFFICES ASSUME Init PROVE TypeOK
  OBVIOUS
<1>1. config \in ConfigType /\ MaxConns \in Nat
  BY PoolAssumption DEF Init, PoolAssumption
<1>2. 0 \in 0 .. config.maxFaults /\ 0 \in 0 .. MaxConns
  BY <1>1 DEF ConfigType
<1>3. QED
  BY <1>2 DEF Init, TypeOK, Absent, PCs

LEMMA HitType ==
  ASSUME NEW rs, hits \in [Requests -> 0 .. 2], Hit(rs)
  PROVE  hits' \in [Requests -> 0 .. 2]
BY DEF Hit

LEMMA FaultType ==
  ASSUME TypeOK, Fault
  PROVE  faults' \in 0 .. config.maxFaults
<1>1. config.maxFaults \in Nat
  BY ConfigFacts
<1>2. faults \in 0 .. config.maxFaults
  BY DEF TypeOK
<1>3. QED
  BY <1>1, <1>2 DEF Fault

LEMMA DropUpstreamType ==
  ASSUME TypeOK, NEW k \in Servers, DropUpstream(k)
  PROVE  /\ upstreams' \in [Servers -> Conns \cup {Absent}]
         /\ conn' \in [Conns -> {"none", "up", "lost", "closed"}]
BY DEF TypeOK, DropUpstream

LEMMA GetUpstreamType ==
  ASSUME TypeOK, NEW r \in Requests, NEW n \in {1, 2}, GetUpstream(r, n)
  PROVE  /\ pc' \in [Requests -> PCs]
         /\ attempt' \in [Requests -> {1, 2}]
         /\ entry' \in [Requests -> Conns \cup {Absent}]
BY ConfigFacts DEF TypeOK, GetUpstream, PCs

LEMMA AnswersType ==
  ASSUME TypeOK, NEW r \in Requests, NEW a \in {"server", "refused", "transport error"}, Answers(r, a)
  PROVE  /\ pc' \in [Requests -> PCs]
         /\ attempt' \in [Requests -> {1, 2}]
         /\ entry' \in [Requests -> Conns \cup {Absent}]
         /\ answer' \in [Requests -> {"none", "server", "refused", "transport error", "daemon gone"}]
BY DEF TypeOK, Answers, PCs, Absent

\* While a request awaits dropUpstream() it is at its first run.
FirstRun == \A r \in Requests : pc[r] = "dropping" => attempt[r] = 1

LEMMA RequestType ==
  ASSUME TypeOK, FirstRun, NEW r \in Requests,
         Request(r) \/ Connected(r) \/ Refused(r) \/ Answered(r) \/ Fails(r) \/ Dropped(r)
  PROVE  TypeOK' /\ FirstRun'
<1>1. CASE Request(r)
  <2>1. hits' \in [Requests -> 0 .. 2]
    <3>1. PICK h \in {0, 1} : hits' = [hits EXCEPT ![r] = h]
      BY <1>1 DEF Request
    <3>2. h \in 0 .. 2
      OBVIOUS
    <3>3. QED
      BY <3>1, <3>2 DEF TypeOK
  <2>2. answer' \in [Requests -> {"none", "server", "refused", "transport error", "daemon gone"}]
    BY <1>1 DEF TypeOK, Request
  <2>3. FirstRun'
    BY <1>1 DEF TypeOK, Request, GetUpstream, FirstRun
  <2>4. QED
    BY <1>1, <2>1, <2>2, <2>3, GetUpstreamType DEF TypeOK, Request, tickVars
<1>2. CASE Connected(r)
  <2>1. made' \in 0 .. MaxConns /\ made' \in Conns
    <3>1. made \in 0 .. MaxConns /\ MaxConns \in Nat /\ made < MaxConns /\ made' = made + 1
      BY <1>2, ConfigFacts DEF TypeOK, Connected
    <3>2. QED
      BY <3>1 DEF Conns
  <2>2. /\ conn' \in [Conns -> {"none", "up", "lost", "closed"}]
        /\ upstreams' \in [Servers -> Conns \cup {Absent}]
        /\ entry' \in [Requests -> Conns \cup {Absent}]
        /\ pc' \in [Requests -> PCs]
    BY <1>2, <2>1 DEF TypeOK, Connected, PCs
  <2>3. FirstRun'
    BY <1>2 DEF TypeOK, Connected, FirstRun
  <2>4. QED
    BY <1>2, <2>1, <2>2, <2>3 DEF TypeOK, Connected, tickVars
<1>3. CASE Refused(r)
  <2>1. FirstRun'
    BY <1>3 DEF TypeOK, Refused, Answers, FirstRun
  <2>2. QED
    BY <1>3, <2>1, FaultType, AnswersType DEF TypeOK, Refused, tickVars
<1>4. CASE Answered(r)
  <2>1. FirstRun'
    BY <1>4 DEF TypeOK, Answered, Answers, FirstRun
  <2>2. stale' \subseteq Conns /\ evicting' \subseteq Servers \X Conns
    BY <1>4 DEF TypeOK, Answered
  <2>3. QED
    BY <1>4, <2>1, <2>2, AnswersType DEF TypeOK, Answered
<1>5. CASE Fails(r)
  <2>1. hits' \in [Requests -> 0 .. 2] /\ faults' \in 0 .. config.maxFaults
    BY <1>5, HitType, FaultType DEF TypeOK, Fails
  <2>2. CASE attempt[r] = 1 /\ DropUpstream(key(r)) /\ pc' = [pc EXCEPT ![r] = "dropping"]
             /\ UNCHANGED <<attempt, entry, answer>>
    <3>1. FirstRun' /\ pc' \in [Requests -> PCs]
      BY <2>2 DEF TypeOK, FirstRun, PCs
    <3>2. key(r) \in Servers
      BY ConfigFacts
    <3>3. QED
      BY <1>5, <2>1, <2>2, <3>1, <3>2, DropUpstreamType DEF TypeOK, Fails, tickVars
  <2>3. CASE Answers(r, "transport error") /\ UNCHANGED <<upstreams, conn>>
    <3>1. FirstRun'
      BY <2>3 DEF TypeOK, Answers, FirstRun
    <3>2. QED
      BY <1>5, <2>1, <2>3, <3>1, AnswersType DEF TypeOK, Fails, tickVars
  <2>4. QED
    BY <1>5, <2>2, <2>3 DEF Fails
<1>6. CASE Dropped(r)
  <2>1. attempt[r] + 1 = 2
    BY <1>6 DEF Dropped, FirstRun
  <2>2. GetUpstream(r, 2)
    BY <1>6, <2>1 DEF Dropped
  <2>3. FirstRun'
    BY <2>2 DEF TypeOK, GetUpstream, FirstRun
  <2>4. QED
    BY <1>6, <2>2, <2>3, GetUpstreamType DEF TypeOK, Dropped, tickVars
<1>7. QED
  BY <1>1, <1>2, <1>3, <1>4, <1>5, <1>6

LEMMA CloseAllType ==
  ASSUME TypeOK, CloseAll
  PROVE  /\ upstreams' \in [Servers -> Conns \cup {Absent}]
         /\ conn' \in [Conns -> {"none", "up", "lost", "closed"}]
         /\ hits' \in [Requests -> 0 .. 2]
         /\ daemon' = "closing"
<1>1. hits' \in [Requests -> 0 .. 2]
  BY HitType DEF TypeOK, CloseAll
<1>2. QED
  BY <1>1 DEF TypeOK, CloseAll, Absent

LEMMA NextType == TypeOK /\ FirstRun /\ [Next]_vars => TypeOK' /\ FirstRun'
<1> SUFFICES ASSUME TypeOK, FirstRun, [Next]_vars PROVE TypeOK' /\ FirstRun'
  OBVIOUS
<1>1. CASE \E r \in Requests :
             Request(r) \/ Connected(r) \/ Refused(r) \/ Answered(r) \/ Fails(r) \/ Dropped(r)
  BY <1>1, RequestType
<1>2. CASE Ticks
  <2>1. evicting' \subseteq Servers \X Conns
    <3>1. \A k \in Servers : upstreams[k] \in stale => <<k, upstreams[k]>> \in Servers \X Conns
      BY DEF TypeOK
    <3>2. QED
      BY <1>2, <3>1 DEF Ticks
  <2>2. QED
    BY <1>2, <2>1 DEF TypeOK, Ticks, requestVars, FirstRun
<1>3. CASE Evicts
  <2>1. PICK p \in evicting : /\ evicting' = evicting \ {p}
                              /\ DropUpstream(p[1])
                              /\ Hit(UsersOf(upstreams[p[1]]))
    BY <1>3 DEF Evicts
  <2>2. p[1] \in Servers
    BY DEF TypeOK
  <2>3. evicting' \subseteq Servers \X Conns /\ hits' \in [Requests -> 0 .. 2]
    BY <2>1, HitType DEF TypeOK
  <2>4. QED
    BY <1>3, <2>1, <2>2, <2>3, DropUpstreamType DEF TypeOK, Evicts, requestVars, FirstRun
<1>4. CASE EvictReturns
  BY <1>4 DEF TypeOK, EvictReturns, requestVars, FirstRun
<1>5. CASE TickEnds
  <2>1. CASE CloseAll
    BY <1>5, <2>1, CloseAllType DEF TypeOK, TickEnds, requestVars, FirstRun
  <2>2. CASE UNCHANGED <<upstreams, conn, hits, daemon>>
    BY <1>5, <2>2 DEF TypeOK, TickEnds, requestVars, FirstRun
  <2>3. QED
    BY <1>5, <2>1, <2>2 DEF TickEnds
<1>6. CASE Stopped
  BY <1>6, CloseAllType DEF TypeOK, Stopped, requestVars, tickVars, FirstRun
<1>7. CASE Exits
  <2>1. /\ upstreams' \in [Servers -> Conns \cup {Absent}]
        /\ conn' \in [Conns -> {"none", "up", "lost", "closed"}]
        /\ pc' \in [Requests -> PCs] /\ attempt' \in [Requests -> {1, 2}]
        /\ entry' \in [Requests -> Conns \cup {Absent}]
        /\ FirstRun'
    BY <1>7 DEF TypeOK, Exits, PCs, FirstRun
  <2>2. answer' \in [Requests -> {"none", "server", "refused", "transport error", "daemon gone"}]
    BY <1>7 DEF TypeOK, Exits
  <2>3. QED
    BY <1>7, <2>1, <2>2 DEF TypeOK, Exits, tickVars
<1>8. CASE \E c \in Conns : GetsStale(c)
  BY <1>8 DEF TypeOK, GetsStale, requestVars, tickVars, FirstRun
<1>9. CASE \E c \in Conns : Lose(c)
  <2>1. PICK c \in Conns : Lose(c)
    BY <1>9
  <2>2. hits' \in [Requests -> 0 .. 2] /\ faults' \in 0 .. config.maxFaults
    BY <2>1, HitType, FaultType DEF TypeOK, Lose
  <2>3. QED
    BY <2>1, <2>2 DEF TypeOK, Lose, requestVars, tickVars, FirstRun
<1>10. CASE UNCHANGED vars
  BY <1>10 DEF TypeOK, vars, requestVars, tickVars, FirstRun
<1>11. QED
  BY <1>1, <1>2, <1>3, <1>4, <1>5, <1>6, <1>7, <1>8, <1>9, <1>10 DEF Next

\* Every variable keeps its type, and a request runs at most twice ("reconnecting ONCE").
THEOREM TypeCorrect == Spec => []TypeOK
<1>1. Init => FirstRun
  BY DEF Init, FirstRun
<1>2. Spec => [](TypeOK /\ FirstRun)
  BY <1>1, InitType, NextType, PTL DEF Spec
<1>3. QED
  BY <1>2, PTL

-----------------------------------------------------------------------------
(* The pool.                                                               *)

\* What every operation keeps of the map: its entries are connections that have been made,
\* one per key, and not closed.
PoolFacts ==
  /\ \A k \in Servers : upstreams[k] # Absent => upstreams[k] \in 1 .. made /\ conn[upstreams[k]] # "closed"
  /\ \A k, l \in Servers : upstreams[k] = upstreams[l] /\ upstreams[k] # Absent => k = l

\* ... and, when no two requests ask for the same upstream, one that connects finds no entry
\* to overwrite, and every open connection is an entry.
OwnFacts ==
  Alone =>
    /\ \A r \in Requests : pc[r] = "connecting" => upstreams[key(r)] = Absent
    /\ \A c \in Conns : conn[c] = "up" => \E k \in Servers : upstreams[k] = c

PoolInv == PoolFacts /\ OwnFacts

LEMMA DropUpstreamKeeps ==
  ASSUME TypeOK, PoolInv, NEW k \in Servers, DropUpstream(k), UNCHANGED <<made, config>>,
         \A r \in Requests : pc'[r] = "connecting" => pc[r] = "connecting"
  PROVE  PoolInv'
<1>1. /\ \A l \in Servers : upstreams'[l] = IF l = k THEN Absent ELSE upstreams[l]
      /\ \A c \in Conns : conn'[c] = IF c = upstreams[k] THEN "closed" ELSE conn[c]
  <2>1. /\ upstreams' = [upstreams EXCEPT ![k] = Absent]
        /\ conn' = IF upstreams[k] = Absent THEN conn ELSE [conn EXCEPT ![upstreams[k]] = "closed"]
        /\ DOMAIN upstreams = Servers /\ DOMAIN conn = Conns
        /\ upstreams \in [Servers -> Conns \cup {Absent}] /\ conn \in [Conns -> {"none", "up", "lost", "closed"}]
    BY DEF TypeOK, DropUpstream
  <2>2. \A c \in Conns : c # Absent
    BY ConfigFacts DEF Conns, Absent
  <2>3. QED
    BY <2>1, <2>2
<1>2. PoolFacts'
  <2>1. \A l \in Servers : upstreams[l] # Absent => upstreams[l] \in Conns
    BY DEF TypeOK
  <2>2. QED
    BY <1>1, <2>1 DEF PoolInv, PoolFacts
<1>3. OwnFacts'
  <2> SUFFICES ASSUME Alone
               PROVE  /\ \A r \in Requests : pc'[r] = "connecting" => upstreams'[key(r)] = Absent
                      /\ \A c \in Conns : conn'[c] = "up" => \E l \in Servers : upstreams'[l] = c
    BY DEF OwnFacts, Alone, key
  <2>1. \A r \in Requests : key(r) \in Servers
    BY ConfigFacts
  <2>2. \A r \in Requests : pc[r] = "connecting" => upstreams[key(r)] = Absent
    BY DEF PoolInv, OwnFacts
  <2>3. \A c \in Conns : conn[c] = "up" => \E l \in Servers : upstreams[l] = c
    BY DEF PoolInv, OwnFacts
  <2>4. QED
    BY <1>1, <2>1, <2>2, <2>3
<1>4. QED
  BY <1>2, <1>3 DEF PoolInv

LEMMA GetUpstreamKeeps ==
  ASSUME TypeOK, PoolInv, NEW r \in Requests, NEW n, GetUpstream(r, n),
         UNCHANGED <<config, upstreams, conn, made>>
  PROVE  PoolInv'
<1>1. PoolFacts'
  BY DEF PoolInv, PoolFacts
<1>2. \A s \in Requests : pc'[s] = "connecting" => pc[s] = "connecting" \/ upstreams[key(s)] = Absent
  BY DEF TypeOK, GetUpstream
<1>3. OwnFacts'
  BY <1>2 DEF PoolInv, OwnFacts, Alone, key
<1>4. QED
  BY <1>1, <1>3 DEF PoolInv

LEMMA AnswersKeeps ==
  ASSUME TypeOK, PoolInv, NEW r \in Requests, NEW a, Answers(r, a),
         UNCHANGED <<config, upstreams, conn, made>>
  PROVE  PoolInv'
<1>1. PoolFacts'
  BY DEF PoolInv, PoolFacts
<1>2. \A s \in Requests : pc'[s] = "connecting" => pc[s] = "connecting"
  BY DEF TypeOK, Answers
<1>3. OwnFacts'
  BY <1>2 DEF PoolInv, OwnFacts, Alone, key
<1>4. QED
  BY <1>1, <1>3 DEF PoolInv

LEMMA ConnectedKeeps ==
  ASSUME TypeOK, PoolInv, NEW r \in Requests, Connected(r)
  PROVE  PoolInv'
<1>0. made' = made + 1 /\ made \in Nat /\ made' \in Conns /\ key(r) \in Servers /\ made' # Absent
  <2>1. made \in 0 .. MaxConns /\ MaxConns \in Nat /\ made < MaxConns /\ made' = made + 1
    BY ConfigFacts DEF TypeOK, Connected
  <2>2. QED
    BY <2>1, ConfigFacts DEF Conns, Absent
<1>1. /\ \A l \in Servers : upstreams'[l] = IF l = key(r) THEN made' ELSE upstreams[l]
      /\ \A c \in Conns : conn'[c] = IF c = made' THEN "up" ELSE conn[c]
      /\ \A s \in Requests : pc'[s] = IF s = r THEN "running" ELSE pc[s]
  BY <1>0 DEF TypeOK, Connected
<1>2. \A l \in Servers : upstreams[l] # Absent =>
        upstreams[l] \in Conns /\ upstreams[l] \in 1 .. made /\ upstreams[l] # made' /\ upstreams[l] \in 1 .. made'
  <2>1. \A l \in Servers : upstreams[l] # Absent => upstreams[l] \in Conns /\ upstreams[l] \in 1 .. made
    BY ZenonT(30) DEF TypeOK, PoolInv, PoolFacts
  <2>2. \A i \in 1 .. made : i # made' /\ i \in 1 .. made'
    BY <1>0
  <2>3. QED
    BY <2>1, <2>2
<1>3. made' \in 1 .. made'
  BY <1>0
<1>4. PoolFacts'
  BY <1>0, <1>1, <1>2, <1>3 DEF PoolInv, PoolFacts
<1>5. OwnFacts'
  <2> SUFFICES ASSUME Alone
               PROVE  /\ \A s \in Requests : pc'[s] = "connecting" => upstreams'[key(s)] = Absent
                      /\ \A c \in Conns : conn'[c] = "up" => \E l \in Servers : upstreams'[l] = c
    BY DEF OwnFacts, Alone, key, Connected
  <2>1. /\ \A s \in Requests : pc[s] = "connecting" => upstreams[key(s)] = Absent
        /\ \A c \in Conns : conn[c] = "up" => \E l \in Servers : upstreams[l] = c
    BY DEF PoolInv, OwnFacts
  <2>2. upstreams[key(r)] = Absent
    BY <2>1 DEF Connected
  <2>3. \A s \in Requests : s # r => key(s) # key(r)
    BY DEF Alone
  <2>4. ASSUME NEW s \in Requests, pc'[s] = "connecting" PROVE upstreams'[key(s)] = Absent
    BY <1>1, <2>1, <2>3, <2>4, ConfigFacts
  <2>5. ASSUME NEW c \in Conns, conn'[c] = "up" PROVE \E l \in Servers : upstreams'[l] = c
    <3>1. CASE c = made'
      BY <1>0, <1>1, <3>1
    <3>2. CASE c # made'
      <4>1. PICK l \in Servers : upstreams[l] = c
        BY <1>1, <2>1, <2>5, <3>2
      <4>2. l # key(r)
        BY <2>2, <4>1 DEF Conns, Absent
      <4>3. QED
        BY <1>1, <4>1, <4>2
    <3>3. QED
      BY <3>1, <3>2
  <2>6. QED
    BY <2>4, <2>5
<1>6. QED
  BY <1>4, <1>5 DEF PoolInv

LEMMA CloseAllKeeps ==
  ASSUME TypeOK, PoolInv, CloseAll, UNCHANGED <<config, made, pc>>
  PROVE  PoolInv'
<1>1. /\ \A l \in Servers : upstreams'[l] = Absent
      /\ \A c \in Conns : conn'[c] = IF c \in Pooled THEN "closed" ELSE conn[c]
  BY DEF TypeOK, CloseAll
<1>2. PoolFacts'
  BY <1>1 DEF PoolFacts
<1>3. \A c \in Conns : (\E l \in Servers : upstreams[l] = c) => c \in Pooled
  BY DEF Pooled, Conns, Absent
<1>4. OwnFacts'
  <2> SUFFICES ASSUME Alone
               PROVE  /\ \A s \in Requests : pc'[s] = "connecting" => upstreams'[key(s)] = Absent
                      /\ \A c \in Conns : conn'[c] = "up" => \E l \in Servers : upstreams'[l] = c
    BY DEF OwnFacts, Alone, key
  <2>1. \A c \in Conns : conn'[c] # "up"
    BY <1>1, <1>3 DEF PoolInv, OwnFacts
  <2>2. QED
    BY <1>1, <2>1, ConfigFacts
<1>5. QED
  BY <1>2, <1>4 DEF PoolInv

LEMMA NextPool == TypeOK /\ PoolInv /\ [Next]_vars => PoolInv'
<1> SUFFICES ASSUME TypeOK, PoolInv, [Next]_vars PROVE PoolInv'
  OBVIOUS
<1> USE DEF requestVars, tickVars
<1>0. UNCHANGED <<config, upstreams, conn, made, pc>> => PoolInv'
  BY DEF PoolInv, PoolFacts, OwnFacts, Alone, key
<1>1. ASSUME NEW r \in Requests, Request(r) PROVE PoolInv'
  BY <1>1, GetUpstreamKeeps DEF Request
<1>2. ASSUME NEW r \in Requests, Connected(r) PROVE PoolInv'
  BY <1>2, ConnectedKeeps
<1>3. ASSUME NEW r \in Requests, Refused(r) PROVE PoolInv'
  BY <1>3, AnswersKeeps DEF Refused
<1>4. ASSUME NEW r \in Requests, Answered(r) PROVE PoolInv'
  BY <1>4, AnswersKeeps DEF Answered
<1>5. ASSUME NEW r \in Requests, Fails(r) PROVE PoolInv'
  <2>1. CASE DropUpstream(key(r)) /\ pc' = [pc EXCEPT ![r] = "dropping"]
    <3>1. \A s \in Requests : pc'[s] = "connecting" => pc[s] = "connecting"
      BY <2>1 DEF TypeOK
    <3>2. QED
      BY <1>5, <2>1, <3>1, ConfigFacts, DropUpstreamKeeps DEF Fails
  <2>2. CASE Answers(r, "transport error") /\ UNCHANGED <<upstreams, conn>>
    BY <1>5, <2>2, AnswersKeeps DEF Fails
  <2>3. QED
    BY <1>5, <2>1, <2>2 DEF Fails
<1>6. ASSUME NEW r \in Requests, Dropped(r) PROVE PoolInv'
  BY <1>6, GetUpstreamKeeps DEF Dropped
<1>7. CASE Evicts
  <2>1. PICK p \in evicting : DropUpstream(p[1])
    BY <1>7 DEF Evicts
  <2>2. p[1] \in Servers
    BY DEF TypeOK
  <2>3. QED
    BY <1>7, <2>1, <2>2, DropUpstreamKeeps DEF Evicts
<1>8. CASE TickEnds
  <2>1. CASE CloseAll
    BY <1>8, <2>1, CloseAllKeeps DEF TickEnds
  <2>2. QED
    BY <1>0, <1>8, <2>1 DEF TickEnds
<1>9. CASE Stopped
  BY <1>9, CloseAllKeeps DEF Stopped
<1>10. CASE Exits
  <2>1. \A k \in Servers : upstreams'[k] = Absent
    BY <1>10 DEF Exits
  <2>2. \A c \in Conns : conn'[c] # "up"
    BY <1>10 DEF Exits
  <2>3. \A r \in Requests : pc'[r] # "connecting"
    BY <1>10 DEF Exits
  <2>4. QED
    BY <2>1, <2>2, <2>3 DEF PoolInv, PoolFacts, OwnFacts
<1>11. ASSUME NEW c \in Conns, Lose(c) PROVE PoolInv'
  <2>1. \A d \in Conns : (conn'[d] = "closed" <=> conn[d] = "closed") /\ (conn'[d] = "up" => conn[d] = "up")
    BY <1>11 DEF TypeOK, Lose
  <2>2. \A k \in Servers : upstreams[k] # Absent => upstreams[k] \in Conns
    BY DEF TypeOK
  <2>3. PoolFacts'
    BY <1>11, <2>1, <2>2 DEF Lose, PoolInv, PoolFacts
  <2>4. OwnFacts'
    BY <1>11, <2>1 DEF Lose, PoolInv, OwnFacts, Alone, key
  <2>5. QED
    BY <2>3, <2>4 DEF PoolInv
<1>12. CASE Ticks \/ EvictReturns \/ \E c \in Conns : GetsStale(c)
  BY <1>0, <1>12 DEF Ticks, EvictReturns, GetsStale
<1>13. CASE UNCHANGED vars
  BY <1>0, <1>13 DEF vars
<1>14. QED
  BY <1>1, <1>2, <1>3, <1>4, <1>5, <1>6, <1>7, <1>8, <1>9, <1>10, <1>11, <1>12, <1>13 DEF Next

LEMMA PoolInvariant == Spec => []PoolInv
<1>1. Init => PoolInv
  <2> SUFFICES ASSUME Init PROVE PoolInv
    OBVIOUS
  <2>1. \A k \in Servers : upstreams[k] = Absent
    BY DEF Init
  <2>2. \A c \in Conns : conn[c] # "up"
    BY DEF Init
  <2>3. \A r \in Requests : pc[r] # "connecting"
    BY DEF Init
  <2>4. QED
    BY <2>1, <2>2, <2>3 DEF PoolInv, PoolFacts, OwnFacts
<1>2. QED
  BY <1>1, NextPool, TypeCorrect, PTL DEF Spec

\* No request is handed, from the pool, a connection that the daemon has closed: dropping,
\* evicting and shutting down forget an entry in the step that closes it, and no two keys
\* share one.
THEOREM PoolIsOpen == Spec => []PooledNotClosed
<1>1. TypeOK /\ PoolInv => PooledNotClosed
  BY DEF PoolInv, PoolFacts, PooledNotClosed, Pooled
<1>2. QED
  BY <1>1, TypeCorrect, PoolInvariant, PTL

\* When no two invocations ask for the same upstream, no connection is leaked: one that is
\* up is in the pool, for the next request, the eviction or the shutdown to find.
THEOREM NoConnectionLeaks == Spec => []NoOrphan
<1>1. PoolInv => NoOrphan
  BY DEF PoolInv, OwnFacts, NoOrphan, Pooled, Conns, Absent
<1>2. QED
  BY <1>1, PoolInvariant, PTL

\* The pool is what is open, and what the daemon has closed has left it.
THEOREM PoolMatchesConnections == Spec => []PoolIsKept
BY PoolIsOpen, NoConnectionLeaks, PTL DEF PoolIsKept

-----------------------------------------------------------------------------
(* One fault, one retry.                                                   *)

MadeInv == \A c \in Conns : c <= made => conn[c] # "none"

\* What has gone wrong under a request that is at its second run, or whose connection is not
\* up; and nobody else's key leads to its connection.
Suffered(r) ==
  /\ pc[r] = "connecting" => hits[r] >= attempt[r] - 1
  /\ pc[r] = "dropping" => hits[r] >= 1 /\ upstreams[key(r)] = Absent
  /\ pc[r] = "running" =>
       /\ entry[r] \in Conns /\ entry[r] <= made
       /\ hits[r] >= attempt[r] - 1
       /\ conn[entry[r]] # "up" => hits[r] >= attempt[r]
       /\ \A k \in Servers : upstreams[k] = entry[r] => k = key(r)
  /\ answer[r] = "transport error" => hits[r] = 2

RetryInv == Alone => \A r \in Requests : Suffered(r)

LEMMA PoolNumbers ==
  ASSUME TypeOK
  PROVE  /\ made \in Nat /\ Absent = 0 /\ \A c \in Conns : c \in Nat /\ c # 0
         /\ \A i \in 1 .. made : i <= made
         /\ \A r \in Requests : hits[r] \in 0 .. 2 /\ attempt[r] \in {1, 2}
<1>1. MaxConns \in Nat
  BY ConfigFacts
<1>2. made \in 0 .. MaxConns
  BY DEF TypeOK
<1>3. made \in Nat
  BY <1>1, <1>2
<1>4. \A c \in Conns : c \in Nat /\ c # 0
  BY <1>1 DEF Conns
<1>5. \A r \in Requests : hits[r] \in 0 .. 2 /\ attempt[r] \in {1, 2}
  BY DEF TypeOK
<1>6. \A i \in 1 .. made : i <= made
  BY <1>3
<1>7. QED BY <1>3, <1>4, <1>5, <1>6 DEF Absent

LEMMA HitFacts ==
  ASSUME TypeOK, NEW rs, Hit(rs), NEW r \in Requests
  PROVE  /\ hits'[r] \in 0 .. 2 /\ hits'[r] >= hits[r]
         /\ r \in rs /\ hits[r] >= attempt[r] - 1 => hits'[r] >= attempt[r]
<1>1. hits[r] \in 0 .. 2 /\ attempt[r] \in {1, 2}
  BY DEF TypeOK
<1>2. hits'[r] = IF r \in rs /\ hits[r] < 2 THEN hits[r] + 1 ELSE hits[r]
  BY DEF Hit
<1>3. QED BY <1>1, <1>2

\* A request that does not move: the pool may lose entries and gain new connections, and what
\* its own connection suffers is counted.
LEMMA SufferedStays ==
  ASSUME TypeOK, NEW r \in Requests, Suffered(r), UNCHANGED config,
         pc'[r] = pc[r], attempt'[r] = attempt[r], entry'[r] = entry[r], answer'[r] = answer[r],
         hits'[r] \in 0 .. 2, hits'[r] >= hits[r], made' \in Nat, made' >= made,
         \A k \in Servers : \/ upstreams'[k] = upstreams[k] \/ upstreams'[k] = Absent
                             \/ upstreams'[k] = made + 1,
         pc[r] = "dropping" /\ upstreams[key(r)] = Absent => upstreams'[key(r)] = Absent,
         pc[r] = "running" /\ conn[entry[r]] = "up" =>
           conn'[entry[r]] = "up" \/ hits'[r] >= attempt[r]
  PROVE  Suffered(r)'
<1>1. hits[r] \in 0 .. 2 /\ attempt[r] \in {1, 2} /\ made \in Nat
  BY PoolNumbers
<1>2. key(r)' = key(r)
  BY DEF key
<1>m. /\ \A n \in {attempt[r], attempt[r] - 1, 1} : hits[r] >= n => hits'[r] >= n
      /\ hits[r] = 2 => hits'[r] = 2
  BY <1>1
<1>a. answer[r] = "transport error" => hits'[r] = 2
  BY <1>m DEF Suffered
<1>3. CASE pc[r] = "running"
  <2>1. entry[r] \in Conns /\ entry[r] <= made
    BY <1>3 DEF Suffered
  <2>2. entry[r] \in Nat /\ entry[r] # Absent
    BY <2>1, PoolNumbers
  <2>3. entry[r] # made + 1 /\ entry[r] <= made'
    BY <1>1, <2>1, <2>2
  <2>4. \A k \in Servers : upstreams'[k] = entry[r] => k = key(r)
    BY <1>3, <2>2, <2>3 DEF Suffered
  <2>5. hits[r] >= attempt[r] - 1 /\ (conn[entry[r]] # "up" => hits[r] >= attempt[r])
    BY <1>3 DEF Suffered
  <2>6. hits'[r] >= attempt[r] - 1 /\ (conn'[entry[r]] # "up" => hits'[r] >= attempt[r])
    BY <1>3, <1>m, <2>5
  <2>7. QED BY <1>2, <1>3, <1>a, <2>1, <2>3, <2>4, <2>6 DEF Suffered
<1>4. CASE pc[r] # "running"
  <2>1. /\ pc[r] = "connecting" => hits[r] >= attempt[r] - 1
        /\ pc[r] = "dropping" => hits[r] >= 1 /\ upstreams[key(r)] = Absent
    BY DEF Suffered
  <2>2. /\ pc[r] = "connecting" => hits'[r] >= attempt[r] - 1
        /\ pc[r] = "dropping" => hits'[r] >= 1 /\ upstreams'[key(r)] = Absent
    BY <1>m, <2>1
  <2>3. QED BY <1>2, <1>4, <1>a, <2>2 DEF Suffered
<1>5. QED BY <1>3, <1>4

LEMMA DropUpstreamFacts ==
  ASSUME TypeOK, NEW k \in Servers, DropUpstream(k)
  PROVE  /\ \A l \in Servers : upstreams'[l] = IF l = k THEN Absent ELSE upstreams[l]
         /\ \A c \in Conns : conn'[c] = IF c = upstreams[k] THEN "closed" ELSE conn[c]
<1>1. /\ upstreams' = [upstreams EXCEPT ![k] = Absent]
      /\ conn' = IF upstreams[k] = Absent THEN conn ELSE [conn EXCEPT ![upstreams[k]] = "closed"]
      /\ DOMAIN upstreams = Servers /\ DOMAIN conn = Conns
      /\ upstreams \in [Servers -> Conns \cup {Absent}]
      /\ conn \in [Conns -> {"none", "up", "lost", "closed"}]
  BY DEF TypeOK, DropUpstream
<1>2. \A c \in Conns : c # Absent
  BY ConfigFacts DEF Conns, Absent
<1>3. QED BY <1>1, <1>2

\* A request gets its upstream: from the pool, where only its own key leads, or it connects.
LEMMA SufferedGets ==
  ASSUME TypeOK, MadeInv, PoolFacts, NEW r \in Requests, NEW n \in {1, 2}, GetUpstream(r, n),
         UNCHANGED <<config, upstreams, conn, made>>, answer'[r] # "transport error",
         hits'[r] \in 0 .. 2, hits'[r] >= n - 1,
         upstreams[key(r)] # Absent /\ conn[upstreams[key(r)]] = "lost" => hits'[r] >= n
  PROVE  Suffered(r)'
<1>1. /\ attempt'[r] = n /\ entry'[r] = upstreams[key(r)]
      /\ pc'[r] = IF upstreams[key(r)] = Absent THEN "connecting" ELSE "running"
  BY DEF TypeOK, GetUpstream
<1>2. key(r)' = key(r) /\ key(r) \in Servers
  BY ConfigFacts DEF key
<1>3. CASE upstreams[key(r)] = Absent
  BY <1>1, <1>2, <1>3 DEF Suffered
<1>4. CASE upstreams[key(r)] # Absent
  <2>0. upstreams[key(r)] \in 1 .. made /\ conn[upstreams[key(r)]] # "closed"
    BY <1>2, <1>4 DEF PoolFacts
  <2>t. upstreams[key(r)] \in Conns
    BY <1>2, <1>4 DEF TypeOK
  <2>1. upstreams[key(r)] \in Conns /\ upstreams[key(r)] <= made /\ conn[upstreams[key(r)]] # "closed"
    BY <2>0, <2>t, PoolNumbers
  <2>2. conn[upstreams[key(r)]] \in {"up", "lost"}
    BY <2>1 DEF TypeOK, MadeInv
  <2>3. \A k \in Servers : upstreams[k] = upstreams[key(r)] => k = key(r)
    BY <1>2, <1>4 DEF PoolFacts
  <2>4. QED BY <1>1, <1>2, <1>4, <2>1, <2>2, <2>3 DEF Suffered
<1>5. QED BY <1>3, <1>4

LEMMA NextMade == TypeOK /\ MadeInv /\ [Next]_vars => MadeInv'
<1> SUFFICES ASSUME TypeOK, MadeInv, [Next]_vars PROVE MadeInv'
  OBVIOUS
<1>0. made \in Nat /\ conn \in [Conns -> {"none", "up", "lost", "closed"}]
  BY PoolNumbers DEF TypeOK
<1>1. ASSUME NEW r \in Requests, Connected(r) PROVE MadeInv'
  <2>1. made' = made + 1 /\ conn' = [conn EXCEPT ![made'] = "up"]
    BY <1>1 DEF Connected
  <2>2. \A c \in Conns : c \in Nat /\ (c <= made + 1 => c <= made \/ c = made + 1)
    BY <1>0, PoolNumbers
  <2>3. QED BY <1>0, <2>1, <2>2 DEF MadeInv
<1>2. ASSUME NEW k \in Servers, DropUpstream(k), made' = made PROVE MadeInv'
  BY <1>2, DropUpstreamFacts DEF MadeInv
<1>3. ASSUME CloseAll, made' = made PROVE MadeInv'
  BY <1>3 DEF CloseAll, MadeInv
<1>4. ASSUME conn' = conn, made' = made PROVE MadeInv'
  BY <1>4 DEF MadeInv
<1>5. CASE Exits
  BY <1>5 DEF Exits, MadeInv
<1>6. ASSUME NEW c \in Conns, Lose(c) PROVE MadeInv'
  BY <1>0, <1>6 DEF Lose, MadeInv
<1>7. CASE Evicts
  BY <1>2, <1>7 DEF Evicts, TypeOK
<1>8. CASE TickEnds \/ Stopped
  BY <1>3, <1>4, <1>8 DEF TickEnds, Stopped
<1>9. ASSUME NEW r \in Requests, Fails(r) PROVE MadeInv'
  BY <1>2, <1>4, <1>9, ConfigFacts DEF Fails
<1>10. ASSUME NEW r \in Requests, Request(r) \/ Refused(r) \/ Answered(r) \/ Dropped(r)
       PROVE  MadeInv'
  BY <1>4, <1>10 DEF Request, Refused, Answered, Dropped
<1>11. CASE Ticks \/ EvictReturns \/ (\E c \in Conns : GetsStale(c)) \/ UNCHANGED vars
  BY <1>4, <1>11 DEF Ticks, EvictReturns, GetsStale, vars
<1>12. QED
  BY <1>1, <1>5, <1>6, <1>7, <1>8, <1>9, <1>10, <1>11 DEF Next

\* A step that closes connections under those that use them hits these.
LEMMA SufferedClosed ==
  ASSUME TypeOK, NEW r \in Requests, Suffered(r), NEW rs, Hit(rs), UNCHANGED <<config, made>>,
         UNCHANGED requestVars,
         \A k \in Servers : upstreams'[k] = upstreams[k] \/ upstreams'[k] = Absent,
         pc[r] = "running" /\ conn[entry[r]] = "up" => conn'[entry[r]] = "up" \/ r \in rs
  PROVE  Suffered(r)'
<1>1. hits'[r] \in 0 .. 2 /\ hits'[r] >= hits[r]
  BY HitFacts
<1>2. pc[r] = "running" /\ r \in rs => hits'[r] >= attempt[r]
  BY HitFacts DEF Suffered
<1>3. made' = made /\ made \in Nat /\ made >= made
  BY PoolNumbers
<1>4. key(r) \in Servers
  BY ConfigFacts
<1>5. QED BY <1>1, <1>2, <1>3, <1>4, SufferedStays DEF requestVars

\* ... and one that leaves the pool and the connections alone.
LEMMA SufferedElse ==
  ASSUME TypeOK, NEW r \in Requests, Suffered(r), UNCHANGED <<config, made, upstreams, conn>>,
         pc'[r] = pc[r], attempt'[r] = attempt[r], entry'[r] = entry[r], answer'[r] = answer[r],
         hits'[r] = hits[r]
  PROVE  Suffered(r)'
BY DEF Suffered, key

LEMMA RequestSuffers ==
  ASSUME TypeOK, FirstRun, PoolInv, MadeInv, Alone, NEW r \in Requests, NEW s \in Requests,
         Suffered(r), Suffered(s),
         Request(s) \/ Connected(s) \/ Refused(s) \/ Answered(s) \/ Fails(s) \/ Dropped(s)
  PROVE  Suffered(r)'
<1>n. made \in Nat /\ hits[r] \in 0 .. 2 /\ attempt[r] \in {1, 2} /\ hits[r] >= hits[r]
  BY PoolNumbers
<1>k. key(r) \in Servers /\ (r # s => key(r) # key(s)) /\ key(s) \in Servers
  BY ConfigFacts DEF Alone
<1>o. ASSUME r # s, UNCHANGED <<config, made, upstreams, conn>>, hits'[r] = hits[r],
             pc'[r] = pc[r], attempt'[r] = attempt[r], entry'[r] = entry[r], answer'[r] = answer[r]
      PROVE  Suffered(r)'
  BY <1>o, SufferedElse
<1>1. CASE Request(s)
  <2>1. CASE r # s
    BY <1>1, <1>o, <2>1 DEF Request, GetUpstream, TypeOK
  <2>2. CASE r = s
    <3>1. /\ answer'[r] = "none" /\ GetUpstream(r, 1) /\ UNCHANGED <<config, upstreams, conn, made>>
          /\ hits'[r] = IF \E c \in Conns : upstreams[key(r)] = c /\ conn[c] = "lost" THEN 1 ELSE 0
      BY <1>1, <2>2 DEF Request, TypeOK
    <3>2. upstreams[key(r)] # Absent => upstreams[key(r)] \in Conns
      BY <1>k DEF TypeOK
    <3>3. /\ hits'[r] \in 0 .. 2 /\ hits'[r] >= 1 - 1
          /\ upstreams[key(r)] # Absent /\ conn[upstreams[key(r)]] = "lost" => hits'[r] >= 1
      BY <3>1, <3>2
    <3>4. QED BY <3>1, <3>3, SufferedGets DEF PoolInv
  <2>3. QED BY <2>1, <2>2
<1>2. CASE Connected(s)
  <2>1. /\ made' = made + 1 /\ made' \in Conns /\ made' # Absent
        /\ \A l \in Servers : upstreams'[l] = IF l = key(s) THEN made' ELSE upstreams[l]
        /\ \A c \in Conns : conn'[c] = IF c = made' THEN "up" ELSE conn[c]
    <3>1. made' = made + 1 /\ made < MaxConns /\ MaxConns \in Nat
      BY <1>2, ConfigFacts DEF Connected
    <3>2. made' \in Conns /\ made' # Absent
      BY <1>n, <3>1 DEF Conns, Absent
    <3>3. QED BY <1>2, <3>1, <3>2 DEF Connected, TypeOK
  <2>2. CASE r # s
    <3>1. pc'[r] = pc[r] /\ entry'[r] = entry[r] /\ UNCHANGED <<config, attempt, answer, hits>>
      BY <1>2, <2>2 DEF Connected, TypeOK
    <3>2. made' \in Nat /\ made' >= made
      BY <1>n, <2>1
    <3>3. pc[r] = "running" => entry[r] \in Conns
      BY DEF Suffered
    <3>4. pc[r] = "running" /\ conn[entry[r]] = "up" => conn'[entry[r]] = "up"
      BY <2>1, <3>3
    <3>5. upstreams'[key(r)] = upstreams[key(r)]
      BY <1>k, <2>1, <2>2
    <3>6. QED BY <1>n, <2>1, <3>1, <3>2, <3>4, <3>5, SufferedStays
  <2>3. CASE r = s
    <3>1. /\ pc'[r] = "running" /\ entry'[r] = made' /\ UNCHANGED <<config, attempt, answer, hits>>
          /\ pc[r] = "connecting" /\ conn'[made'] = "up"
      BY <1>2, <2>1, <2>3 DEF Connected, TypeOK
    <3>2. \A l \in Servers : upstreams[l] # made'
      <4>1. \A l \in Servers : upstreams[l] # Absent => upstreams[l] \in 1 .. made
        BY DEF PoolInv, PoolFacts
      <4>2. QED BY <1>n, <2>1, <4>1, PoolNumbers
    <3>3. \A l \in Servers : upstreams'[l] = made' => l = key(r)
      BY <2>1, <2>3, <3>2
    <3>4. made' <= made'
      BY <1>n, <2>1
    <3>5. key(r)' = key(r)
      BY <3>1 DEF key
    <3>6. QED BY <2>1, <3>1, <3>3, <3>4, <3>5 DEF Suffered
  <2>4. QED BY <2>2, <2>3
<1>a. ASSUME NEW a \in {"server", "refused"}, Answers(s, a), UNCHANGED <<config, made, upstreams, conn, hits>>
      PROVE  Suffered(r)'
  <2>1. CASE r # s
    BY <1>a, <1>o, <2>1 DEF Answers, TypeOK
  <2>2. CASE r = s
    <3>1. pc'[r] = "idle" /\ answer'[r] # "transport error"
      BY <1>a, <2>2 DEF Answers, TypeOK
    <3>2. QED BY <3>1 DEF Suffered
  <2>3. QED BY <2>1, <2>2
<1>3. CASE Refused(s)
  BY <1>3, <1>a DEF Refused
<1>4. CASE Answered(s)
  BY <1>4, <1>a DEF Answered
<1>5. CASE Fails(s)
  <2>0. /\ pc[s] = "running" /\ UNCHANGED <<config, made>>
        /\ \/ conn[entry[s]] # "up" /\ UNCHANGED hits
           \/ conn[entry[s]] = "up" /\ Hit({s})
    BY <1>5 DEF Fails
  <2>h. /\ hits'[s] >= attempt[s] /\ hits'[s] \in 0 .. 2 /\ attempt[s] \in {1, 2}
        /\ r # s => hits'[r] = hits[r]
    <3>1. hits[s] \in 0 .. 2 /\ attempt[s] \in {1, 2}
      BY PoolNumbers
    <3>2. hits[s] >= attempt[s] - 1 /\ (conn[entry[s]] # "up" => hits[s] >= attempt[s])
      BY <2>0 DEF Suffered
    <3>3. CASE UNCHANGED hits /\ conn[entry[s]] # "up"
      BY <3>1, <3>2, <3>3
    <3>4. CASE Hit({s})
      <4>1. r # s => hits'[r] = hits[r]
        BY <3>4 DEF Hit
      <4>2. QED BY <3>1, <3>2, <3>4, <4>1, HitFacts
    <3>5. QED BY <2>0, <3>3, <3>4
  <2>1. CASE DropUpstream(key(s)) /\ pc' = [pc EXCEPT ![s] = "dropping"] /\ UNCHANGED <<attempt, entry, answer>>
    <3>1. /\ \A l \in Servers : upstreams'[l] = IF l = key(s) THEN Absent ELSE upstreams[l]
          /\ \A c \in Conns : conn'[c] = IF c = upstreams[key(s)] THEN "closed" ELSE conn[c]
      BY <1>k, <2>1, DropUpstreamFacts
    <3>2. CASE r # s
      <4>1. pc'[r] = pc[r]
        BY <2>1, <3>2 DEF TypeOK
      <4>2. pc[r] = "running" => entry[r] \in Conns /\ upstreams[key(s)] # entry[r]
        BY <1>k, <3>2 DEF Suffered
      <4>3. pc[r] = "running" /\ conn[entry[r]] = "up" => conn'[entry[r]] = "up"
        BY <3>1, <4>2
      <4>4. upstreams'[key(r)] = upstreams[key(r)] /\ made' \in Nat /\ made' >= made
        BY <1>k, <1>n, <2>0, <3>1, <3>2
      <4>5. hits'[r] \in 0 .. 2 /\ hits'[r] >= hits[r]
        BY <1>n, <2>h, <3>2
      <4>6. QED BY <2>0, <2>1, <3>1, <4>1, <4>3, <4>4, <4>5, SufferedStays
    <3>3. CASE r = s
      <4>1. pc'[r] = "dropping" /\ upstreams'[key(r)] = Absent /\ key(r)' = key(r)
        BY <1>k, <2>0, <2>1, <3>1, <3>3 DEF TypeOK, key
      <4>2. hits'[r] >= 1
        BY <2>h, <3>3
      <4>3. answer[r] = "transport error" => hits'[r] = 2
        <5>1. answer[r] = "transport error" => hits[r] = 2
          BY DEF Suffered
        <5>2. hits[r] = 2 => hits'[r] = 2
          BY <2>0, <3>3 DEF Hit
        <5>3. QED BY <5>1, <5>2
      <4>4. QED BY <2>1, <4>1, <4>2, <4>3 DEF Suffered
    <3>4. QED BY <3>2, <3>3
  <2>2. CASE attempt[s] = 2 /\ Answers(s, "transport error") /\ UNCHANGED <<upstreams, conn>>
    <3>1. CASE r # s
      BY <1>o, <2>0, <2>2, <2>h, <3>1 DEF Answers, TypeOK
    <3>2. CASE r = s
      <4>1. pc'[r] = "idle"
        BY <2>2, <3>2 DEF Answers, TypeOK
      <4>2. \A n \in 0 .. 2 : n >= 2 => n = 2
        OBVIOUS
      <4>h. hits'[r] = 2
        BY <2>2, <2>h, <3>2, <4>2
      <4>3. QED BY <4>1, <4>h DEF Suffered
    <3>3. QED BY <3>1, <3>2
  <2>3. QED BY <1>5, <2>1, <2>2 DEF Fails
<1>6. CASE Dropped(s)
  <2>1. /\ UNCHANGED <<config, upstreams, conn, made, answer, hits>>
        /\ GetUpstream(s, 2) /\ pc[s] = "dropping"
    <3>1. attempt[s] = 1
      BY <1>6 DEF Dropped, FirstRun
    <3>2. QED BY <1>6, <3>1 DEF Dropped
  <2>2. CASE r # s
    BY <1>o, <2>1, <2>2 DEF GetUpstream, TypeOK
  <2>3. CASE r = s
    <3>1. /\ pc'[r] = "connecting" /\ attempt'[r] = 2 /\ hits[r] >= 1
      BY <2>1, <2>3 DEF Suffered, GetUpstream, TypeOK
    <3>2. hits'[r] >= attempt'[r] - 1 /\ answer'[r] = answer[r]
      BY <2>1, <3>1
    <3>3. QED BY <2>1, <3>1, <3>2 DEF Suffered
  <2>4. QED BY <2>2, <2>3
<1>7. QED BY <1>1, <1>2, <1>3, <1>4, <1>5, <1>6

LEMMA NextRetry ==
  TypeOK /\ FirstRun /\ PoolInv /\ MadeInv /\ RetryInv /\ [Next]_vars => RetryInv'
<1> SUFFICES ASSUME TypeOK, FirstRun, PoolInv, MadeInv, RetryInv, [Next]_vars, Alone',
                    NEW r \in Requests
             PROVE  Suffered(r)'
  BY DEF RetryInv
<1>0. Alone /\ \A s \in Requests : Suffered(s)
  <2>1. config' = config
    BY DEF Next, Request, Connected, Refused, Answered, Fails, Dropped, Ticks, Evicts,
      EvictReturns, TickEnds, Stopped, Exits, GetsStale, Lose, vars
  <2>2. QED BY <2>1 DEF Alone, key, RetryInv
<1>e. UNCHANGED <<config, made, upstreams, conn, requestVars, hits>> => Suffered(r)'
  BY <1>0, SufferedElse DEF requestVars
<1>1. ASSUME NEW s \in Requests,
             Request(s) \/ Connected(s) \/ Refused(s) \/ Answered(s) \/ Fails(s) \/ Dropped(s)
      PROVE  Suffered(r)'
  BY <1>0, <1>1, RequestSuffers
<1>2. CASE Evicts
  <2>1. PICK p \in evicting : DropUpstream(p[1]) /\ Hit(UsersOf(upstreams[p[1]]))
    BY <1>2 DEF Evicts
  <2>2. p[1] \in Servers
    BY DEF TypeOK
  <2>3. /\ \A l \in Servers : upstreams'[l] = IF l = p[1] THEN Absent ELSE upstreams[l]
        /\ \A c \in Conns : conn'[c] = IF c = upstreams[p[1]] THEN "closed" ELSE conn[c]
    BY <2>1, <2>2, DropUpstreamFacts
  <2>4. pc[r] = "running" /\ conn[entry[r]] = "up" =>
          conn'[entry[r]] = "up" \/ r \in UsersOf(upstreams[p[1]])
    BY <1>0, <2>3 DEF UsersOf, Suffered
  <2>5. QED BY <1>0, <1>2, <2>1, <2>3, <2>4, SufferedClosed DEF Evicts
<1>3. ASSUME CloseAll, UNCHANGED <<config, made, requestVars>> PROVE Suffered(r)'
  <2> DEFINE rs == UNION {UsersOf(c) : c \in Pooled}
  <2>1. /\ \A l \in Servers : upstreams'[l] = Absent
        /\ \A c \in Conns : conn'[c] = IF c \in Pooled THEN "closed" ELSE conn[c]
        /\ Hit(rs)
    BY <1>3 DEF CloseAll
  <2>2. pc[r] = "running" /\ conn[entry[r]] = "up" => conn'[entry[r]] = "up" \/ r \in rs
    <3>1. pc[r] = "running" => entry[r] \in Conns /\ r \in UsersOf(entry[r])
      BY <1>0 DEF UsersOf, Suffered
    <3>2. entry[r] \in Pooled /\ r \in UsersOf(entry[r]) => r \in rs
      OBVIOUS
    <3>3. QED BY <2>1, <3>1, <3>2
  <2> HIDE DEF rs
  <2>3. QED BY <1>0, <1>3, <2>1, <2>2, SufferedClosed
<1>4. CASE TickEnds
  BY <1>3, <1>4, <1>e DEF TickEnds
<1>5. CASE Stopped
  BY <1>3, <1>5 DEF Stopped
<1>6. CASE Exits
  <2>1. pc'[r] = "idle" /\ hits' = hits /\ (answer'[r] = "transport error" => answer[r] = "transport error")
    BY <1>6 DEF Exits
  <2>2. QED BY <1>0, <2>1 DEF Suffered
<1>7. ASSUME NEW c \in Conns, Lose(c) PROVE Suffered(r)'
  <2>1. /\ Hit(UsersOf(c)) /\ UNCHANGED <<config, made, upstreams, requestVars>>
        /\ \A d \in Conns : conn'[d] = IF d = c THEN "lost" ELSE conn[d]
    BY <1>7 DEF Lose, TypeOK
  <2>2. pc[r] = "running" /\ conn[entry[r]] = "up" => conn'[entry[r]] = "up" \/ r \in UsersOf(c)
    BY <1>0, <2>1 DEF UsersOf, Suffered
  <2>3. QED BY <1>0, <2>1, <2>2, SufferedClosed
<1>8. CASE Ticks \/ EvictReturns \/ (\E c \in Conns : GetsStale(c)) \/ UNCHANGED vars
  BY <1>8, <1>e DEF Ticks, EvictReturns, GetsStale, vars
<1>9. QED BY <1>1, <1>2, <1>4, <1>5, <1>6, <1>7, <1>8 DEF Next

\* "reconnecting ONCE on a transport/closed error" (daemon/server.ts): when no two invocations
\* ask for the same upstream, an invocation that is told of a transport error has met two
\* faults; a loss, an eviction under it or a pooled connection found dead is made good alone.
THEOREM OneFaultIsMadeGood == Spec => []OneFaultNeverSurfaces
<1>1. Init => FirstRun /\ MadeInv /\ RetryInv
  <2> SUFFICES ASSUME Init PROVE FirstRun /\ MadeInv /\ RetryInv
    OBVIOUS
  <2>1. FirstRun /\ RetryInv
    BY DEF Init, FirstRun, RetryInv, Suffered
  <2>2. MadeInv
    <3>1. \A c \in Conns : ~(c <= 0)
      BY InitType, PoolNumbers
    <3>2. QED BY <3>1 DEF Init, MadeInv
  <2>3. QED BY <2>1, <2>2
<1>2. RetryInv => OneFaultNeverSurfaces
  BY DEF RetryInv, Suffered, OneFaultNeverSurfaces
<1>3. QED BY <1>1, <1>2, InitType, NextType, PoolInvariant, NextMade, NextRetry, PTL DEF Spec

-----------------------------------------------------------------------------
(* The session                                                             *)

\* How far the chain has got, and the line that is awaited.
ReplTyped ==
  /\ lines \in Seq(Verbs) /\ executed \in Seq(Nat)
  /\ ran \in Nat /\ upTo \in Nat /\ running \in Nat /\ leaving \in BOOLEAN
  /\ ran <= Len(lines) /\ upTo <= Len(lines)

ChainInv ==
  /\ running # 0 => running = ran + 1 /\ running <= Len(lines) /\ ~leaving
  /\ ended => leaving \/ (eof /\ upTo = Len(lines))
  /\ resolved => ended /\ ran >= upTo
  /\ client # "open" => resolved

Reached == IF running = 0 THEN ran ELSE running

\* What was dispatched of the lines ls is in order and stops at an exit; unless one was met it
\* is every command among the first n lines, which the chain has reached.
InOrder(ls, ex, n, left) ==
  /\ \A i \in DOMAIN ex : ex[i] <= n /\ ex[i] >= 1 /\ (ls[ex[i]] = "exit" => left)
  /\ \A i, j \in DOMAIN ex : i < j => ex[i] < ex[j] /\ ls[ex[i]] # "exit"
  /\ ~left => {ex[i] : i \in DOMAIN ex} = {i \in 1 .. n : ls[i] # ""}

DispatchInv == InOrder(lines, executed, Reached, leaving)

ReplInv == ReplTyped /\ ChainInv /\ DispatchInv

LEMMA ReachedFacts ==
  ASSUME ReplTyped, ChainInv
  PROVE  /\ Reached \in Nat /\ Reached <= Len(lines) /\ Len(lines) \in Nat
         /\ DOMAIN executed = 1 .. Len(executed) /\ Len(executed) \in Nat
         /\ \A i \in DOMAIN executed : executed[i] \in Nat
<1>1. lines \in Seq(Verbs) /\ executed \in Seq(Nat)
  BY DEF ReplTyped
<1>2. Len(lines) \in Nat /\ DOMAIN executed = 1 .. Len(executed) /\ Len(executed) \in Nat
  BY <1>1, LenProperties
<1>3. \A i \in DOMAIN executed : executed[i] \in Nat
  BY <1>1, <1>2, ElementOfSeq
<1>4. QED BY <1>2, <1>3 DEF ReplTyped, ChainInv, Reached

LEMMA MoreLines ==
  ASSUME NEW ls, NEW more, NEW ex, NEW n, NEW left, InOrder(ls, ex, n, left),
         \A i \in 1 .. n : more[i] = ls[i], \A i \in DOMAIN ex : ex[i] \in 1 .. n
  PROVE  InOrder(more, ex, n, left)
<1>1. {i \in 1 .. n : more[i] # ""} = {i \in 1 .. n : ls[i] # ""}
  OBVIOUS
<1>2. \A i \in DOMAIN ex : more[ex[i]] = ls[ex[i]]
  OBVIOUS
<1>3. QED BY <1>1, <1>2, Zenon DEF InOrder

LEMMA LineKeeps ==
  ASSUME ReplInv, NEW verb \in Verbs, Line(verb)
  PROVE  ReplInv'
<1>1. /\ lines' = Append(lines, verb) /\ ~eof /\ lines \in Seq(Verbs)
      /\ UNCHANGED <<ran, running, leaving, ended, upTo, eof, resolved, client, executed>>
  BY DEF Line, ReplInv, ReplTyped
<1>2. /\ lines' \in Seq(Verbs) /\ Len(lines') = Len(lines) + 1
      /\ \A i \in 1 .. Len(lines) : lines'[i] = lines[i]
  BY <1>1, AppendProperties
<1>3. ReplTyped' /\ ChainInv'
  <2>1. Len(lines) \in Nat
    BY ReachedFacts DEF ReplInv
  <2>2. QED BY <1>1, <1>2, <2>1 DEF ReplInv, ReplTyped, ChainInv
<1>4. Reached' = Reached /\ \A i \in 1 .. Reached : lines'[i] = lines[i]
  BY <1>1, <1>2, ReachedFacts DEF ReplInv, Reached
<1>5. \A i \in DOMAIN executed : executed[i] \in 1 .. Reached
  <2>1. \A i \in DOMAIN executed : executed[i] \in Nat /\ executed[i] <= Reached /\ executed[i] >= 1
    BY ReachedFacts DEF ReplInv, DispatchInv, InOrder
  <2>2. Reached \in Nat
    BY ReachedFacts DEF ReplInv
  <2>3. QED BY <2>1, <2>2
<1>6. DispatchInv'
  BY <1>1, <1>4, <1>5, MoreLines DEF ReplInv, DispatchInv
<1>7. QED BY <1>3, <1>6 DEF ReplInv

LEMMA OneMore ==
  ASSUME NEW n \in Nat
  PROVE  /\ \A i : i \in 1 .. n + 1 <=> i \in 1 .. n \/ i = n + 1
         /\ n + 1 \in Nat /\ n + 1 >= 1 /\ n + 1 <= n + 1
         /\ \A i \in Nat : i <= n => i < n + 1 /\ i <= n + 1
OBVIOUS

LEMMA Pushed ==
  ASSUME NEW s \in Seq(Nat), NEW n \in Nat
  PROVE  /\ Append(s, n) \in Seq(Nat)
         /\ DOMAIN Append(s, n) = DOMAIN s \cup {Len(s) + 1}
         /\ Append(s, n)[Len(s) + 1] = n
         /\ \A i \in DOMAIN s : Append(s, n)[i] = s[i] /\ s[i] \in Nat /\ ~(Len(s) + 1 < i)
         /\ ~(Len(s) + 1 < Len(s) + 1)
<1> DEFINE t == Append(s, n)
<1>1. /\ DOMAIN s = 1 .. Len(s) /\ Len(s) \in Nat /\ t \in Seq(Nat)
      /\ Len(t) = Len(s) + 1 /\ DOMAIN t = 1 .. Len(t)
      /\ t[Len(s) + 1] = n /\ \A i \in 1 .. Len(s) : t[i] = s[i]
  BY AppendProperties, LenProperties
<1> HIDE DEF t
<1>2. DOMAIN t = DOMAIN s \cup {Len(s) + 1}
  BY <1>1, OneMore
<1>3. \A i \in DOMAIN s : s[i] \in Nat /\ ~(Len(s) + 1 < i)
  <2>1. \A i \in 1 .. Len(s) : ~(Len(s) + 1 < i)
    BY <1>1
  <2>2. QED BY <1>1, <2>1, ElementOfSeq
<1>4. ~(Len(s) + 1 < Len(s) + 1)
  BY <1>1
<1>5. QED BY <1>1, <1>2, <1>3, <1>4 DEF t

\* The next link of the chain dispatches its line ...
LEMMA Dispatched ==
  ASSUME NEW ls, NEW ex \in Seq(Nat), NEW n \in Nat, NEW left \in BOOLEAN,
         InOrder(ls, ex, n, FALSE), ls[n + 1] # "", ls[n + 1] = "exit" => left
  PROVE  Append(ex, n + 1) \in Seq(Nat) /\ InOrder(ls, Append(ex, n + 1), n + 1, left)
<1> DEFINE k == n + 1
           last == Len(ex) + 1
           more == Append(ex, n + 1)
<1>1. /\ k \in Nat /\ k >= 1 /\ k <= k
      /\ \A i : i \in 1 .. k <=> i \in 1 .. n \/ i = k
      /\ \A i \in Nat : i <= n => i < k /\ i <= k
  BY OneMore
<1>2. /\ more \in Seq(Nat) /\ DOMAIN more = DOMAIN ex \cup {last}
      /\ more[last] = k /\ ~(last < last)
      /\ \A i \in DOMAIN ex : more[i] = ex[i] /\ ex[i] \in Nat /\ ~(last < i)
  BY <1>1, Pushed
<1>3. ls[k] # "" /\ (ls[k] = "exit" => left)
  OBVIOUS
<1> HIDE DEF k, last, more
<1>4. /\ \A i \in DOMAIN ex : ex[i] <= n /\ ex[i] >= 1 /\ ls[ex[i]] # "exit"
      /\ \A i, j \in DOMAIN ex : i < j => ex[i] < ex[j]
      /\ {ex[i] : i \in DOMAIN ex} = {i \in 1 .. n : ls[i] # ""}
  BY DEF InOrder
<1>5. \A i \in DOMAIN more :
        more[i] <= k /\ more[i] >= 1 /\ (ls[more[i]] = "exit" => left)
  BY <1>1, <1>2, <1>3, <1>4, Zenon
<1>6. \A i, j \in DOMAIN more : i < j => more[i] < more[j] /\ ls[more[i]] # "exit"
  BY <1>1, <1>2, <1>4, Zenon
<1>7. {more[i] : i \in DOMAIN more} = {i \in 1 .. k : ls[i] # ""}
  <2>1. {more[i] : i \in DOMAIN more} = {ex[i] : i \in DOMAIN ex} \cup {k}
    BY <1>2, ZenonT(30)
  <2>2. {i \in 1 .. k : ls[i] # ""} = {i \in 1 .. n : ls[i] # ""} \cup {k}
    BY <1>1, <1>3, Zenon
  <2>3. QED BY <1>4, <2>1, <2>2
<1>8. InOrder(ls, more, k, left)
  BY <1>5, <1>6, <1>7 DEF InOrder
<1>9. QED BY <1>2, <1>8 DEF k, more

\* ... or passes over it.
LEMMA PassedOver ==
  ASSUME NEW ls, NEW ex \in Seq(Nat), NEW n \in Nat, NEW left \in BOOLEAN,
         InOrder(ls, ex, n, left), left \/ ls[n + 1] = ""
  PROVE  InOrder(ls, ex, n + 1, left)
<1> DEFINE k == n + 1
<1>1. /\ \A i : i \in 1 .. k <=> i \in 1 .. n \/ i = k
      /\ \A i \in Nat : i <= n => i < k /\ i <= k
  BY OneMore
<1>2. left \/ ls[k] = ""
  OBVIOUS
<1> HIDE DEF k
<1>3. \A i \in DOMAIN ex : ex[i] \in Nat
  BY ElementOfSeq, LenProperties
<1>4. ~left => {i \in 1 .. k : ls[i] # ""} = {i \in 1 .. n : ls[i] # ""}
  BY <1>1, <1>2, Zenon
<1>5. \A i \in DOMAIN ex : ex[i] <= k
  BY <1>1, <1>3 DEF InOrder
<1>6. InOrder(ls, ex, k, left)
  BY <1>4, <1>5 DEF InOrder
<1>7. QED BY <1>6 DEF k

LEMMA ReplStep == ReplInv /\ [ReplNext]_replVars => ReplInv'
<1> SUFFICES ASSUME ReplInv, [ReplNext]_replVars PROVE ReplInv'
  OBVIOUS
<1>0. /\ ran \in Nat /\ Len(lines) \in Nat /\ upTo \in Nat /\ upTo <= Len(lines)
      /\ ran <= Len(lines) /\ running \in Nat
  BY ReachedFacts DEF ReplInv, ReplTyped
<1>d. UNCHANGED <<lines, executed, leaving, ran, running>> => DispatchInv'
  BY DEF ReplInv, DispatchInv, Reached
<1>b. leaving \in BOOLEAN
  BY DEF ReplInv, ReplTyped
<1>1. ASSUME NEW verb \in Verbs, Line(verb) PROVE ReplInv'
  BY <1>1, LineKeeps
<1>2. CASE Eof
  BY <1>0, <1>2, <1>d DEF Eof, Closes, ReplInv, ReplTyped, ChainInv
<1>3. CASE NextLine
  <2>0. running = 0 /\ ran < Len(lines) /\ UNCHANGED <<lines, eof, resolved, client>>
    BY <1>3 DEF NextLine
  <2>1. CASE leaving \/ lines[ran + 1] = ""
    <3>1. ran' = ran + 1 /\ UNCHANGED <<running, leaving, ended, upTo, executed>>
      BY <1>3, <2>1 DEF NextLine
    <3>2. DispatchInv'
      BY <1>0, <1>b, <2>0, <2>1, <3>1, PassedOver DEF ReplInv, ReplTyped, DispatchInv, Reached
    <3>3. QED BY <1>0, <2>0, <3>1, <3>2 DEF ReplInv, ReplTyped, ChainInv
  <2>2. CASE ~leaving /\ lines[ran + 1] = "exit"
    <3>1. /\ ran' = ran + 1 /\ leaving' = TRUE /\ executed' = Append(executed, ran + 1)
          /\ Closes /\ running' = 0
      BY <1>3, <2>0, <2>2 DEF NextLine
    <3>2. executed' \in Seq(Nat) /\ DispatchInv'
      BY <1>0, <1>b, <2>0, <2>2, <3>1, Dispatched DEF ReplInv, ReplTyped, DispatchInv, Reached
    <3>3. upTo' \in {upTo, Len(lines)} /\ (ended => ended' /\ upTo' = upTo)
      BY <3>1 DEF Closes
    <3>4. resolved => ran >= upTo /\ upTo' = upTo /\ ended'
      BY <3>3 DEF ReplInv, ChainInv
    <3>5. ReplTyped'
      BY <1>0, <2>0, <3>1, <3>2, <3>3 DEF ReplInv, ReplTyped
    <3>6. resolved => ran' >= upTo'
      BY <1>0, <3>1, <3>4
    <3>7. ChainInv'
      BY <2>0, <3>1, <3>4, <3>6 DEF ReplInv, ChainInv
    <3>8. QED BY <3>2, <3>5, <3>7 DEF ReplInv
  <2>3. CASE ~leaving /\ lines[ran + 1] \notin {"", "exit"}
    <3>1. /\ running' = ran + 1 /\ executed' = Append(executed, ran + 1)
          /\ UNCHANGED <<ran, leaving, ended, upTo>>
      BY <1>3, <2>3 DEF NextLine
    <3>2. running' # 0
      BY <1>0, <3>1
    <3>3. executed' \in Seq(Nat) /\ DispatchInv'
      BY <1>0, <1>b, <2>0, <2>3, <3>1, <3>2, Dispatched DEF ReplInv, ReplTyped, DispatchInv, Reached
    <3>4. ReplTyped'
      BY <1>0, <2>0, <3>1, <3>3 DEF ReplInv, ReplTyped
    <3>5. running' <= Len(lines)
      BY <1>0, <2>0, <3>1
    <3>6. ChainInv'
      BY <2>0, <2>3, <3>1, <3>5 DEF ReplInv, ChainInv
    <3>7. QED BY <3>3, <3>4, <3>6 DEF ReplInv
  <2>4. QED BY <2>1, <2>2, <2>3
<1>4. CASE CommandEnds
  <2>1. /\ running # 0 /\ running' = 0 /\ ran' = ran + 1
        /\ UNCHANGED <<lines, leaving, ended, upTo, eof, resolved, client, executed>>
    BY <1>4 DEF CommandEnds
  <2>2. Reached' = Reached /\ running = ran + 1 /\ running <= Len(lines)
    BY <2>1 DEF Reached, ReplInv, ChainInv
  <2>3. DispatchInv'
    BY <2>1, <2>2 DEF ReplInv, DispatchInv
  <2>4. QED BY <1>0, <2>1, <2>2, <2>3 DEF ReplInv, ReplTyped, ChainInv
<1>5. CASE Resolves
  BY <1>0, <1>5, <1>d DEF Resolves, ChainDone, ReplInv, ReplTyped, ChainInv
<1>6. CASE ClientCloses
  BY <1>0, <1>6, <1>d DEF ClientCloses, ReplInv, ReplTyped, ChainInv
<1>7. CASE UNCHANGED replVars
  BY <1>0, <1>7, <1>d DEF replVars, ReplInv, ReplTyped, ChainInv
<1>8. QED BY <1>1, <1>2, <1>3, <1>4, <1>5, <1>6, <1>7 DEF ReplNext

\* Commands run one at a time in the order they were typed, nothing runs after exit, and the
\* connection is not closed under a command that was piped in before the end of the input,
\* however many there are and however many of them fail (session.ts:134-138).
THEOREM SessionCutsNothingShort == ReplSpec => []NothingCutShort
<1>1. ReplInit => ReplInv
  <2> SUFFICES ASSUME ReplInit PROVE ReplInv
    OBVIOUS
  <2>1. /\ lines \in Seq(Verbs) /\ executed \in Seq(Nat) /\ Len(lines) = 0
        /\ DOMAIN executed = {}
    BY DEF ReplInit
  <2>2. {i \in 1 .. 0 : lines[i] # ""} = {}
    OBVIOUS
  <2>3. InOrder(lines, executed, 0, FALSE)
    BY <2>1, <2>2 DEF InOrder
  <2>4. /\ ran = 0 /\ running = 0 /\ upTo = 0 /\ leaving = FALSE /\ ended = FALSE
        /\ resolved = FALSE /\ client = "open"
    BY DEF ReplInit
  <2>5. ReplTyped
    <3>1. ran <= Len(lines) /\ upTo <= Len(lines)
      BY <2>1, <2>4
    <3>2. ran \in Nat /\ upTo \in Nat /\ running \in Nat /\ leaving \in BOOLEAN
      BY <2>4
    <3>3. QED BY <2>1, <3>1, <3>2 DEF ReplTyped
  <2>7. ChainInv
    BY <2>4 DEF ChainInv
  <2>6. DispatchInv
    BY <2>3, <2>4 DEF DispatchInv, Reached
  <2>8. QED BY <2>5, <2>6, <2>7 DEF ReplInv
<1>2. ReplInv => NothingCutShort
  <2> SUFFICES ASSUME ReplInv PROVE NothingCutShort
    OBVIOUS
  <2>1. \A i, j \in DOMAIN executed : i < j => executed[i] < executed[j] /\ lines[executed[i]] # "exit"
    BY DEF ReplInv, DispatchInv, InOrder
  <2>2. client # "open" => running = 0 /\ (leaving \/ Executed = CommandsBefore(upTo))
    <3> SUFFICES ASSUME client # "open"
                 PROVE  running = 0 /\ (leaving \/ Executed = CommandsBefore(upTo))
      OBVIOUS
    <3>1. /\ ended /\ ran >= upTo /\ ran <= Len(lines) /\ ran \in Nat /\ upTo \in Nat
          /\ Len(lines) \in Nat /\ (leaving \/ upTo = Len(lines))
      BY ReachedFacts DEF ReplInv, ChainInv, ReplTyped
    <3>2. CASE leaving
      BY <3>2 DEF ReplInv, ChainInv
    <3>3. CASE ~leaving
      <4>1. ran = upTo /\ upTo = Len(lines)
        BY <3>1, <3>3
      <4>2. running = 0
        BY <3>1, <4>1 DEF ReplInv, ChainInv
      <4>3. QED
        BY <3>3, <4>1, <4>2 DEF ReplInv, DispatchInv, InOrder, Reached, Executed, CommandsBefore
    <3>4. QED BY <3>2, <3>3
  <2>3. QED BY <2>1, <2>2 DEF NothingCutShort
<1>3. QED BY <1>1, <1>2, ReplStep, PTL DEF ReplSpec

-----------------------------------------------------------------------------
(* The registry of servers: types                                          *)

Items == [name : Names, entry : Entries \cup {Gone}]

Processes ==
  [at : {"idle", "reading", "changing", "writing"},
   verb : {"none", "add", "import", "rm", "rm any", "get"}, todo : Seq(Items), path : Paths,
   servers : Registries, got : Entries \cup {Unsaid, Gone}]

\* A process that runs has an entry to deal with.
ShellsTyped ==
  /\ shell \in [Shells -> Processes]
  /\ \A s \in Shells : shell[s].at # "idle" => shell[s].todo # <<>>

\* What a file has agrees with what was said of it.
Agrees(said, servers) ==
  \A n \in Names :
    /\ said[n] \in Entries => n \in DOMAIN servers /\ servers[n] = said[n]
    /\ said[n] = Gone => n \notin DOMAIN servers

\* A process about to write a file has read what is there; while it writes, what it has read
\* agrees with what was said, and no other process is at the file.
KeptBy(s, path) ==
  /\ shell[s].at = "changing" =>
       entries[path].intact /\ shell[s].servers = entries[path].servers
  /\ shell[s].at = "writing" =>
       /\ ~entries[path].intact /\ Agrees(told[path], shell[s].servers)
       /\ \A t \in Shells \ {s} : Busy(t) => shell[t].path # path

SafeAt(path) ==
  /\ entries[path].intact => Agrees(told[path], entries[path].servers)
  /\ \A s \in Shells : shell[s].path = path => KeptBy(s, path)

FileInv == \A path \in Paths \ mixed : SafeAt(path)

LEMMA RegistryFacts ==
  /\ <<>> \in Registries
  /\ \A r \in Registries : DOMAIN r \subseteq Names /\ \A n \in DOMAIN r : r[n] \in Entries
  /\ \A r \in Registries, n \in Names, e \in Entries : With(r, n, e) \in Registries
  /\ \A r \in Registries, n \in Names : Without(r, n) \in Registries
<1>1. \A r : r \in Registries <=> \E d \in SUBSET Names : r \in [d -> Entries]
  BY DEF Registries
<1>2. <<>> \in Registries
  <2>1. <<>> \in [{} -> Entries]
    OBVIOUS
  <2>2. {} \in SUBSET Names
    OBVIOUS
  <2>3. QED BY <1>1, <2>1, <2>2
<1>3. ASSUME NEW r \in Registries, NEW n \in Names, NEW e \in Entries
      PROVE  With(r, n, e) \in Registries
  <2>1. DOMAIN r \cup {n} \in SUBSET Names /\ With(r, n, e) \in [DOMAIN r \cup {n} -> Entries]
    BY <1>1 DEF With
  <2>2. QED BY <1>1, <2>1
<1>4. ASSUME NEW r \in Registries, NEW n \in Names PROVE Without(r, n) \in Registries
  <2>1. DOMAIN r \ {n} \in SUBSET Names /\ Without(r, n) \in [DOMAIN r \ {n} -> Entries]
    BY <1>1 DEF Without
  <2>2. QED BY <1>1, <2>1
<1>5. QED BY <1>1, <1>2, <1>3, <1>4

LEMMA WorkFacts ==
  ASSUME NEW q \in Seq(Items), q # <<>>
  PROVE  Head(q) \in Items /\ Tail(q) \in Seq(Items)
BY HeadTailProperties

\* What an import works through is every one of its entries.
LEMMA ImportList ==
  ASSUME NEW e \in Entries
  PROVE  LET list == SetToSeq({Item(n, e) : n \in Names})
         IN  list \in Seq(Items) /\ list # <<>>
<1> DEFINE S == {Item(n, e) : n \in Names}
           f == [n \in Names |-> Item(n, e)]
           c == Cardinality(S)
<1>1. S \subseteq Items /\ S # {}
  <2>1. \A n \in Names : Item(n, e) \in Items
    BY DEF Item, Items
  <2>2. \E n : n \in Names
    BY FilesAssumption DEF FilesAssumption
  <2>3. QED BY <2>1, <2>2
<1>2. f \in Surjection(Names, S)
  BY DEF Surjection
<1> HIDE DEF S, f
<1>3. IsFiniteSet(S)
  BY <1>2, FS_Surjection, FilesAssumption DEF FilesAssumption
<1>4. c \in Nat /\ ExistsBijection(1 .. c, S) /\ c # 0
  BY <1>1, <1>3, FS_CardinalityType, FS_EmptySet
<1>5. \E g \in [1 .. c -> S] : IsInjective(g)
  BY <1>4 DEF ExistsBijection, Bijection, Injection
<1>6. SetToSeq(S) \in [1 .. c -> S]
  BY <1>5 DEF SetToSeq
<1> HIDE DEF c
<1>7. SetToSeq(S) \in [1 .. c -> Items]
  BY <1>1, <1>6
<1>8. SetToSeq(S) \in Seq(Items) /\ Len(SetToSeq(S)) = c
  BY <1>4, <1>7, SeqDef, LenProperties
<1>9. SetToSeq(S) # <<>>
  BY <1>4, <1>8
<1>10. QED BY <1>8, <1>9 DEF S

LEMMA QuietTyped == Quiet \in Processes
BY RegistryFacts DEF Quiet, Processes, Paths

\* Only the process that a step is of is another after it, and keeps its type.
LEMMA ShellTyped ==
  ASSUME ShellsTyped, NEW s \in Shells, NEW p \in Processes, p.at # "idle" => p.todo # <<>>,
         shell' = [shell EXCEPT ![s] = p]
  PROVE  ShellsTyped'
BY DEF ShellsTyped

LEMMA OneLess ==
  ASSUME NEW max \in Nat, NEW n \in 0 .. max, n < max
  PROVE  n + 1 \in 0 .. max
OBVIOUS

LEMMA RunsTyped ==
  ASSUME FilesTypeOK, ShellsTyped, NEW s \in Shells, NEW verb \in {"add", "import", "rm", "rm any"},
         NEW todo \in Seq(Items), todo # <<>>, NEW path \in Paths, Runs(s, verb, todo, path)
  PROVE  FilesTypeOK' /\ ShellsTyped'
<1> DEFINE p == [Quiet EXCEPT !.at = "reading", !.verb = verb, !.todo = todo, !.path = path]
<1>1. p \in Processes /\ p.at # "idle" /\ p.todo = todo
  BY QuietTyped DEF Quiet, Processes
<1>2. shell' = [shell EXCEPT ![s] = p]
  BY DEF Runs
<1> HIDE DEF p
<1>3. ShellsTyped'
  BY <1>1, <1>2, ShellTyped
<1>4. /\ told' \in [Paths -> [Names -> Entries \cup {Unsaid, Gone}]]
      /\ verbs' = verbs + 1 /\ verbs < MaxVerbs /\ UNCHANGED <<entries, mixed, kills>>
  BY DEF Runs, FilesTypeOK
<1>5. verbs' \in 0 .. MaxVerbs
  <2>1. MaxVerbs \in Nat /\ verbs \in 0 .. MaxVerbs
    BY FilesAssumption DEF FilesTypeOK, FilesAssumption
  <2>2. QED BY <1>4, <2>1, OneLess
<1>6. FilesTypeOK'
  BY <1>3, <1>4, <1>5 DEF FilesTypeOK, ShellsTyped, Processes
<1>7. QED BY <1>3, <1>6

\* The verbs that change a file each run with entries to deal with.
LEMMA VerbRuns ==
  ASSUME NEW s \in Shells,
         \/ \E n \in Names, e \in Entries, scope \in Paths : Add(s, n, e, scope)
         \/ \E e \in Entries, scope \in Paths : Import(s, e, scope)
         \/ \E n \in Names, scope \in Paths \cup {"any"} : RemoveServer(s, n, scope)
  PROVE  \E verb \in {"add", "import", "rm", "rm any"}, todo \in Seq(Items), path \in Paths :
           todo # <<>> /\ Runs(s, verb, todo, path)
<1>1. \A scope : PathForScope(scope) \in Paths
  BY DEF PathForScope, Paths
<1>2. ASSUME NEW n \in Names, NEW e \in Entries \cup {Gone}
      PROVE  <<Item(n, e)>> \in Seq(Items) /\ <<Item(n, e)>> # <<>>
  <2>1. Item(n, e) \in Items
    BY DEF Item, Items
  <2>2. QED BY <2>1
<1>3. ASSUME NEW n \in Names, NEW e \in Entries, NEW scope \in Paths, Add(s, n, e, scope)
      PROVE  \E verb \in {"add", "import", "rm", "rm any"}, todo \in Seq(Items), path \in Paths :
               todo # <<>> /\ Runs(s, verb, todo, path)
  BY <1>1, <1>2, <1>3 DEF Add
<1>4. ASSUME NEW e \in Entries, NEW scope \in Paths, Import(s, e, scope)
      PROVE  \E verb \in {"add", "import", "rm", "rm any"}, todo \in Seq(Items), path \in Paths :
               todo # <<>> /\ Runs(s, verb, todo, path)
  BY <1>1, <1>4, ImportList DEF Import
<1>5. ASSUME NEW n \in Names, NEW scope \in Paths \cup {"any"}, RemoveServer(s, n, scope)
      PROVE  \E verb \in {"add", "import", "rm", "rm any"}, todo \in Seq(Items), path \in Paths :
               todo # <<>> /\ Runs(s, verb, todo, path)
  BY <1>1, <1>2, <1>5 DEF RemoveServer
<1>6. QED BY <1>3, <1>4, <1>5

LEMMA ReadsTyped ==
  ASSUME FilesTypeOK, ShellsTyped, NEW s \in Shells, Reads(s)
  PROVE  FilesTypeOK' /\ ShellsTyped'
<1> DEFINE p == shell[s]
           servers == entries[p.path].servers
           n == Head(p.todo).name
           all == Merge(p.servers, servers)
           got == IF n \in DOMAIN all THEN all[n] ELSE Gone
<1>1. p \in Processes /\ p.todo # <<>> /\ servers \in Registries /\ p.path \in Paths
  BY DEF ShellsTyped, Processes, FilesTypeOK, Reads
<1>2. got \in Entries \cup {Unsaid, Gone}
  <2>1. p.servers \in Registries
    BY <1>1 DEF Processes
  <2>2. \A m \in DOMAIN all : all[m] \in Entries
    BY <1>1, <2>1, RegistryFacts DEF Merge
  <2>3. QED BY <2>2
<1>3. \/ shell' = [shell EXCEPT ![s] = [p EXCEPT !.path = "project", !.servers = servers]]
      \/ shell' = [shell EXCEPT ![s] = [Quiet EXCEPT !.got = got]]
      \/ shell' = [shell EXCEPT ![s].path = "project"]
      \/ shell' = [shell EXCEPT ![s] = Quiet]
      \/ shell' = [shell EXCEPT ![s].at = "changing", ![s].servers = servers]
  BY DEF Reads
<1>4. /\ shell \in [Shells -> Processes] /\ "project" \in Paths
      /\ UNCHANGED <<entries, told, mixed, verbs, kills>>
  BY DEF Reads, ShellsTyped, Paths
<1> HIDE DEF servers, got
<1>5. \E x \in Processes : shell' = [shell EXCEPT ![s] = x] /\ (x.at # "idle" => x.todo # <<>>)
  <2>1. CASE shell' = [shell EXCEPT ![s] = [p EXCEPT !.path = "project", !.servers = servers]]
    <3>1. [p EXCEPT !.path = "project", !.servers = servers] \in Processes
          /\ [p EXCEPT !.path = "project", !.servers = servers].todo = p.todo
      BY <1>1, <1>4 DEF Processes
    <3>2. QED BY <1>1, <2>1, <3>1
  <2>2. CASE shell' = [shell EXCEPT ![s] = [Quiet EXCEPT !.got = got]]
    <3>1. [Quiet EXCEPT !.got = got] \in Processes /\ [Quiet EXCEPT !.got = got].at = "idle"
      BY <1>2, QuietTyped DEF Processes, Quiet
    <3>2. QED BY <2>2, <3>1
  <2>3. CASE shell' = [shell EXCEPT ![s].path = "project"]
    <3>1. shell' = [shell EXCEPT ![s] = [p EXCEPT !.path = "project"]]
      BY <1>4, <2>3
    <3>2. [p EXCEPT !.path = "project"] \in Processes /\ [p EXCEPT !.path = "project"].todo = p.todo
      BY <1>1, <1>4 DEF Processes
    <3>3. QED BY <1>1, <3>1, <3>2
  <2>4. CASE shell' = [shell EXCEPT ![s] = Quiet]
    BY <2>4, QuietTyped DEF Quiet
  <2>5. CASE shell' = [shell EXCEPT ![s].at = "changing", ![s].servers = servers]
    <3>1. shell' = [shell EXCEPT ![s] = [p EXCEPT !.at = "changing", !.servers = servers]]
      BY <1>4, <2>5
    <3>2. [p EXCEPT !.at = "changing", !.servers = servers] \in Processes
          /\ [p EXCEPT !.at = "changing", !.servers = servers].todo = p.todo
      BY <1>1 DEF Processes
    <3>3. QED BY <1>1, <3>1, <3>2
  <2>6. QED BY <1>3, <2>1, <2>2, <2>3, <2>4, <2>5
<1>6. ShellsTyped'
  BY <1>5, ShellTyped
<1>7. QED BY <1>4, <1>6 DEF FilesTypeOK, ShellsTyped, Processes

LEMMA WritesTyped ==
  ASSUME FilesTypeOK, ShellsTyped, NEW s \in Shells, Writes(s)
  PROVE  /\ FilesTypeOK' /\ ShellsTyped'
         /\ shell[s].path \in Paths /\ Head(shell[s].todo) \in Items
<1> DEFINE p == shell[s]
           item == Head(p.todo)
           more == Tail(p.todo)
           new == IF item.entry = Gone THEN Without(p.servers, item.name)
                                       ELSE With(p.servers, item.name, item.entry)
           next == IF more = <<>> THEN Quiet ELSE [p EXCEPT !.at = "reading", !.todo = more]
<1>1. /\ p.at = "writing" /\ entries' = [entries EXCEPT ![p.path] = [intact |-> TRUE, servers |-> new]]
      /\ told' = [told EXCEPT ![p.path][item.name] = item.entry]
      /\ shell' = [shell EXCEPT ![s] = next]
      /\ UNCHANGED <<mixed, verbs, kills>>
  BY DEF Writes
<1>2. p \in Processes /\ p.todo \in Seq(Items) /\ p.todo # <<>> /\ p.path \in Paths
      /\ p.servers \in Registries
  BY <1>1 DEF ShellsTyped, Processes
<1>3. item \in Items /\ more \in Seq(Items)
  BY <1>2, WorkFacts
<1>4. item.name \in Names /\ item.entry \in Entries \cup {Gone}
  BY <1>3 DEF Items
<1>5. new \in Registries
  BY <1>2, <1>4, RegistryFacts
<1>6. next \in Processes /\ (next.at # "idle" => next.todo # <<>>)
  <2>1. CASE more = <<>>
    BY <2>1, QuietTyped DEF Quiet
  <2>2. CASE more # <<>>
    <3> DEFINE on == [p EXCEPT !.at = "reading", !.todo = more]
    <3>1. on \in Processes /\ on.todo = more
      BY <1>2, <1>3 DEF Processes
    <3>2. QED BY <2>2, <3>1
  <2>3. QED BY <2>1, <2>2
<1> HIDE DEF new, next, item
<1>7. ShellsTyped'
  BY <1>1, <1>6, ShellTyped
<1>8. entries' \in [Paths -> [intact : BOOLEAN, servers : Registries]]
  BY <1>1, <1>2, <1>5 DEF FilesTypeOK
<1>9. told' \in [Paths -> [Names -> Entries \cup {Unsaid, Gone}]]
  BY <1>1, <1>2, <1>4 DEF FilesTypeOK
<1>10. FilesTypeOK'
  BY <1>1, <1>7, <1>8, <1>9 DEF FilesTypeOK, ShellsTyped, Processes
<1>11. QED BY <1>2, <1>3, <1>7, <1>10 DEF item

LEMMA FilesTypes == FilesTypeOK /\ ShellsTyped /\ [FilesNext]_filesVars => FilesTypeOK' /\ ShellsTyped'
<1> SUFFICES ASSUME FilesTypeOK, ShellsTyped, [FilesNext]_filesVars
             PROVE  FilesTypeOK' /\ ShellsTyped'
  OBVIOUS
<1>1. CASE UNCHANGED filesVars
  BY <1>1 DEF filesVars, FilesTypeOK, ShellsTyped
<1>2. ASSUME NEW s \in Shells,
             \/ \E n \in Names, e \in Entries, scope \in Paths : Add(s, n, e, scope)
             \/ \E e \in Entries, scope \in Paths : Import(s, e, scope)
             \/ \E n \in Names, scope \in Paths \cup {"any"} : RemoveServer(s, n, scope)
      PROVE  FilesTypeOK' /\ ShellsTyped'
  BY <1>2, VerbRuns, RunsTyped
<1>3. ASSUME NEW s \in Shells, NEW n \in Names, Get(s, n) PROVE FilesTypeOK' /\ ShellsTyped'
  <2> DEFINE list == <<Item(n, Gone)>>
             p == [Quiet EXCEPT !.at = "reading", !.verb = "get", !.todo = list]
  <2>1. list \in Seq(Items) /\ list # <<>>
    <3>1. Item(n, Gone) \in Items
      BY DEF Item, Items
    <3>2. QED BY <3>1
  <2>2. /\ shell' = [shell EXCEPT ![s] = p] /\ UNCHANGED <<entries, told, mixed, kills>>
        /\ verbs' = verbs + 1 /\ verbs < MaxVerbs
    BY <1>3 DEF Get
  <2> HIDE DEF list
  <2>3. p \in Processes /\ p.todo # <<>>
    BY <2>1, QuietTyped DEF Quiet, Processes
  <2> HIDE DEF p
  <2>4. ShellsTyped'
    BY <2>2, <2>3, ShellTyped
  <2>5. verbs' \in 0 .. MaxVerbs
    <3>1. MaxVerbs \in Nat /\ verbs \in 0 .. MaxVerbs
      BY FilesAssumption DEF FilesTypeOK, FilesAssumption
    <3>2. QED BY <2>2, <3>1, OneLess
  <2>6. QED BY <2>2, <2>4, <2>5 DEF FilesTypeOK, ShellsTyped, Processes
<1>4. ASSUME NEW s \in Shells, ReadFails(s) \/ ShellKilled(s) PROVE FilesTypeOK' /\ ShellsTyped'
  <2>1. shell' = [shell EXCEPT ![s] = Quiet] /\ UNCHANGED <<entries, told, verbs>>
    BY <1>4 DEF ReadFails, ShellKilled
  <2>2. ShellsTyped'
    BY <2>1, QuietTyped, ShellTyped DEF Quiet
  <2>3. mixed' \subseteq Paths
    BY <1>4 DEF ReadFails, ShellKilled, FilesTypeOK
  <2>4. kills' = kills \/ (kills' = kills + 1 /\ kills < MaxKills)
    BY <1>4 DEF ReadFails, ShellKilled
  <2>5. kills' \in 0 .. MaxKills
    <3>1. MaxKills \in Nat /\ kills \in 0 .. MaxKills
      BY FilesAssumption DEF FilesTypeOK, FilesAssumption
    <3>2. QED BY <2>4, <3>1
  <2>6. QED BY <2>1, <2>2, <2>3, <2>5 DEF FilesTypeOK, ShellsTyped, Processes
<1>5. ASSUME NEW s \in Shells, Truncates(s) PROVE FilesTypeOK' /\ ShellsTyped'
  <2>1. /\ shell[s].at = "changing" /\ shell' = [shell EXCEPT ![s].at = "writing"]
        /\ entries' = [entries EXCEPT ![shell[s].path] = Torn] /\ UNCHANGED <<told, verbs, kills>>
    BY <1>5 DEF Truncates
  <2>2. shell[s] \in Processes /\ shell[s].path \in Paths
    BY DEF ShellsTyped, Processes
  <2>3. ShellsTyped'
    <3> DEFINE p == [shell[s] EXCEPT !.at = "writing"]
    <3>1. shell' = [shell EXCEPT ![s] = p]
      BY <2>1 DEF ShellsTyped
    <3>2. p \in Processes /\ p.todo = shell[s].todo /\ shell[s].todo # <<>>
      BY <2>1, <2>2 DEF ShellsTyped, Processes
    <3>3. QED BY <3>1, <3>2, ShellTyped
  <2>4. entries' \in [Paths -> [intact : BOOLEAN, servers : Registries]]
    BY <2>1, <2>2, RegistryFacts DEF FilesTypeOK, Torn
  <2>5. mixed' \subseteq Paths
    BY <1>5, <2>2 DEF Truncates, FilesTypeOK
  <2>6. QED BY <2>1, <2>3, <2>4, <2>5 DEF FilesTypeOK, ShellsTyped, Processes
<1>6. QED BY <1>1, <1>2, <1>3, <1>4, <1>5, ReadsTyped, WritesTyped DEF FilesNext

-----------------------------------------------------------------------------
(* The registry of servers: what was said is found                         *)

\* A file that a step leaves alone stays as safe as it was, when what is said of it is at most
\* forgotten and no process gets to it.
LEMMA LeftAlone ==
  ASSUME NEW path \in Paths, SafeAt(path), entries'[path] = entries[path],
         \A n \in Names : told'[path][n] = told[path][n] \/ told'[path][n] = Unsaid,
         \A t \in Shells :
           \/ shell'[t] = shell[t]
           \/ shell'[t].path # path \/ shell'[t].at \notin {"changing", "writing"}
  PROVE  SafeAt(path)'
<1>1. Unsaid \notin Entries /\ Unsaid # Gone
  BY FilesAssumption DEF FilesAssumption, Unsaid, Gone
<1>2. \A servers : Agrees(told[path], servers) => Agrees(told'[path], servers)
  BY <1>1 DEF Agrees
<1>3. entries'[path].intact => Agrees(told'[path], entries'[path].servers)
  BY <1>2 DEF SafeAt
<1>4. ASSUME NEW s \in Shells, shell'[s].path = path PROVE KeptBy(s, path)'
  <2>1. CASE shell'[s].at \notin {"changing", "writing"}
    BY <2>1 DEF KeptBy
  <2>2. CASE shell'[s] = shell[s]
    <3>1. KeptBy(s, path)
      BY <1>4, <2>2 DEF SafeAt
    <3>2. \A t \in Shells : (Busy(t) => shell[t].path # path) => (Busy(t)' => shell'[t].path # path)
      BY DEF Busy
    <3>3. QED BY <1>2, <2>2, <3>1, <3>2 DEF KeptBy
  <2>3. QED BY <1>4, <2>1, <2>2
<1>5. QED BY <1>3, <1>4 DEF SafeAt

LEMMA FileStep ==
  ASSUME FilesTypeOK, ShellsTyped, FileInv, [FilesNext]_filesVars
  PROVE  FileInv'
<1> SUFFICES ASSUME NEW path \in Paths, path \notin mixed' PROVE SafeAt(path)'
  BY DEF FileInv
<1>0. SafeAt(path) \/ path \in mixed
  BY DEF FileInv
<1>1. CASE UNCHANGED filesVars
  BY <1>0, <1>1 DEF filesVars, SafeAt, KeptBy, Busy
<1>2. ASSUME NEW s \in Shells, NEW verb, NEW todo, NEW q, Runs(s, verb, todo, q) PROVE SafeAt(path)'
  <2>1. /\ path \notin mixed /\ entries'[path] = entries[path]
        /\ \A n \in Names : told'[path][n] \in {Unsaid, told[path][n]}
    BY <1>2 DEF Runs
  <2>2. \A t \in Shells : shell'[t] = shell[t] \/ shell'[t].at = "reading"
    BY <1>2 DEF Runs, Quiet, ShellsTyped
  <2>3. QED BY <1>0, <2>1, <2>2, LeftAlone
<1>3. ASSUME NEW s \in Shells, NEW n \in Names, Get(s, n) PROVE SafeAt(path)'
  <2>1. path \notin mixed /\ entries'[path] = entries[path] /\ told' = told
    BY <1>3 DEF Get
  <2>2. \A t \in Shells : shell'[t] = shell[t] \/ shell'[t].at = "reading"
    BY <1>3 DEF Get, Quiet, ShellsTyped
  <2>3. QED BY <1>0, <2>1, <2>2, LeftAlone
<1>4. ASSUME NEW s \in Shells, ReadFails(s) \/ ShellKilled(s) PROVE SafeAt(path)'
  <2>1. path \notin mixed /\ entries' = entries /\ told' = told
    BY <1>4 DEF ReadFails, ShellKilled
  <2>2. \A t \in Shells : shell'[t] = shell[t] \/ shell'[t].at = "idle"
    BY <1>4 DEF ReadFails, ShellKilled, Quiet, ShellsTyped
  <2>3. QED BY <1>0, <2>1, <2>2, LeftAlone
<1>5. ASSUME NEW s \in Shells, Reads(s) PROVE SafeAt(path)'
  <2> DEFINE p == shell[s]
  <2>1. path \notin mixed /\ entries' = entries /\ told' = told /\ p.at = "reading"
        /\ entries[p.path].intact /\ shell \in [Shells -> Processes]
    BY <1>5 DEF Reads, ShellsTyped
  <2>2. CASE shell' = [shell EXCEPT ![s].at = "changing", ![s].servers = entries[p.path].servers]
    <3>1. /\ \A t \in Shells \ {s} : shell'[t] = shell[t]
          /\ shell'[s].at = "changing" /\ shell'[s].path = p.path
          /\ shell'[s].servers = entries[p.path].servers
      BY <2>1, <2>2 DEF Processes
    <3>2. CASE p.path # path
      BY <1>0, <2>1, <3>1, <3>2, LeftAlone
    <3>3. CASE p.path = path
      <4>1. \A t \in Shells : shell[t].path = path => shell[t].at # "writing"
        BY <1>0, <2>1, <3>3 DEF SafeAt, KeptBy
      <4>2. \A t \in Shells : shell'[t].path = path => KeptBy(t, path)'
        BY <1>0, <2>1, <3>1, <3>3, <4>1 DEF SafeAt, KeptBy
      <4>3. QED BY <1>0, <2>1, <4>2 DEF SafeAt
    <3>4. QED BY <3>2, <3>3
  <2>3. CASE shell' # [shell EXCEPT ![s].at = "changing", ![s].servers = entries[p.path].servers]
    <3>1. \A t \in Shells : shell'[t] = shell[t] \/ shell'[t].at \in {"idle", "reading"}
      <4> DEFINE n == Head(p.todo).name
                 servers == entries[p.path].servers
                 all == Merge(p.servers, servers)
                 got == IF n \in DOMAIN all THEN all[n] ELSE Gone
                 on == [p EXCEPT !.path = "project", !.servers = servers]
      <4>1. /\ p \in Processes
            /\ \/ shell' = [shell EXCEPT ![s] = on]
               \/ shell' = [shell EXCEPT ![s] = [Quiet EXCEPT !.got = got]]
               \/ shell' = [shell EXCEPT ![s].path = "project"]
               \/ shell' = [shell EXCEPT ![s] = Quiet]
        BY <1>5, <2>3 DEF Reads, ShellsTyped
      <4>2. [Quiet EXCEPT !.got = got].at = "idle" /\ Quiet.at = "idle" /\ on.at = "reading"
        BY <2>1, <4>1 DEF Quiet, Processes
      <4> HIDE DEF got, on
      <4>3. \A t \in Shells \ {s} : shell'[t] = shell[t]
        BY <2>1, <4>1
      <4>4. shell'[s].at \in {"idle", "reading"}
        <5>1. shell' = [shell EXCEPT ![s].path = "project"] => shell'[s].at = p.at
          BY <2>1, <4>1, ZenonT(30) DEF Processes
        <5>2. shell' # [shell EXCEPT ![s].path = "project"] => shell'[s].at \in {"idle", "reading"}
          BY <2>1, <4>1, <4>2
        <5>3. QED BY <2>1, <5>1, <5>2
      <4>5. QED BY <4>3, <4>4
    <3>2. QED BY <1>0, <2>1, <3>1, LeftAlone
  <2>4. QED BY <2>2, <2>3
<1>6. ASSUME NEW s \in Shells, Truncates(s) PROVE SafeAt(path)'
  <2> DEFINE p == shell[s]
  <2>1. /\ path \notin mixed /\ told' = told /\ p.at = "changing" /\ p \in Processes
        /\ shell' = [shell EXCEPT ![s].at = "writing"] /\ shell \in [Shells -> Processes]
        /\ entries' = [entries EXCEPT ![p.path] = Torn]
    BY <1>6 DEF Truncates, ShellsTyped
  <2>2. /\ \A t \in Shells \ {s} : shell'[t] = shell[t]
        /\ shell'[s].at = "writing" /\ shell'[s].path = p.path /\ shell'[s].servers = p.servers
    BY <2>1 DEF Processes
  <2>3. CASE p.path # path
    BY <1>0, <2>1, <2>2, <2>3, LeftAlone DEF FilesTypeOK
  <2>4. CASE p.path = path
    <3>1. \A t \in Shells \ {s} : Busy(t) => shell[t].path # path
      BY <1>6, <2>1, <2>4 DEF Truncates
    <3>2. entries'[path] = Torn
      BY <2>1, <2>4 DEF FilesTypeOK
    <3>3. Agrees(told[path], p.servers)
      BY <1>0, <2>1, <2>4 DEF SafeAt, KeptBy
    <3>4. \A t \in Shells \ {s} : shell'[t].path = path => KeptBy(t, path)'
      BY <2>2, <3>1 DEF Busy, KeptBy
    <3>5. KeptBy(s, path)'
      BY <2>1, <2>2, <3>1, <3>2, <3>3 DEF KeptBy, Busy, Torn
    <3>6. QED BY <3>2, <3>4, <3>5 DEF SafeAt, Torn
  <2>5. QED BY <2>3, <2>4
<1>7. ASSUME NEW s \in Shells, Writes(s) PROVE SafeAt(path)'
  <2> DEFINE p == shell[s]
             item == Head(p.todo)
             new == IF item.entry = Gone THEN Without(p.servers, item.name)
                                         ELSE With(p.servers, item.name, item.entry)
  <2>1. /\ path \notin mixed /\ p.at = "writing"
        /\ entries' = [entries EXCEPT ![p.path] = [intact |-> TRUE, servers |-> new]]
        /\ told' = [told EXCEPT ![p.path][item.name] = item.entry]
    BY <1>7 DEF Writes
  <2>2. p.path \in Paths /\ item.name \in Names /\ item.entry \in Entries \cup {Gone}
    BY <1>7, WritesTyped DEF Items
  <2>3. /\ \A t \in Shells \ {s} : shell'[t] = shell[t]
        /\ shell'[s].at \in {"idle", "reading"}
    <3> DEFINE more == Tail(p.todo)
               on == [p EXCEPT !.at = "reading", !.todo = more]
               next == IF more = <<>> THEN Quiet ELSE on
    <3>1. shell' = [shell EXCEPT ![s] = next] /\ p \in Processes /\ shell \in [Shells -> Processes]
      BY <1>7 DEF Writes, ShellsTyped
    <3>2. on.at = "reading" /\ Quiet.at = "idle"
      BY <3>1 DEF Quiet, Processes
    <3>3. next.at \in {"idle", "reading"}
      BY <3>2
    <3> HIDE DEF next
    <3>4. QED BY <3>1, <3>3
  <2> HIDE DEF item, new
  <2>4. CASE p.path # path
    <3>1. entries'[path] = entries[path] /\ told'[path] = told[path]
      BY <2>1, <2>4 DEF FilesTypeOK
    <3>2. QED BY <1>0, <2>1, <2>3, <3>1, LeftAlone
  <2>5. CASE p.path = path
    <3>1. /\ Agrees(told[path], p.servers)
          /\ \A t \in Shells \ {s} : Busy(t) => shell[t].path # path
      BY <1>0, <2>1, <2>5 DEF SafeAt, KeptBy
    <3>2. /\ entries'[path] = [intact |-> TRUE, servers |-> new]
          /\ told'[path][item.name] = item.entry
          /\ \A n \in Names \ {item.name} : told'[path][n] = told[path][n]
      BY <2>1, <2>2, <2>5 DEF FilesTypeOK
    <3>3. Agrees(told'[path], new)
      BY <2>2, <3>1, <3>2, FilesAssumption DEF Agrees, new, With, Without, FilesAssumption
    <3>4. \A t \in Shells : shell'[t].path = path => shell'[t].at \notin {"changing", "writing"}
      BY <2>3, <3>1 DEF Busy
    <3>5. QED BY <3>2, <3>3, <3>4 DEF SafeAt, KeptBy
  <2>6. QED BY <2>4, <2>5
<1>8. QED BY <1>1, <1>2, <1>3, <1>4, <1>5, <1>6, <1>7, VerbRuns DEF FilesNext

\* The files and the processes of the registry keep their types; a file that parses has servers
\* with entries and nothing else (registry.ts).
THEOREM FilesTypeCorrect == FilesSpec => []FilesTypeOK
<1>1. FilesInit => FilesTypeOK /\ ShellsTyped
  BY RegistryFacts, QuietTyped, FilesAssumption
     DEF FilesInit, FilesTypeOK, ShellsTyped, NoServers, Quiet, Paths, FilesAssumption
<1>2. QED BY <1>1, FilesTypes, PTL DEF FilesSpec

\* What the last command to report on a name has said of it is in the file, whatever was done to
\* other names and to the other file since, unless two commands, or a kill, have been between
\* the read and the write of that file (registry.ts:149-173).
THEOREM WhatWasToldIsFound == FilesSpec => []ToldIsFound
<1>1. FilesInit => FilesTypeOK /\ ShellsTyped /\ FileInv
  <2> SUFFICES ASSUME FilesInit PROVE FilesTypeOK /\ ShellsTyped /\ FileInv
    OBVIOUS
  <2>1. FilesTypeOK /\ ShellsTyped
    BY RegistryFacts, QuietTyped, FilesAssumption
       DEF FilesInit, FilesTypeOK, ShellsTyped, NoServers, Quiet, Paths, FilesAssumption
  <2>2. Unsaid \notin Entries /\ Unsaid # Gone
    BY FilesAssumption DEF FilesAssumption, Unsaid, Gone
  <2>3. FileInv
    BY <2>2 DEF FilesInit, FileInv, SafeAt, KeptBy, Agrees, Quiet
  <2>4. QED BY <2>1, <2>3
<1>2. FileInv => ToldIsFound
  BY DEF FileInv, SafeAt, Agrees, ToldIsFound
<1>3. QED BY <1>1, <1>2, FilesTypes, FileStep, PTL DEF FilesSpec

-----------------------------------------------------------------------------
(* The command line: the tokens that are passed on                         *)

Tokens == {line[i] : i \in DOMAIN line}
LineNames == {line[i].name : i \in DOMAIN line}

LEMMA LineFacts ==
  ASSUME line \in Lines
  PROVE  /\ line \in Seq(Tokens) /\ Len(line) \in Nat /\ DOMAIN line = 1 .. Len(line)
         /\ \A i \in DOMAIN line : line[i].name # Nobody
<1>1. line \in Seq(Tokens) /\ \A i \in DOMAIN line : line[i].name # Nobody
  BY LineAssumption DEF Tokens, LineAssumption
<1>2. QED BY <1>1, LenProperties

\* A set of indexes that is not empty has a first element.
LEMMA FirstIndex ==
  ASSUME NEW S, S \subseteq Nat, S # {}
  PROVE  \E x \in S : \A y \in S : x <= y
<1> DEFINE Less == {pair \in Nat \X Nat : pair[1] < pair[2]}
<1>1. IsWellFoundedOn(Less, Nat)
  BY NatLessThanWellFounded DEF OpToRel
<1>2. PICK x \in S : \A y \in S : ~(<<y, x>> \in Less)
  <2> HIDE DEF Less
  <2>1. QED BY <1>1, WFMin
<1>3. \A y \in S : x <= y
  <2>1. ASSUME NEW y \in S, y < x PROVE FALSE
    <3>1. <<y, x>> \in Nat \X Nat /\ <<y, x>>[1] = y /\ <<y, x>>[2] = x
      OBVIOUS
    <3>2. <<y, x>> \in Less
      BY <2>1, <3>1
    <3>3. QED BY <1>2, <3>2
  <2>2. \A y \in S : x \in Nat /\ y \in Nat
    OBVIOUS
  <2>3. QED BY <2>1, <2>2
<1>4. QED BY <1>3

\* The loop of parseClient() is defined, token by token.
LEMMA ClientSteps ==
  ASSUME line \in Lines
  PROVE  /\ ClientAfter[0] = [own |-> {}, wants |-> Nobody, rest |-> <<>>]
         /\ \A n \in 0 .. Len(line) - 1 : ClientAfter[n + 1] = TakeOwn(ClientAfter[n], line[n + 1])
<1> DEFINE Loops(n, g) ==
             g = [m \in 0 .. n |-> IF m = 0 THEN [own |-> {}, wants |-> Nobody, rest |-> <<>>]
                                            ELSE TakeOwn(g[m - 1], line[m])]
           Stuck == {n \in Nat : ~ \E g : Loops(n, g)}
<1>1. ASSUME NEW n \in Nat, NEW g, Loops(n, g) PROVE \E h : Loops(n + 1, h)
  <2> DEFINE h == [m \in 0 .. n + 1 |-> IF m <= n THEN g[m] ELSE TakeOwn(g[n], line[n + 1])]
  <2>1. \A m \in 0 .. n + 1 : m # 0 => m - 1 \in 0 .. n /\ h[m - 1] = g[m - 1]
    OBVIOUS
  <2>2. ASSUME NEW m \in 0 .. n + 1
        PROVE  h[m] = IF m = 0 THEN [own |-> {}, wants |-> Nobody, rest |-> <<>>]
                               ELSE TakeOwn(h[m - 1], line[m])
    <3>1. CASE m = n + 1
      <4>1. h[m] = TakeOwn(g[n], line[n + 1]) /\ m - 1 = n
        BY <3>1
      <4>2. QED BY <2>1, <3>1, <4>1
    <3>2. CASE m \in 0 .. n
      <4>1. h[m] = g[m]
        BY <3>2
      <4>2. QED BY <1>1, <2>1, <3>2, <4>1
    <3>3. QED BY <3>1, <3>2
  <2>3. Loops(n + 1, h)
    <3> HIDE DEF h
    <3>1. h = [m \in 0 .. n + 1 |-> h[m]]
      BY DEF h
    <3>2. QED BY <2>2, <3>1
  <2>4. QED BY <2>3
<1>2. \E g : Loops(0, g)
  <2>1. Loops(0, [m \in 0 .. 0 |-> [own |-> {}, wants |-> Nobody, rest |-> <<>>]])
    OBVIOUS
  <2>2. QED BY <2>1
<1>3. Stuck = {}
  <2> SUFFICES ASSUME Stuck # {} PROVE FALSE
    OBVIOUS
  <2>1. PICK n \in Stuck : \A m \in Stuck : n <= m
    BY FirstIndex
  <2>2. n # 0
    BY <1>2
  <2>3. n - 1 \in Nat /\ ~(n <= n - 1) /\ (n - 1) + 1 = n
    BY <2>2
  <2>4. PICK g : Loops(n - 1, g)
    BY <2>1, <2>3
  <2>5. \E h : Loops((n - 1) + 1, h)
    <3> HIDE DEF Loops
    <3>1. QED BY <1>1, <2>3, <2>4
  <2>6. QED BY <2>3, <2>5
<1>4. Len(line) \in Nat
  BY LineFacts
<1>5. PICK g : Loops(Len(line), g)
  BY <1>3, <1>4
<1>6. ClientAfter = [m \in 0 .. Len(line) |->
                       IF m = 0 THEN [own |-> {}, wants |-> Nobody, rest |-> <<>>]
                                ELSE TakeOwn(ClientAfter[m - 1], line[m])]
  BY <1>5 DEF ClientAfter
<1>7. ASSUME NEW n \in 0 .. Len(line) - 1
      PROVE  n + 1 \in 0 .. Len(line) /\ n + 1 # 0 /\ (n + 1) - 1 = n
  BY <1>4
<1>8. ClientAfter[0] = [own |-> {}, wants |-> Nobody, rest |-> <<>>]
  BY <1>4, <1>6
<1>9. ASSUME NEW n \in 0 .. Len(line) - 1
      PROVE  ClientAfter[n + 1] = TakeOwn(ClientAfter[n], line[n + 1])
  <2> HIDE DEF Loops, Stuck
  <2>1. QED BY <1>6, <1>7
<1>10. QED BY <1>8, <1>9
\* So is the loop of parseCallArgs().
LEMMA StreamSteps ==
  ASSUME NEW tokens, Len(tokens) \in Nat
  PROVE  /\ StreamAfter(tokens)[0] = [args |-> <<>>, key |-> Nobody]
         /\ \A n \in 0 .. Len(tokens) - 1 : StreamAfter(tokens)[n + 1] = TakeArg(StreamAfter(tokens)[n], tokens[n + 1])
<1> DEFINE Loops(n, g) ==
             g = [m \in 0 .. n |-> IF m = 0 THEN [args |-> <<>>, key |-> Nobody]
                                            ELSE TakeArg(g[m - 1], tokens[m])]
           Stuck == {n \in Nat : ~ \E g : Loops(n, g)}
<1>1. ASSUME NEW n \in Nat, NEW g, Loops(n, g) PROVE \E h : Loops(n + 1, h)
  <2> DEFINE h == [m \in 0 .. n + 1 |-> IF m <= n THEN g[m] ELSE TakeArg(g[n], tokens[n + 1])]
  <2>1. \A m \in 0 .. n + 1 : m # 0 => m - 1 \in 0 .. n /\ h[m - 1] = g[m - 1]
    OBVIOUS
  <2>2. ASSUME NEW m \in 0 .. n + 1
        PROVE  h[m] = IF m = 0 THEN [args |-> <<>>, key |-> Nobody]
                               ELSE TakeArg(h[m - 1], tokens[m])
    <3>1. CASE m = n + 1
      <4>1. h[m] = TakeArg(g[n], tokens[n + 1]) /\ m - 1 = n
        BY <3>1
      <4>2. QED BY <2>1, <3>1, <4>1
    <3>2. CASE m \in 0 .. n
      <4>1. h[m] = g[m]
        BY <3>2
      <4>2. QED BY <1>1, <2>1, <3>2, <4>1
    <3>3. QED BY <3>1, <3>2
  <2>3. Loops(n + 1, h)
    <3> HIDE DEF h
    <3>1. h = [m \in 0 .. n + 1 |-> h[m]]
      BY DEF h
    <3>2. QED BY <2>2, <3>1
  <2>4. QED BY <2>3
<1>2. \E g : Loops(0, g)
  <2>1. Loops(0, [m \in 0 .. 0 |-> [args |-> <<>>, key |-> Nobody]])
    OBVIOUS
  <2>2. QED BY <2>1
<1>3. Stuck = {}
  <2> SUFFICES ASSUME Stuck # {} PROVE FALSE
    OBVIOUS
  <2>1. PICK n \in Stuck : \A m \in Stuck : n <= m
    BY FirstIndex
  <2>2. n # 0
    BY <1>2
  <2>3. n - 1 \in Nat /\ ~(n <= n - 1) /\ (n - 1) + 1 = n
    BY <2>2
  <2>4. PICK g : Loops(n - 1, g)
    BY <2>1, <2>3
  <2>5. \E h : Loops((n - 1) + 1, h)
    <3> HIDE DEF Loops
    <3>1. QED BY <1>1, <2>3, <2>4
  <2>6. QED BY <2>3, <2>5
<1>4. PICK g : Loops(Len(tokens), g)
  BY <1>3
<1>5. StreamAfter(tokens) = [m \in 0 .. Len(tokens) |->
                       IF m = 0 THEN [args |-> <<>>, key |-> Nobody]
                                ELSE TakeArg(StreamAfter(tokens)[m - 1], tokens[m])]
  BY <1>4 DEF StreamAfter
<1>6. ASSUME NEW n \in 0 .. Len(tokens) - 1
      PROVE  n + 1 \in 0 .. Len(tokens) /\ n + 1 # 0 /\ (n + 1) - 1 = n
  OBVIOUS
<1>7. StreamAfter(tokens)[0] = [args |-> <<>>, key |-> Nobody]
  BY <1>5
<1>8. ASSUME NEW n \in 0 .. Len(tokens) - 1
      PROVE  StreamAfter(tokens)[n + 1] = TakeArg(StreamAfter(tokens)[n], tokens[n + 1])
  <2> HIDE DEF Loops, Stuck
  <2>1. QED BY <1>5, <1>6
<1>9. QED BY <1>7, <1>8
\* How many tokens are passed on, up to one.
Passed(n) == Cardinality({j \in Mine : j <= n})

LEMMA PassedFacts ==
  ASSUME line \in Lines
  PROVE  /\ Passed(0) = 0
         /\ \A n \in 0 .. Len(line) : Passed(n) \in Nat
         /\ \A n \in 0 .. Len(line) - 1 :
              Passed(n + 1) = IF n + 1 \in Mine THEN Passed(n) + 1 ELSE Passed(n)
<1> DEFINE P(n) == {j \in Mine : j <= n}
<1>1. Len(line) \in Nat /\ DOMAIN line = 1 .. Len(line)
  BY LineFacts
<1>2. IsFiniteSet(Mine) /\ Mine \subseteq 1 .. Len(line)
  <2>1. IsFiniteSet(1 .. Len(line))
    BY <1>1, FS_Interval
  <2>2. Mine \subseteq 1 .. Len(line)
    BY <1>1 DEF Mine
  <2>3. QED BY <2>1, <2>2, FS_Subset
<1>3. \A n \in 0 .. Len(line) : IsFiniteSet(P(n))
  <2> SUFFICES ASSUME NEW n \in 0 .. Len(line) PROVE IsFiniteSet(P(n))
    OBVIOUS
  <2>1. P(n) \subseteq Mine
    OBVIOUS
  <2> HIDE DEF P
  <2>2. QED BY <1>2, <2>1, FS_Subset
<1>4. Passed(0) = 0
  <2>1. P(0) = {}
    <3>1. \A j \in Mine : ~(j <= 0)
      BY <1>1, <1>2
    <3>2. QED BY <3>1
  <2>2. Passed(0) = Cardinality(P(0))
    BY DEF Passed
  <2> HIDE DEF P
  <2>3. QED BY <2>1, <2>2, FS_EmptySet
<1>5. \A n \in 0 .. Len(line) : Passed(n) \in Nat
  <2> SUFFICES ASSUME NEW n \in 0 .. Len(line) PROVE Cardinality(P(n)) \in Nat
    BY DEF Passed
  <2>1. IsFiniteSet(P(n))
    BY <1>3
  <2> HIDE DEF P
  <2>2. QED BY <2>1, FS_CardinalityType
<1>6. ASSUME NEW n \in 0 .. Len(line) - 1
      PROVE  Passed(n + 1) = IF n + 1 \in Mine THEN Passed(n) + 1 ELSE Passed(n)
  <2>1. n \in 0 .. Len(line) /\ ~(n + 1 <= n)
    BY <1>1
  <2>2. \A j \in Mine : j <= n + 1 <=> j <= n \/ j = n + 1
    BY <1>1, <1>2
  <2>3. CASE n + 1 \in Mine
    <3>1. P(n + 1) = P(n) \cup {n + 1} /\ n + 1 \notin P(n)
      <4>1. \A j : j \in P(n + 1) <=> j \in P(n) \cup {n + 1}
        BY <2>1, <2>3, <2>2
      <4> HIDE DEF P
      <4>2. P(n + 1) = P(n) \cup {n + 1}
        BY <4>1
      <4>3. QED BY <2>1, <4>2 DEF P
    <3>2. IsFiniteSet(P(n))
      BY <1>3, <2>1
    <3> HIDE DEF P
    <3>3. Cardinality(P(n + 1)) = Cardinality(P(n)) + 1
      BY <3>1, <3>2, FS_AddElement
    <3>4. QED BY <2>3, <3>3 DEF P, Passed
  <2>4. CASE n + 1 \notin Mine
    <3>1. P(n + 1) = P(n)
      BY <2>4, <2>2
    <3>2. QED BY <2>4, <3>1 DEF Passed
  <2>5. QED BY <2>3, <2>4
<1>7. QED BY <1>4, <1>5, <1>6

\* Numbering the tokens passed on: before a token that is passed on there is one fewer.
LEMMA PassedBefore ==
  ASSUME line \in Lines, NEW i \in Mine
  PROVE  /\ i \in 1 .. Len(line) /\ i - 1 \in 0 .. Len(line) - 1
         /\ Passed(i) = Passed(i - 1) + 1 /\ Passed(i - 1) \in Nat
         /\ Cardinality({j \in Mine : j < i}) = Passed(i - 1)
<1>1. Len(line) \in Nat /\ Mine \subseteq 1 .. Len(line)
  BY LineFacts DEF Mine
<1>2. i \in 1 .. Len(line) /\ i - 1 \in 0 .. Len(line) - 1 /\ (i - 1) + 1 = i
  BY <1>1
<1>3. {j \in Mine : j < i} = {j \in Mine : j <= i - 1}
  <2>1. \A j \in Mine : j \in Nat /\ (j < i <=> j <= i - 1)
    BY <1>1, <1>2
  <2>2. QED BY <2>1
<1>4. Passed(i) = Passed(i - 1) + 1 /\ Passed(i - 1) \in Nat
  <2>1. i - 1 \in 0 .. Len(line)
    BY <1>1, <1>2
  <2>2. Passed((i - 1) + 1) = Passed(i - 1) + 1
    BY <1>2, PassedFacts
  <2>3. QED BY <1>2, <2>1, <2>2, PassedFacts
<1>5. QED BY <1>2, <1>3, <1>4 DEF Passed

\* What parseClient() has after n tokens of a clear line.
ValueFlagAt(n) == n \in DOMAIN line /\ IsFlag(line[n]) /\ line[n].name \in ValueFlags

ReadTo(n) ==
  /\ ClientAfter[n] \in
       [own : SUBSET LineNames, wants : LineNames \cup {Nobody}, rest : Seq(Tokens)]
  /\ ClientAfter[n].wants = IF ValueFlagAt(n) THEN line[n].name ELSE Nobody
  /\ Len(ClientAfter[n].rest) = Passed(n)
  /\ \A i \in Mine : i <= n =>
       Passed(i) \in 1 .. Passed(n) /\ ClientAfter[n].rest[Passed(i)] = line[i]
  /\ \A k \in 1 .. Passed(n) : \E i \in Mine : i <= n /\ Passed(i) = k

LEMMA ReadStep ==
  ASSUME line \in Lines, Clear, NEW n \in 0 .. Len(line) - 1, ReadTo(n)
  PROVE  ReadTo(n + 1)
<1> DEFINE p == ClientAfter[n]
           q == ClientAfter[n + 1]
           t == line[n + 1]
<1>1. /\ Len(line) \in Nat /\ DOMAIN line = 1 .. Len(line) /\ n \in Nat
      /\ n + 1 \in DOMAIN line /\ (n + 1) - 1 = n
      /\ t \in Tokens /\ t.name \in LineNames /\ t.name # Nobody
  BY LineFacts DEF Tokens, LineNames
<1>2. q = TakeOwn(p, t)
  BY ClientSteps
<1>3. /\ p \in [own : SUBSET LineNames, wants : LineNames \cup {Nobody}, rest : Seq(Tokens)]
      /\ p.wants = IF ValueFlagAt(n) THEN line[n].name ELSE Nobody
      /\ Len(p.rest) = Passed(n) /\ Passed(n) \in Nat
      /\ \A i \in Mine : i <= n => Passed(i) \in 1 .. Passed(n) /\ p.rest[Passed(i)] = line[i]
      /\ \A k \in 1 .. Passed(n) : \E i \in Mine : i <= n /\ Passed(i) = k
  <2>1. Passed(n) \in Nat
    <3>1. n \in 0 .. Len(line)
      BY <1>1
    <3>2. QED BY <3>1, PassedFacts
  <2>2. QED BY <2>1 DEF ReadTo
<1>4. /\ n + 1 \in Mine <=> ~(ValueFlagAt(n) \/ (IsFlag(t) /\ t.name \in BoolFlags \cup ValueFlags))
      /\ ValueFlagAt(n + 1) <=> IsFlag(t) /\ t.name \in ValueFlags
      /\ p.wants # Nobody <=> ValueFlagAt(n)
      /\ ValueFlagAt(n) => ~IsFlag(t)
  <2>1. n + 1 \in Mine <=> ~(ValueFlagAt(n) \/ (IsFlag(t) /\ t.name \in BoolFlags \cup ValueFlags))
    BY <1>1 DEF Mine, OwnAt, ValueFlagAt
  <2>2. ValueFlagAt(n + 1) <=> IsFlag(t) /\ t.name \in ValueFlags
    BY <1>1 DEF ValueFlagAt
  <2>3. p.wants # Nobody <=> ValueFlagAt(n)
    BY <1>3, LineFacts DEF ValueFlagAt
  <2>4. ValueFlagAt(n) => ~IsFlag(t)
    BY DEF ValueFlagAt, Clear
  <2>5. QED BY <2>1, <2>2, <2>3, <2>4
<1>5. Passed(n + 1) = IF n + 1 \in Mine THEN Passed(n) + 1 ELSE Passed(n)
  BY PassedFacts
<1>6. \A i \in Mine : i \in Nat /\ (i <= n + 1 <=> i <= n \/ i = n + 1)
  BY <1>1 DEF Mine
<1> HIDE DEF p, q, t
<1>7. CASE n + 1 \notin Mine
  <2>1. q.rest = p.rest
    BY <1>2, <1>3, <1>4, <1>7 DEF TakeOwn
  <2>2. q \in [own : SUBSET LineNames, wants : LineNames \cup {Nobody}, rest : Seq(Tokens)]
    BY <1>1, <1>2, <1>3, <1>4, <1>7 DEF TakeOwn
  <2>3. q.wants = IF ValueFlagAt(n + 1) THEN t.name ELSE Nobody
    <3>1. CASE ValueFlagAt(n)
      <4>1. q.wants = Nobody
        BY <1>2, <1>3, <1>4, <3>1 DEF TakeOwn
      <4>2. QED BY <1>4, <3>1, <4>1
    <3>2. CASE ~ValueFlagAt(n) /\ IsFlag(t) /\ t.name \in ValueFlags
      <4>1. q = [p EXCEPT !.wants = t.name, !.own = p.own \ {t.name}]
        BY <1>2, <1>4, <3>2 DEF TakeOwn, BoolFlags, ValueFlags
      <4>2. QED BY <1>3, <1>4, <3>2, <4>1
    <3>3. CASE ~ValueFlagAt(n) /\ IsFlag(t) /\ t.name \notin ValueFlags
      <4>1. q = [p EXCEPT !.own = p.own \cup {t.name}]
        BY <1>2, <1>4, <1>7, <3>3 DEF TakeOwn
      <4>2. QED BY <1>3, <1>4, <3>3, <4>1
    <3>4. QED BY <1>4, <1>7, <3>1, <3>2, <3>3
  <2>4. Passed(n + 1) = Passed(n)
    BY <1>5, <1>7
  <2>5. \A k \in 1 .. Passed(n + 1) : \E i \in Mine : i <= n + 1 /\ Passed(i) = k
    BY <1>3, <1>6, <2>4
  <2>6. /\ Len(q.rest) = Passed(n + 1)
        /\ \A i \in Mine : i <= n + 1 =>
             Passed(i) \in 1 .. Passed(n + 1) /\ q.rest[Passed(i)] = line[i]
    BY <1>3, <1>6, <1>7, <2>1, <2>4
  <2>7. QED BY <2>2, <2>3, <2>5, <2>6 DEF ReadTo, q, t
<1>8. CASE n + 1 \in Mine
  <2>1. q = [p EXCEPT !.rest = Append(p.rest, t)] /\ Append(p.rest, t) \in Seq(Tokens)
    <3>1. q = [p EXCEPT !.rest = Append(p.rest, t)]
      BY <1>2, <1>4, <1>8 DEF TakeOwn
    <3>2. p.rest \in Seq(Tokens) /\ t \in Tokens
      BY <1>1, <1>3 DEF t
    <3>3. QED BY <3>1, <3>2
  <2>2. /\ q.rest = Append(p.rest, t) /\ q.wants = p.wants /\ q.rest \in Seq(Tokens)
        /\ q \in [own : SUBSET LineNames, wants : LineNames \cup {Nobody}, rest : Seq(Tokens)]
    BY <1>1, <1>3, <2>1
  <2>3. /\ Len(q.rest) = Passed(n) + 1 /\ q.rest[Passed(n) + 1] = t
        /\ \A k \in 1 .. Passed(n) : q.rest[k] = p.rest[k]
    BY <1>1, <1>3, <2>2
  <2>4. q.wants = IF ValueFlagAt(n + 1) THEN t.name ELSE Nobody
    BY <1>3, <1>4, <1>8, <2>2
  <2>6. \A i \in Mine : i <= n + 1 =>
          Passed(i) \in 1 .. Passed(n + 1) /\ q.rest[Passed(i)] = line[i]
    <3> SUFFICES ASSUME NEW i \in Mine, i <= n + 1
                 PROVE  Passed(i) \in 1 .. Passed(n + 1) /\ q.rest[Passed(i)] = line[i]
      OBVIOUS
    <3>1. CASE i <= n
      <4>1. Passed(i) \in 1 .. Passed(n) /\ p.rest[Passed(i)] = line[i] /\ Passed(n) \in Nat
        BY <1>3, <3>1
      <4>2. QED BY <1>5, <1>8, <2>3, <4>1
    <3>2. CASE i = n + 1
      BY <1>3, <1>5, <1>8, <2>3, <3>2 DEF t
    <3>3. QED BY <1>6, <3>1, <3>2
  <2>7. \A k \in 1 .. Passed(n + 1) : \E i \in Mine : i <= n + 1 /\ Passed(i) = k
    <3> SUFFICES ASSUME NEW k \in 1 .. Passed(n + 1)
                 PROVE  \E i \in Mine : i <= n + 1 /\ Passed(i) = k
      OBVIOUS
    <3>1. k \in 1 .. Passed(n) \/ k = Passed(n + 1)
      BY <1>3, <1>5, <1>8
    <3>2. CASE k \in 1 .. Passed(n)
      BY <1>3, <1>6, <3>2
    <3>3. CASE k = Passed(n + 1)
      BY <1>6, <1>8, <3>3
    <3>4. QED BY <3>1, <3>2, <3>3
  <2>8. QED BY <1>5, <1>8, <2>2, <2>3, <2>4, <2>6, <2>7 DEF ReadTo, q, t
<1>9. QED BY <1>7, <1>8

LEMMA ClientReads ==
  ASSUME line \in Lines, Clear
  PROVE  ReadTo(Len(line))
<1> DEFINE Wrong == {n \in 0 .. Len(line) : ~ReadTo(n)}
<1>1. Len(line) \in Nat /\ DOMAIN line = 1 .. Len(line)
  BY LineFacts
<1>2. ReadTo(0)
  <2>1. ~ValueFlagAt(0) /\ \A i \in Mine : ~(i <= 0)
    BY <1>1 DEF ValueFlagAt, Mine
  <2>2. ClientAfter[0] = [own |-> {}, wants |-> Nobody, rest |-> <<>>] /\ Passed(0) = 0
    BY ClientSteps, PassedFacts
  <2>3. <<>> \in Seq(Tokens) /\ Len(<<>>) = 0
    OBVIOUS
  <2>4. QED BY <2>1, <2>2, <2>3 DEF ReadTo
<1>3. Wrong = {}
  <2> SUFFICES ASSUME Wrong # {} PROVE FALSE
    OBVIOUS
  <2>1. PICK n \in Wrong : \A m \in Wrong : n <= m
    <3>1. Wrong \subseteq Nat
      BY <1>1
    <3> HIDE DEF Wrong
    <3>2. QED BY <3>1, FirstIndex
  <2>2. n # 0
    BY <1>2
  <2>3. n - 1 \in 0 .. Len(line) - 1 /\ n - 1 \in 0 .. Len(line) /\ ~(n <= n - 1) /\ (n - 1) + 1 = n
    BY <1>1, <2>2
  <2>4. ReadTo(n - 1)
    BY <2>1, <2>3
  <2>5. ReadTo((n - 1) + 1)
    BY <2>3, <2>4, ReadStep
  <2>6. QED BY <2>3, <2>5
<1>4. QED BY <1>1, <1>3

-----------------------------------------------------------------------------
(* The command line: the tokens of the tool's arguments                    *)

Skipped == IF Inline THEN 1 ELSE 2

LEMMA ArgsAtFacts ==
  ASSUME line \in Lines
  PROVE  ArgsAt \subseteq Mine /\ \A i \in Mine : i \in ArgsAt <=> Passed(i) > Skipped
<1> SUFFICES ASSUME NEW i \in Mine PROVE i \in ArgsAt <=> Passed(i) > Skipped
  BY DEF ArgsAt, After
<1>1. Cardinality({j \in Mine : j < i}) = Passed(i - 1) /\ Passed(i - 1) \in Nat
      /\ Passed(i) = Passed(i - 1) + 1
  BY PassedBefore
<1>2. i \in ArgsAt <=> Cardinality({j \in Mine : j < i}) >= Skipped
  BY DEF ArgsAt, After, Skipped
<1>3. QED BY <1>1, <1>2 DEF Skipped

Ahead == IF Inline THEN 0 ELSE 1

\* The call is the tokens passed on, without the server's.
LEMMA CallTokensFacts ==
  ASSUME line \in Lines, Clear
  PROVE  /\ Passed(Len(line)) \in Nat /\ CallTokens \in Seq(Tokens)
         /\ Len(CallTokens) = IF Passed(Len(line)) > Ahead THEN Passed(Len(line)) - Ahead ELSE 0
         /\ \A i \in Mine : Passed(i) > Ahead =>
              Passed(i) - Ahead \in 1 .. Len(CallTokens) /\ CallTokens[Passed(i) - Ahead] = line[i]
         /\ \A k \in 1 .. Len(CallTokens) : \E i \in Mine : Passed(i) = k + Ahead
<1> DEFINE rest == Client.rest
           n == Passed(Len(line))
<1>1. Len(line) \in Nat /\ DOMAIN line = 1 .. Len(line)
  BY LineFacts
<1>2. /\ rest \in Seq(Tokens) /\ Len(rest) = n /\ n \in Nat
      /\ \A i \in Mine : Passed(i) \in 1 .. n /\ rest[Passed(i)] = line[i]
      /\ \A k \in 1 .. n : \E i \in Mine : Passed(i) = k
  <2>1. \A i \in Mine : i <= Len(line)
    BY <1>1 DEF Mine
  <2>2. Len(line) \in 0 .. Len(line)
    BY <1>1
  <2>3. QED BY <2>1, <2>2, ClientReads, PassedFacts DEF ReadTo, Client
<1>3. Named <=> (~Inline /\ n > 0)
  BY <1>2, EmptySeq DEF Named
<1> HIDE DEF rest, n
<1>4. \A s \in Seq(Tokens) : s # <<>> =>
        /\ Len(s) >= 1 /\ Tail(s) \in Seq(Tokens) /\ Len(Tail(s)) = Len(s) - 1
        /\ \A k \in 1 .. Len(s) - 1 : Tail(s)[k] = s[k + 1]
  OBVIOUS
<1>5. \A s \in Seq(Tokens) : s = <<>> <=> Len(s) = 0
  BY EmptySeq
<1>6. CallTokens = IF Inline \/ n = 0 THEN rest ELSE Tail(rest)
  BY <1>2, <1>3 DEF CallTokens, rest
<1>7. /\ CallTokens \in Seq(Tokens)
      /\ Len(CallTokens) = IF n > Ahead THEN n - Ahead ELSE 0
      /\ \A k \in 1 .. Len(CallTokens) : CallTokens[k] = rest[k + Ahead]
  <2>1. CASE Inline
    BY <1>2, <1>6, <2>1 DEF Ahead
  <2>2. CASE ~Inline /\ n = 0
    BY <1>2, <1>6, <2>2 DEF Ahead
  <2>3. CASE ~Inline /\ n > 0
    BY <1>2, <1>4, <1>5, <1>6, <2>3 DEF Ahead
  <2>4. QED BY <1>2, <2>1, <2>2, <2>3
<1>8. ASSUME NEW i \in Mine, Passed(i) > Ahead
      PROVE  Passed(i) - Ahead \in 1 .. Len(CallTokens) /\ CallTokens[Passed(i) - Ahead] = line[i]
  <2>1. Ahead \in Nat /\ Passed(i) \in 1 .. n /\ n \in Nat /\ rest[Passed(i)] = line[i]
    BY <1>2 DEF Ahead
  <2>2. Len(CallTokens) = n - Ahead
    BY <1>7, <1>8, <2>1
  <2>3. Passed(i) - Ahead \in 1 .. Len(CallTokens) /\ (Passed(i) - Ahead) + Ahead = Passed(i)
    BY <1>8, <2>1, <2>2
  <2>4. QED BY <1>7, <2>1, <2>3
<1>9. ASSUME NEW k \in 1 .. Len(CallTokens)
      PROVE  \E i \in Mine : Passed(i) = k + Ahead
  <2>1. k + Ahead \in 1 .. n
    BY <1>2, <1>7 DEF Ahead
  <2>2. QED BY <1>2, <2>1
<1>10. QED BY <1>2, <1>7, <1>8, <1>9 DEF n

\* The tool is named by the token that comes first in the call.
LEMMA ToolAtFacts ==
  ASSUME line \in Lines
  PROVE  ToolAt \subseteq Mine /\ \A i \in Mine : i \in ToolAt <=> Passed(i) = Ahead + 1
<1> SUFFICES ASSUME NEW i \in Mine PROVE i \in ToolAt <=> Passed(i) = Ahead + 1
  BY DEF ToolAt, After
<1>1. Cardinality({j \in Mine : j < i}) = Passed(i - 1) /\ Passed(i - 1) \in Nat
      /\ Passed(i) = Passed(i - 1) + 1
  BY PassedBefore
<1>2. i \in ToolAt <=> /\ Cardinality({j \in Mine : j < i}) >= Ahead
                       /\ ~(Cardinality({j \in Mine : j < i}) >= Ahead + 1)
  BY DEF ToolAt, ArgsAt, After, Ahead
<1>3. QED BY <1>1, <1>2 DEF Ahead

\* The arguments are the call without its tool.
LEMMA ArgTokensFacts ==
  ASSUME line \in Lines, Clear, ~Expressed
  PROVE  /\ RawArgs = Stream(ArgTokens)
         /\ Passed(Len(line)) \in Nat /\ Len(ArgTokens) \in Nat
         /\ Len(ArgTokens) = IF Passed(Len(line)) > Skipped THEN Passed(Len(line)) - Skipped ELSE 0
         /\ \A i \in Mine : Passed(i) > Skipped =>
              Passed(i) - Skipped \in 1 .. Len(ArgTokens) /\ ArgTokens[Passed(i) - Skipped] = line[i]
         /\ CallTokens # <<>> => \E i \in ToolAt : ToolName = WrittenTool(line[i])
<1> DEFINE n == Passed(Len(line))
<1>1. /\ n \in Nat /\ CallTokens \in Seq(Tokens) /\ Len(CallTokens) \in Nat
      /\ Len(CallTokens) = IF n > Ahead THEN n - Ahead ELSE 0
      /\ \A i \in Mine : Passed(i) > Ahead =>
           Passed(i) - Ahead \in 1 .. Len(CallTokens) /\ CallTokens[Passed(i) - Ahead] = line[i]
      /\ \A k \in 1 .. Len(CallTokens) : \E i \in Mine : Passed(i) = k + Ahead
  BY CallTokensFacts
<1> HIDE DEF n
<1>2. \A i \in Mine : line[i].is # "expr"
  BY DEF Clear, Expressed
<1>3. Ahead \in Nat /\ Skipped = Ahead + 1
  BY DEF Ahead, Skipped
<1>4. ASSUME NEW k \in 1 .. Len(CallTokens)
      PROVE  \E i \in Mine : Passed(i) = k + Ahead /\ CallTokens[k] = line[i]
  <2>1. PICK i \in Mine : Passed(i) = k + Ahead
    BY <1>1
  <2>2. Passed(i) > Ahead /\ Passed(i) - Ahead = k
    BY <1>3, <2>1
  <2>3. QED BY <1>1, <2>1, <2>2
<1>5. \A k \in 1 .. Len(CallTokens) : CallTokens[k].is # "expr"
  BY <1>2, <1>4
<1>6. \A s \in Seq(Tokens) : s # <<>> =>
        /\ Len(s) >= 1 /\ Tail(s) \in Seq(Tokens) /\ Len(Tail(s)) = Len(s) - 1
        /\ \A k \in 1 .. Len(s) - 1 : Tail(s)[k] = s[k + 1]
  OBVIOUS
<1>7. ~IsExpr(CallTokens) /\ ArgTokens = IF CallTokens = <<>> THEN CallTokens ELSE Tail(CallTokens)
  <2>1. ~IsExpr(CallTokens)
    BY <1>5 DEF IsExpr
  <2>2. QED BY <2>1 DEF ArgTokens
<1>8. /\ ArgTokens \in Seq(Tokens) /\ Len(ArgTokens) \in Nat
      /\ Len(ArgTokens) = IF Len(CallTokens) > 1 THEN Len(CallTokens) - 1 ELSE 0
      /\ \A k \in 1 .. Len(ArgTokens) : ArgTokens[k] = CallTokens[k + 1]
  <2>1. CASE CallTokens = <<>>
    BY <1>1, <1>7, <2>1
  <2>2. CASE CallTokens # <<>>
    BY <1>1, <1>6, <1>7, <2>2
  <2>3. QED BY <2>1, <2>2
<1>9. Len(ArgTokens) = IF n > Skipped THEN n - Skipped ELSE 0
  BY <1>1, <1>3, <1>8
<1>10. RawArgs = Stream(ArgTokens)
  <2>1. ASSUME IsExpr(ArgTokens) PROVE FALSE
    <3>1. Len(ArgTokens) = 1 /\ ArgTokens[1].is = "expr"
      BY <2>1 DEF IsExpr
    <3>2. Len(CallTokens) > 1
      <4>1. ~(Len(CallTokens) > 1) => Len(ArgTokens) = 0
        BY <1>8
      <4>2. QED BY <3>1, <4>1
    <3>3. \A c \in Nat : c > 1 => 2 \in 1 .. c
      OBVIOUS
    <3>4. 2 \in 1 .. Len(CallTokens)
      BY <1>1, <3>2, <3>3
    <3>5. 1 \in 1 .. Len(ArgTokens) /\ 1 + 1 = 2
      BY <3>1
    <3>6. ArgTokens[1] = CallTokens[2]
      BY <1>8, <3>5
    <3>7. QED BY <1>5, <3>1, <3>4, <3>6
  <2>2. QED BY <2>1 DEF RawArgs
<1>11. ASSUME NEW i \in Mine, Passed(i) > Skipped
       PROVE  /\ Passed(i) - Skipped \in 1 .. Len(ArgTokens)
              /\ ArgTokens[Passed(i) - Skipped] = line[i]
  <2>1. Passed(i) \in Nat
    <3>1. Passed(i) = Passed(i - 1) + 1 /\ Passed(i - 1) \in Nat
      BY PassedBefore
    <3> HIDE DEF Passed
    <3>2. QED BY <3>1
  <2>2. Passed(i) - Ahead \in 1 .. Len(CallTokens) /\ CallTokens[Passed(i) - Ahead] = line[i]
    BY <1>1, <1>3, <1>11, <2>1
  <2>3. /\ Passed(i) - Skipped \in 1 .. Len(ArgTokens)
        /\ (Passed(i) - Skipped) + 1 = Passed(i) - Ahead
    <3>1. \A p, a, c \in Nat : p > a + 1 /\ p - a \in 1 .. c =>
            c > 1 /\ p - (a + 1) \in 1 .. c - 1 /\ (p - (a + 1)) + 1 = p - a
      OBVIOUS
    <3>2. Passed(i) > Ahead + 1 /\ Len(CallTokens) \in Nat /\ Ahead \in Nat
      BY <1>1, <1>3, <1>11
    <3>3. /\ Len(CallTokens) > 1 /\ Passed(i) - (Ahead + 1) \in 1 .. Len(CallTokens) - 1
          /\ (Passed(i) - (Ahead + 1)) + 1 = Passed(i) - Ahead
      BY <2>1, <2>2, <3>1, <3>2
    <3>4. Len(ArgTokens) = Len(CallTokens) - 1
      BY <1>8, <3>3
    <3>5. QED BY <1>3, <3>3, <3>4
  <2>4. QED BY <1>8, <2>2, <2>3
<1>12. ASSUME CallTokens # <<>> PROVE \E i \in ToolAt : ToolName = WrittenTool(line[i])
  <2>1. 1 \in 1 .. Len(CallTokens)
    BY <1>1, <1>6, <1>12
  <2>2. PICK i \in Mine : Passed(i) = 1 + Ahead /\ CallTokens[1] = line[i]
    BY <1>4, <2>1
  <2>3. i \in ToolAt
    BY <1>3, <2>2, ToolAtFacts
  <2>4. ToolName = TextOf(line[i]).text
    BY <1>7, <1>12, <2>2 DEF ToolName
  <2>5. QED BY <1>2, <2>3, <2>4 DEF WrittenTool
<1>13. QED BY <1>1, <1>8, <1>9, <1>10, <1>11, <1>12 DEF n

\* An expression is the whole call: it names the tool and has the arguments.
LEMMA ExpressionFacts ==
  ASSUME line \in Lines, Clear, Expressed
  PROVE  /\ \E i \in ToolAt : ToolName = WrittenTool(line[i])
         /\ RawArgs = ExprArgs(line[CHOOSE i \in ToolAt : TRUE])
<1>1. Ahead \in Nat /\ Skipped = Ahead + 1
  BY DEF Ahead, Skipped
<1>2. PICK e \in ToolAt : line[e].is = "expr"
  BY DEF Expressed
<1>3. e \in Mine /\ Passed(e) = Ahead + 1
  BY <1>2, ToolAtFacts
<1>4. \A i \in Mine : ~(Passed(i) > Skipped)
  <2>1. ArgsAt = {}
    BY <1>2, <1>3 DEF Clear
  <2>2. QED BY <2>1, ArgsAtFacts
<1>5. CallTokens[1] = line[e] /\ 1 \in 1 .. Len(CallTokens)
  BY <1>1, <1>3, CallTokensFacts
<1>6. Len(CallTokens) = 1
  <2>1. Len(CallTokens) \in Nat
    BY CallTokensFacts
  <2>2. ~(Len(CallTokens) > 1)
    <3> SUFFICES ASSUME Len(CallTokens) > 1 PROVE FALSE
      OBVIOUS
    <3>1. PICK i \in Mine : Passed(i) = 2 + Ahead
      BY <2>1, CallTokensFacts
    <3>2. QED BY <1>1, <1>4, <3>1
  <2>3. Len(CallTokens) >= 1
    BY <1>5, <2>1
  <2>4. \A n \in Nat : ~(n > 1) /\ n >= 1 => n = 1
    OBVIOUS
  <2>5. QED BY <2>1, <2>2, <2>3, <2>4
<1>7. IsExpr(CallTokens)
  BY <1>2, <1>5, <1>6 DEF IsExpr
<1>8. ToolName = WrittenTool(line[e])
  BY <1>2, <1>5, <1>7 DEF ToolName, WrittenTool
<1>9. RawArgs = ExprArgs(line[e])
  BY <1>5, <1>7 DEF RawArgs, ArgTokens
<1>10. \A i \in ToolAt : line[i] = line[e]
  <2> SUFFICES ASSUME NEW i \in ToolAt PROVE line[i] = line[e]
    OBVIOUS
  <2>1. i \in Mine /\ Passed(i) = Ahead + 1
    BY ToolAtFacts
  <2>2. CallTokens[1] = line[i]
    BY <1>1, <2>1, CallTokensFacts
  <2>3. QED BY <1>5, <2>2
<1>11. QED BY <1>2, <1>8, <1>9, <1>10

LEMMA MaxIs ==
  ASSUME NEW S, S \subseteq Nat, NEW m \in S, \A y \in S : y <= m
  PROVE  Max(S) = m
<1>1. \A x \in S : (\A y \in S : x >= y) <=> x = m
  OBVIOUS
<1>2. QED BY <1>1 DEF Max

\* What parseCallArgs() makes of the mention of a key.
ReadAt(i) ==
  CASE line[i].is = "pair" -> Literal(line[i].value)
    [] IsFlag(line[i]) /\ Takes(i) -> AsString(TextOf(line[i + 1]))
    [] OTHER -> Yes

\* Arguments are what the tokens at A say, the last that names a key.
ArgsSay(args, A) ==
  /\ DOMAIN args = {line[i].name : i \in A}
  /\ \A word \in DOMAIN args : args[word] = ReadAt(Max({i \in A : line[i].name = word}))

LEMMA PutLast ==
  ASSUME NEW args, NEW A, A \subseteq Nat, NEW m \in Nat, \A i \in A : i < m, ArgsSay(args, A)
  PROVE  ArgsSay(Put(args, line[m].name, ReadAt(m)), A \cup {m})
<1> DEFINE B == A \cup {m}
           new == Put(args, line[m].name, ReadAt(m))
<1>1. /\ DOMAIN new = DOMAIN args \cup {line[m].name}
      /\ \A word \in DOMAIN new : new[word] = IF word = line[m].name THEN ReadAt(m) ELSE args[word]
  BY DEF Put
<1>2. DOMAIN args = {line[i].name : i \in A}
  BY DEF ArgsSay
<1>3. DOMAIN new = {line[i].name : i \in B}
  BY <1>1, <1>2
<1>4. ASSUME NEW word \in DOMAIN new
      PROVE  new[word] = ReadAt(Max({i \in B : line[i].name = word}))
  <2>1. CASE word = line[m].name
    <3> DEFINE S == {i \in B : line[i].name = word}
    <3>1. B \subseteq Nat /\ m \in B /\ \A y \in B : y <= m
      OBVIOUS
    <3>2. S \subseteq Nat /\ m \in S /\ \A y \in S : y <= m
      BY <2>1, <3>1
    <3> HIDE DEF S
    <3>3. Max(S) = m
      BY <3>2, MaxIs
    <3>4. QED BY <1>1, <2>1, <3>3 DEF S
  <2>2. CASE word # line[m].name
    <3>1. {i \in B : line[i].name = word} = {i \in A : line[i].name = word}
      BY <2>2
    <3>2. word \in DOMAIN args
      BY <1>1, <2>2
    <3> HIDE DEF B, new
    <3>3. args[word] = ReadAt(Max({i \in A : line[i].name = word}))
      BY <3>2 DEF ArgsSay
    <3>4. QED BY <1>1, <2>2, <3>1, <3>3
  <2>3. QED BY <2>1, <2>2
<1>5. QED BY <1>3, <1>4 DEF ArgsSay

\* The tokens that name a key, and those whose value is known after n tokens of the line.
Mentions == {i \in ArgsAt : Says1(i, line[i].name)}
SettledTo(n) == {i \in Mentions : i < n \/ (i = n /\ ~IsFlag(line[i]))}

ParsedTo(n) == StreamAfter(ArgTokens)[IF Passed(n) > Skipped THEN Passed(n) - Skipped ELSE 0]

\* What parseCallArgs() has after n tokens of a clear line.
SpokenTo(n) ==
  /\ ParsedTo(n) = [args |-> ParsedTo(n).args, key |-> ParsedTo(n).key]
  /\ ParsedTo(n).key = IF n \in ArgsAt /\ IsFlag(line[n]) THEN line[n].name ELSE Nobody
  /\ ArgsSay(ParsedTo(n).args, SettledTo(n))

\* What follows a flag among the arguments follows it on the line.
LEMMA AfterFlag ==
  ASSUME line \in Lines, Clear, NEW n \in ArgsAt, IsFlag(line[n]), n + 1 \in DOMAIN line
  PROVE  n + 1 \in ArgsAt /\ n + 1 \in Mine
<1>1. n + 1 \in Mine
  BY DEF Clear, Mine
<1>2. /\ n \in Mine /\ n \in 1 .. Len(line) /\ n + 1 \in 1 .. Len(line) /\ Len(line) \in Nat
      /\ Passed(n) > Skipped
  BY LineFacts, ArgsAtFacts DEF Mine
<1>3. Passed(n + 1) = Passed(n) + 1 /\ Passed(n) \in Nat
  BY <1>1, <1>2, PassedFacts
<1>4. QED BY <1>1, <1>2, <1>3, ArgsAtFacts DEF Skipped

LEMMA SpokenStep ==
  ASSUME line \in Lines, Clear, ~Expressed, NEW n \in 0 .. Len(line) - 1, SpokenTo(n)
  PROVE  SpokenTo(n + 1)
<1> DEFINE p == ParsedTo(n)
           q == ParsedTo(n + 1)
           t == line[n + 1]
           open == n \in ArgsAt /\ IsFlag(line[n])
<1>1. /\ Len(line) \in Nat /\ DOMAIN line = 1 .. Len(line) /\ n \in Nat /\ n \in 0 .. Len(line)
      /\ n + 1 \in DOMAIN line /\ (n + 1) - 1 = n
      /\ \A i \in DOMAIN line : line[i].name # Nobody
  BY LineFacts
<1>2. /\ p = [args |-> p.args, key |-> p.key]
      /\ p.key = IF open THEN line[n].name ELSE Nobody
      /\ ArgsSay(p.args, SettledTo(n))
  BY DEF SpokenTo
<1>3. Mentions \subseteq Nat /\ Mentions \subseteq ArgsAt /\ ArgsAt \subseteq DOMAIN line
  BY <1>1, ArgsAtFacts DEF Mentions, Mine
<1>4. p.key # Nobody <=> open
  BY <1>1, <1>2, <1>3
<1>5. open => n + 1 \in ArgsAt
  BY <1>1, AfterFlag
<1>6. \A i \in Mentions : i < n + 1 <=> i < n \/ i = n
  BY <1>1, <1>3
<1>7. n \in Mentions <=> n \in ArgsAt /\ Says1(n, line[n].name)
  BY DEF Mentions
<1>8. open => n \in Mentions
  BY DEF Mentions, Says1
<1>9. CASE n + 1 \notin ArgsAt
  <2>1. ~open
    BY <1>5, <1>9
  <2>2. q = p
    <3>1. CASE n + 1 \in Mine
      <4>1. ~(Passed(n + 1) > Skipped) /\ Passed(n + 1) = Passed(n) + 1 /\ Passed(n) \in Nat
        BY <1>1, <1>9, <3>1, PassedFacts, ArgsAtFacts
      <4>2. ~(Passed(n) > Skipped)
        BY <4>1 DEF Skipped
      <4>3. QED BY <4>1, <4>2 DEF ParsedTo
    <3>2. CASE n + 1 \notin Mine
      BY <1>1, <3>2, PassedFacts DEF ParsedTo
    <3>3. QED BY <3>1, <3>2
  <2>3. SettledTo(n + 1) = SettledTo(n)
    <3>1. \A i \in Mentions : (i < n + 1 \/ (i = n + 1 /\ ~IsFlag(line[i]))) <=> (i < n \/ (i = n /\ ~IsFlag(line[i])))
      BY <1>3, <1>6, <1>9, <2>1
    <3>2. QED BY <3>1 DEF SettledTo
  <2> HIDE DEF p, q, open
  <2>4. QED BY <1>2, <1>9, <2>1, <2>2, <2>3 DEF SpokenTo, p, q, open
<1>10. CASE n + 1 \in ArgsAt
  <2>1. q = TakeArg(p, t)
    <3>1. /\ n + 1 \in Mine /\ Passed(n + 1) = Passed(n) + 1 /\ Passed(n) \in Nat
          /\ Passed(n + 1) > Skipped
      BY <1>1, <1>10, PassedFacts, ArgsAtFacts
    <3>2. /\ Passed(n + 1) - Skipped \in 1 .. Len(ArgTokens) /\ Len(ArgTokens) \in Nat
          /\ ArgTokens[Passed(n + 1) - Skipped] = t
      BY <3>1, ArgTokensFacts
    <3> DEFINE k == Passed(n) - Skipped
    <3>3. k \in 0 .. Len(ArgTokens) - 1 /\ Passed(n + 1) - Skipped = k + 1
      <4>1. Skipped \in Nat
        BY DEF Skipped
      <4>2. QED BY <3>1, <3>2, <4>1
    <3>4. (IF Passed(n) > Skipped THEN k ELSE 0) = k
      BY <3>1, <3>3 DEF Skipped
    <3>5. p = StreamAfter(ArgTokens)[k] /\ q = StreamAfter(ArgTokens)[k + 1] /\ ArgTokens[k + 1] = t
      BY <3>1, <3>2, <3>3, <3>4 DEF ParsedTo
    <3>6. StreamAfter(ArgTokens)[k + 1] = TakeArg(StreamAfter(ArgTokens)[k], ArgTokens[k + 1])
      BY <3>2, <3>3, StreamSteps
    <3>7. QED BY <3>5, <3>6
  <2>2. n + 1 \in Mentions <=> IsFlag(t) \/ (t.is = "pair" /\ ~open)
    BY <1>1, <1>10 DEF Mentions, Says1, Taken
  <2>3. Takes(n) <=> ~IsFlag(t)
    BY <1>10, ArgsAtFacts DEF Takes
  <2>4. SettledTo(n) \subseteq Nat /\ \A i \in SettledTo(n) : i < n + 1 /\ (open => i < n)
    <3> SUFFICES ASSUME NEW i \in SettledTo(n) PROVE i \in Nat /\ i < n + 1 /\ (open => i < n)
      OBVIOUS
    <3>1. i \in Nat /\ (i < n \/ (i = n /\ ~IsFlag(line[i])))
      BY <1>3 DEF SettledTo
    <3>2. QED BY <1>1, <3>1
  <2>5. \A i : i \in SettledTo(n + 1) <=>
               \/ i \in SettledTo(n) \/ (i = n /\ open)
               \/ (i = n + 1 /\ t.is = "pair" /\ ~open /\ ~IsFlag(t))
    BY <1>1, <1>3, <1>6, <1>8, <2>2 DEF SettledTo
  <2>6. open => line[n].is # "pair" /\ IsFlag(line[n])
    BY DEF IsFlag
  <2>7. (n + 1 \in ArgsAt /\ IsFlag(t)) <=> IsFlag(t)
    BY <1>10
  <2> HIDE DEF p, q, t, open
  <2>8. CASE open
    <3>1. SettledTo(n + 1) = SettledTo(n) \cup {n}
      BY <2>5, <2>8
    <3>2. ReadAt(n) = IF IsFlag(t) THEN Yes ELSE AsString(TextOf(t))
      BY <2>3, <2>6, <2>8 DEF ReadAt, t
    <3>3. ArgsSay(Put(p.args, line[n].name, ReadAt(n)), SettledTo(n + 1))
      <4>1. n \in Nat /\ SettledTo(n) \subseteq Nat /\ \A i \in SettledTo(n) : i < n
        BY <1>1, <2>4, <2>8
      <4>2. ArgsSay(p.args, SettledTo(n))
        BY <1>2
      <4>3. ArgsSay(Put(p.args, line[n].name, ReadAt(n)), SettledTo(n) \cup {n})
        BY <4>1, <4>2, PutLast
      <4>4. QED BY <3>1, <4>3
    <3>4. q = [args |-> Put(p.args, line[n].name, ReadAt(n)), key |-> IF IsFlag(t) THEN t.name ELSE Nobody]
      <4>1. p.key = line[n].name /\ p.key # Nobody
        BY <1>2, <1>4, <2>8
      <4>2. CASE IsFlag(t)
        BY <2>1, <3>2, <4>1, <4>2 DEF TakeArg
      <4>3. CASE ~IsFlag(t)
        <5>1. q = [p EXCEPT !.args = Put(p.args, p.key, AsString(TextOf(t))), !.key = Nobody]
          BY <2>1, <4>1, <4>3 DEF TakeArg
        <5>2. QED BY <1>2, <3>2, <4>1, <4>3, <5>1
      <4>4. QED BY <4>2, <4>3
    <3>5. QED BY <2>7, <3>3, <3>4 DEF SpokenTo, q, t
  <2>9. CASE ~open /\ ~IsFlag(t) /\ t.is = "pair"
    <3>1. SettledTo(n + 1) = SettledTo(n) \cup {n + 1}
      BY <2>5, <2>9
    <3>2. ReadAt(n + 1) = Literal(t.value)
      BY <2>9 DEF ReadAt, t
    <3>3. ArgsSay(Put(p.args, t.name, ReadAt(n + 1)), SettledTo(n + 1))
      <4>1. n + 1 \in Nat /\ SettledTo(n) \subseteq Nat /\ \A i \in SettledTo(n) : i < n + 1
        BY <1>1, <2>4
      <4>2. ArgsSay(p.args, SettledTo(n))
        BY <1>2
      <4>3. ArgsSay(Put(p.args, line[n + 1].name, ReadAt(n + 1)), SettledTo(n) \cup {n + 1})
        BY <4>1, <4>2, PutLast
      <4>4. QED BY <3>1, <4>3 DEF t
    <3>4. q = [args |-> Put(p.args, t.name, ReadAt(n + 1)), key |-> Nobody]
      <4>1. q = [p EXCEPT !.args = Put(p.args, t.name, Literal(t.value))]
        BY <1>4, <2>1, <2>9 DEF TakeArg
      <4>2. QED BY <1>2, <2>9, <3>2, <4>1
    <3>5. QED BY <2>7, <2>9, <3>3, <3>4 DEF SpokenTo, q, t
  <2>10. CASE ~open /\ IsFlag(t)
    <3>1. SettledTo(n + 1) = SettledTo(n)
      BY <2>5, <2>10
    <3>2. q = [args |-> p.args, key |-> t.name]
      BY <1>4, <2>1, <2>10 DEF TakeArg
    <3>3. QED BY <1>2, <2>7, <2>10, <3>1, <3>2 DEF SpokenTo, q, t
  <2>11. CASE ~open /\ ~IsFlag(t) /\ t.is # "pair"
    <3>1. SettledTo(n + 1) = SettledTo(n)
      BY <2>5, <2>11
    <3>2. q = p
      BY <1>4, <2>1, <2>11 DEF TakeArg
    <3>3. QED BY <1>2, <2>7, <2>11, <3>1, <3>2 DEF SpokenTo, q, t
  <2>12. QED BY <2>8, <2>9, <2>10, <2>11
<1>11. QED BY <1>9, <1>10

LEMMA ParsedAll ==
  ASSUME line \in Lines, Clear, ~Expressed
  PROVE  SpokenTo(Len(line))
<1> DEFINE Wrong == {n \in 0 .. Len(line) : ~SpokenTo(n)}
<1>1. Len(line) \in Nat /\ DOMAIN line = 1 .. Len(line)
  BY LineFacts
<1>2. SpokenTo(0)
  <2>1. ArgsAt \subseteq 1 .. Len(line)
    BY <1>1, ArgsAtFacts DEF Mine
  <2>2. ParsedTo(0) = [args |-> <<>>, key |-> Nobody]
    <3>1. ~(Passed(0) > Skipped)
      BY PassedFacts DEF Skipped
    <3>2. QED BY <3>1, ArgTokensFacts, StreamSteps DEF ParsedTo
  <2>3. SettledTo(0) = {} /\ 0 \notin ArgsAt
    <3>1. \A i \in ArgsAt : ~(i < 0) /\ i # 0
      BY <1>1, <2>1
    <3>2. QED BY <3>1 DEF SettledTo, Mentions
  <2>4. ArgsSay(<<>>, {})
    BY DEF ArgsSay
  <2>5. ParsedTo(0).args = <<>> /\ ParsedTo(0).key = Nobody
    BY <2>2
  <2>6. QED BY <2>2, <2>3, <2>4, <2>5 DEF SpokenTo
<1>3. Wrong = {}
  <2> SUFFICES ASSUME Wrong # {} PROVE FALSE
    OBVIOUS
  <2>1. PICK n \in Wrong : \A m \in Wrong : n <= m
    <3>1. Wrong \subseteq Nat
      BY <1>1
    <3> HIDE DEF Wrong
    <3>2. QED BY <3>1, FirstIndex
  <2>2. n # 0
    BY <1>2
  <2>3. n - 1 \in 0 .. Len(line) - 1 /\ n - 1 \in 0 .. Len(line) /\ ~(n <= n - 1) /\ (n - 1) + 1 = n
    BY <1>1, <2>2
  <2>4. SpokenTo(n - 1)
    BY <2>1, <2>3
  <2>5. SpokenTo((n - 1) + 1)
    BY <2>3, <2>4, SpokenStep
  <2>6. QED BY <2>3, <2>5
<1>4. QED BY <1>1, <1>3

\* How the parsers read what is said of a key.
AsRead(said) ==
  [value |-> said.value, type |-> IF said.literal THEN said.value.json ELSE "string"]

LEMMA LiteralAsRead ==
  ASSUME NEW v
  PROVE  Literal(v) = AsRead(AsLiteral(v))
<1>1. CASE AsLiteral(v).literal
  BY <1>1 DEF Literal, AsLiteral, AsRead
<1>2. CASE ~AsLiteral(v).literal
  BY <1>2 DEF Literal, AsLiteral, AsRead
<1>3. QED BY <1>1, <1>2

LEMMA ReadAtSaying ==
  ASSUME NEW i
  PROVE  ReadAt(i) = AsRead(Saying(i))
<1>1. CASE line[i].is = "pair"
  <2>1. ReadAt(i) = Literal(line[i].value) /\ Saying(i) = AsLiteral(line[i].value)
    BY <1>1 DEF ReadAt, Saying, IsFlag
  <2>2. QED BY <2>1, LiteralAsRead
<1>2. CASE IsFlag(line[i]) /\ Takes(i)
  <2>1. ReadAt(i) = AsString(TextOf(line[i + 1])) /\ Saying(i) = AsText(TextOf(line[i + 1]))
    BY <1>2 DEF ReadAt, Saying, IsFlag
  <2>2. QED BY <2>1 DEF AsString, AsText, AsRead
<1>3. CASE line[i].is # "pair" /\ ~(IsFlag(line[i]) /\ Takes(i))
  <2>1. ReadAt(i) = Yes /\ Saying(i) = AsLiteral(Yes.value)
    BY <1>3 DEF ReadAt, Saying
  <2>2. Yes.value = [text |-> "true", json |-> "boolean", num |-> "none", quoted |-> FALSE]
        /\ Yes = [value |-> Yes.value, type |-> "boolean"]
    BY DEF Yes, Bare
  <2>3. Yes.value.json = "boolean" /\ Yes.value.json \notin {"none", "string"} /\ ~Yes.value.quoted
    BY <2>2
  <2>4. Literal(Yes.value) = [value |-> Yes.value, type |-> "boolean"]
    BY <2>3 DEF Literal
  <2>5. Literal(Yes.value) = AsRead(AsLiteral(Yes.value))
    BY LiteralAsRead
  <2>6. QED BY <2>1, <2>2, <2>4, <2>5
<1>4. QED BY <1>1, <1>2, <1>3

\* The arguments that are read are those the line says.
LEMMA SpokenIsRead ==
  ASSUME line \in Lines, Clear, ~Expressed
  PROVE  /\ DOMAIN RawArgs = DOMAIN Spoken
         /\ \A word \in DOMAIN Spoken : RawArgs[word] = AsRead(Spoken[word])
<1> DEFINE n == Len(line)
           p == ParsedTo(n)
           open == n \in ArgsAt /\ IsFlag(line[n])
<1>1. n \in Nat /\ DOMAIN line = 1 .. n /\ \A i \in DOMAIN line : line[i].name # Nobody
  BY LineFacts
<1>2. ArgsAt \subseteq 1 .. n /\ \A i \in Mentions : i \in Nat /\ (i < n \/ i = n)
  <2>1. ArgsAt \subseteq 1 .. n
    BY <1>1, ArgsAtFacts DEF Mine
  <2>2. \A i \in 1 .. n : i \in Nat /\ (i < n \/ i = n)
    <3> HIDE DEF n
    <3>1. QED BY <1>1
  <2>3. QED BY <2>1, <2>2 DEF Mentions
<1>3. /\ p.key = IF open THEN line[n].name ELSE Nobody
      /\ ArgsSay(p.args, SettledTo(n))
  BY ParsedAll DEF SpokenTo
<1>4. p.key # Nobody <=> open
  BY <1>1, <1>2, <1>3
<1>5. RawArgs = IF p.key = Nobody THEN p.args ELSE Put(p.args, p.key, Yes)
  <2>1. p = StreamAfter(ArgTokens)[Len(ArgTokens)]
    BY ArgTokensFacts DEF ParsedTo
  <2> HIDE DEF p
  <2>2. QED BY <2>1, ArgTokensFacts DEF Stream
<1>6. ArgsSay(RawArgs, Mentions)
  <2>1. SettledTo(n) \subseteq Nat /\ \A i \in SettledTo(n) : open => i < n
    <3> SUFFICES ASSUME NEW i \in SettledTo(n) PROVE i \in Nat /\ (open => i < n)
      OBVIOUS
    <3>1. i \in Nat /\ (i < n \/ (i = n /\ ~IsFlag(line[i])))
      BY <1>2 DEF SettledTo
    <3>2. QED BY <1>1, <3>1
  <2>2. CASE open
    <3>1. Mentions = SettledTo(n) \cup {n}
      <4>1. n \in Mentions
        BY <2>2 DEF Mentions, Says1
      <4>2. \A i \in Mentions : i < n \/ i = n
        BY <1>2
      <4>3. QED BY <4>1, <4>2 DEF SettledTo
    <3>2. ReadAt(n) = Yes
      <4>1. n + 1 \notin Mine
        BY <1>1 DEF Mine
      <4>2. line[n].is # "pair"
        BY <2>2 DEF IsFlag
      <4>3. QED BY <4>1, <4>2 DEF ReadAt, Takes
    <3>3. ArgsSay(Put(p.args, line[n].name, ReadAt(n)), SettledTo(n) \cup {n})
      <4>1. n \in Nat /\ SettledTo(n) \subseteq Nat /\ \A i \in SettledTo(n) : i < n
        BY <1>1, <2>1, <2>2
      <4>2. ArgsSay(p.args, SettledTo(n))
        BY <1>3
      <4> HIDE DEF p, n
      <4>3. QED BY <4>1, <4>2, PutLast
    <3>4. RawArgs = Put(p.args, line[n].name, ReadAt(n))
      BY <1>3, <1>4, <1>5, <2>2, <3>2
    <3> HIDE DEF p, n, open
    <3>5. QED BY <3>1, <3>3, <3>4
  <2>3. CASE ~open
    <3>1. Mentions = SettledTo(n)
      <4>1. \A i \in Mentions : i < n \/ (i = n /\ ~IsFlag(line[i]))
        BY <1>2, <2>3 DEF Mentions
      <4>2. QED BY <4>1 DEF SettledTo
    <3>2. RawArgs = p.args
      BY <1>4, <1>5, <2>3
    <3> HIDE DEF p, n, open
    <3>3. QED BY <1>3, <3>1, <3>2
  <2>4. QED BY <2>2, <2>3
<1>7. \A i, word : (i \in ArgsAt /\ Says1(i, word)) <=> (i \in Mentions /\ line[i].name = word)
  BY DEF Mentions, Says1
<1>8. DOMAIN Spoken = {line[i].name : i \in Mentions}
  BY DEF Spoken, Mentions
<1>9. \A word : {i \in ArgsAt : Says1(i, word)} = {i \in Mentions : line[i].name = word}
  BY <1>7
<1>10. \A word \in DOMAIN Spoken : Spoken[word] = Saying(Max({i \in Mentions : line[i].name = word}))
  <2> SUFFICES ASSUME NEW word \in DOMAIN Spoken
               PROVE  Spoken[word] = Saying(Max({i \in Mentions : line[i].name = word}))
    OBVIOUS
  <2>1. Spoken[word] = Saying(Max({i \in ArgsAt : Says1(i, word)}))
    <3>1. Spoken = [w \in {line[i].name : i \in Mentions} |-> Saying(Max({i \in ArgsAt : Says1(i, w)}))]
      BY DEF Spoken, Mentions
    <3>2. QED BY <1>8, <3>1
  <2>2. QED BY <1>9, <2>1
<1>11. QED BY <1>6, <1>8, <1>10, ReadAtSaying DEF ArgsSay

\* So they are where an expression says them.
LEMMA ReadsAsWritten ==
  ASSUME line \in Lines, Clear
  PROVE  /\ DOMAIN RawArgs = DOMAIN Written
         /\ \A word \in DOMAIN Written : RawArgs[word] = AsRead(Written[word])
         /\ CallTokens # <<>> => \E i \in ToolAt : ToolName = WrittenTool(line[i])
<1>1. CASE ~Expressed
  BY <1>1, SpokenIsRead, ArgTokensFacts DEF Written
<1>2. CASE Expressed
  <2> DEFINE t == line[CHOOSE i \in ToolAt : TRUE]
  <2>1. RawArgs = [word \in DOMAIN t.args |-> Literal(t.args[word])]
        /\ Written = [word \in DOMAIN t.args |-> AsLiteral(t.args[word])]
    BY <1>2, ExpressionFacts DEF ExprArgs, Written, Expression
  <2> HIDE DEF t
  <2>2. QED BY <1>2, <2>1, ExpressionFacts, LiteralAsRead
<1>3. QED BY <1>1, <1>2

-----------------------------------------------------------------------------
(* The command line: what is sent                                          *)

\* The tokens of a command do not change, so neither does what they say.
LEMMA SameLine ==
  ASSUME UNCHANGED line
  PROVE  /\ Clear' <=> Clear
         /\ Written' = Written /\ ToolName' = ToolName /\ ToolAt' = ToolAt
         /\ \A i : WrittenTool(line[i])' = WrittenTool(line[i])
<1>1. OwnAt' = OwnAt
  BY DEF OwnAt, IsFlag
<1>2. Mine' = Mine
  BY <1>1 DEF Mine
<1>3. Client' = Client
  BY DEF Client, ClientAfter, TakeOwn, IsFlag, TextOf, Bare
<1>4. Inline' = Inline
  BY <1>3 DEF Inline, Says
<1>5. ArgsAt' = ArgsAt /\ ToolAt' = ToolAt
  BY <1>2, <1>4 DEF ArgsAt, ToolAt, After
<1>6. Clear' <=> Clear
  BY <1>1, <1>2, <1>5 DEF Clear, IsFlag
<1>7. \A i : Saying(i)' = Saying(i)
  BY <1>2 DEF Saying, Takes, TextOf, Bare, AsText, AsLiteral, Yes, IsFlag
<1>8. \A i, word : Says1(i, word)' = Says1(i, word)
  BY <1>5 DEF Says1, IsFlag, Taken
<1>9. Spoken' = Spoken
  BY <1>5, <1>7, <1>8 DEF Spoken
<1>10. Written' = Written
  BY <1>5, <1>9 DEF Written, Expressed, Expression, AsLiteral
<1>11. ToolName' = ToolName
  BY <1>3, <1>4 DEF ToolName, CallTokens, Named, IsExpr, TextOf, Bare
<1>12. \A i : WrittenTool(line[i])' = WrittenTool(line[i])
  BY DEF WrittenTool, TextOf, Bare
<1>13. QED BY <1>5, <1>6, <1>10, <1>11, <1>12

\* What is read is sent in the type that is declared, where it can be said in it.
LEMMA SentInItsType ==
  ASSUME NEW said, NEW declared
  PROVE  LET arg == Coerce(AsRead(said), declared)
         IN /\ arg.value = said.value
            /\ (said.literal /\ said.value.json # "string") => arg.type = said.value.json
            /\ (~said.literal /\ Sayable(said.value, declared)) => Fits(arg.type, declared)
<1> DEFINE arg == Coerce(AsRead(said), declared)
           v == said.value
<1>1. arg = [value |-> v, type |-> IF AsRead(said).type = "string" THEN Retyped(v, declared)
                                   ELSE AsRead(said).type]
  BY DEF Coerce, AsRead
<1>2. ASSUME said.literal, v.json # "string" PROVE arg.type = v.json
  BY <1>1, <1>2 DEF AsRead
<1>3. ASSUME ~said.literal, Sayable(v, declared) PROVE Fits(arg.type, declared)
  <2>1. arg.type = Retyped(v, declared)
    BY <1>1, <1>3 DEF AsRead
  <2> HIDE DEF arg, v
  <2>2. CASE declared = "string"
    BY <2>1, <2>2 DEF Retyped, Fits, Nobody
  <2>3. CASE declared \in {"number", "integer"} /\ v.num = "number"
    BY <2>1, <2>3 DEF Retyped, Fits, Nobody
  <2>4. CASE declared = "boolean" /\ v.text \in {"true", "false"}
    BY <2>1, <2>4 DEF Retyped, Fits, Nobody
  <2>5. CASE declared \in {"object", "array"} /\ v.json = declared
    BY <2>1, <2>5 DEF Retyped, Fits, Nobody
  <2>6. QED BY <1>3, <2>2, <2>3, <2>4, <2>5 DEF Sayable, v
<1>4. QED BY <1>1, <1>2, <1>3

\* A literal is of another type than a string.
LEMMA LiteralsAreTyped ==
  ASSUME NEW word \in DOMAIN Written, Written[word].literal
  PROVE  Written[word].value.json # "string"
<1>1. \A v : AsLiteral(v).literal => AsLiteral(v).value.json # "string"
  BY DEF AsLiteral
<1>2. \A i : Saying(i).literal => Saying(i).value.json # "string"
  <2> SUFFICES ASSUME NEW i, Saying(i).literal PROVE Saying(i).value.json # "string"
    OBVIOUS
  <2>1. \/ Saying(i) = AsLiteral(line[i].value) \/ Saying(i) = AsText(TextOf(line[i + 1]))
        \/ Saying(i) = AsLiteral(Yes.value)
    BY DEF Saying
  <2>2. ~AsText(TextOf(line[i + 1])).literal
    BY DEF AsText
  <2>3. QED BY <1>1, <2>1, <2>2
<1>3. CASE Expressed
  BY <1>1, <1>3 DEF Written, Expression
<1>4. CASE ~Expressed
  BY <1>2, <1>4 DEF Written, Spoken
<1>5. QED BY <1>3, <1>4

\* A call is sent once, at the end, from the line as it was given, and of a tool.
LineInv ==
  /\ line \in Lines
  /\ sent # <<>> => at \in {"answering", "closing", "ended"}
  /\ at \in {"asked", "calling"} => ~NoTool
  /\ SentAsWritten

LEMMA SentStep ==
  ASSUME LineInv, Calls, UNCHANGED line
  PROVE  SentAsWritten'
<1> DEFINE call == [tool |-> ToolName, args |-> CoerceArgs(known, ToolName, RawArgs)]
<1>1. sent' = <<call>> /\ known' = known /\ line \in Lines /\ ~NoTool
  BY DEF Calls, LineInv
<1>2. /\ Clear' <=> Clear
      /\ Written' = Written /\ ToolAt' = ToolAt
      /\ \A i : WrittenTool(line[i])' = WrittenTool(line[i])
  BY SameLine
<1>3. CallTokens # <<>>
  <2>1. ASSUME CallTokens = <<>> PROVE FALSE
    <3>1. ~IsExpr(CallTokens)
      BY <2>1 DEF IsExpr
    <3>2. ToolName = Nobody
      BY <2>1, <3>1 DEF ToolName
    <3>3. QED BY <1>1, <3>2 DEF NoTool
  <2>2. QED BY <2>1
<1>4. ASSUME Clear
      PROVE  /\ \E i \in ToolAt : call.tool = WrittenTool(line[i])
             /\ DOMAIN call.args = DOMAIN Written
             /\ \A word \in DOMAIN Written :
                  call.args[word] = Coerce(AsRead(Written[word]), Declared(known, call.tool, word))
  BY <1>1, <1>3, <1>4, ReadsAsWritten DEF CoerceArgs
<1> HIDE DEF call
<1>5. ASSUME Clear, NEW word \in DOMAIN Written
      PROVE  LET arg == call.args[word]
                 declared == Declared(known, call.tool, word)
             IN /\ arg.value = Written[word].value
                /\ Written[word].literal => arg.type = Written[word].value.json
                /\ ~Written[word].literal /\ Sayable(Written[word].value, declared) =>
                     Fits(arg.type, declared)
  BY <1>4, <1>5, SentInItsType, LiteralsAreTyped
<1>6. \A i : WrittenTool(line'[i]) = WrittenTool(line[i])
  BY DEF WrittenTool, TextOf, Bare
<1>7. \A offer, tool, word : Declared(offer, tool, word)' = Declared(offer, tool, word)
  OBVIOUS
<1>8. SentAsWritten' <=>
        (Clear' => /\ \E i \in ToolAt' : call.tool = WrittenTool(line'[i])
                   /\ DOMAIN call.args = DOMAIN Written'
                   /\ \A word \in DOMAIN Written' :
                        LET arg == call.args[word]
                            declared == Declared(known', call.tool, word)
                        IN /\ arg.value = Written'[word].value
                           /\ Written'[word].literal => arg.type = Written'[word].value.json
                           /\ ~Written'[word].literal /\ Sayable(Written'[word].value, declared) =>
                                Fits(arg.type, declared))
  <2>1. DOMAIN sent' = {1} /\ sent'[1] = call
    BY <1>1
  <2>2. QED BY <2>1 DEF SentAsWritten
<1>9. QED BY <1>1, <1>2, <1>4, <1>5, <1>6, <1>8

LEMMA LineStep ==
  ASSUME LineInv, [LineNext]_lineVars
  PROVE  LineInv'
<1>1. line' = line
  BY DEF lineVars, LineNext, FindsServer, Connects, Lists, Consents, Calls, Returns, ClosesLink,
         Redeploys
<1>2. /\ Clear' <=> Clear
      /\ Written' = Written /\ ToolAt' = ToolAt /\ (NoTool' <=> NoTool)
  BY <1>1, SameLine DEF NoTool
<1>3. /\ line \in Lines /\ (sent # <<>> => at \in {"answering", "closing", "ended"})
      /\ (at \in {"asked", "calling"} => ~NoTool) /\ SentAsWritten
  BY DEF LineInv
<1>4. CASE Calls
  <2>1. SentAsWritten'
    BY <1>1, <1>4, SentStep
  <2>2. at' = "answering"
    BY <1>4 DEF Calls
  <2>3. QED BY <1>1, <1>3, <2>1, <2>2 DEF LineInv
<1>5. CASE Lists
  <2>1. at = "listing" /\ sent' = sent
    BY <1>5 DEF Lists
  <2>2. sent = <<>>
    BY <1>3, <2>1
  <2>3. SentAsWritten'
    BY <2>1, <2>2 DEF SentAsWritten
  <2>4. at' \in {"asked", "calling"} => ~NoTool
    BY <1>5 DEF Lists, Throws
  <2>5. QED BY <1>1, <1>2, <1>3, <2>1, <2>2, <2>3, <2>4 DEF LineInv
<1>6. CASE ~Calls /\ ~Lists
  <2>1. known' = known /\ sent' = sent
    BY <1>6 DEF lineVars, LineNext, FindsServer, Connects, Consents, Returns, ClosesLink, Redeploys
  <2>2. SentAsWritten'
    <3>1. \A i : WrittenTool(line[i])' = WrittenTool(line[i])
      BY <1>1, SameLine
    <3>2. QED BY <1>1, <1>2, <1>3, <2>1, <3>1 DEF SentAsWritten
  <2>3. sent # <<>> => at' \in {"answering", "closing", "ended"}
    BY <1>3, <1>6 DEF lineVars, LineNext, FindsServer, Connects, Consents, Returns, ClosesLink,
                      Redeploys, Throws
  <2>4. at' \in {"asked", "calling"} => at \in {"asked", "calling"}
    BY <1>6 DEF lineVars, LineNext, FindsServer, Connects, Consents, Returns, ClosesLink,
                Redeploys, Throws
  <2>5. QED BY <1>1, <1>2, <1>3, <2>1, <2>2, <2>3, <2>4 DEF LineInv
<1>7. QED BY <1>4, <1>5, <1>6

\* The call that reaches a server is the one the line says, by either route, for every line and
\* every catalog: of the tool it names, with the texts mentioned last, in the types their literals
\* have or the schema declares; the two parsers, of the CLI's own flags and of the tool's, agree
\* on every clear line (cli.ts:299-328, invoke.ts:119-189, cli.ts:447-455).
THEOREM WhatIsWrittenIsSent == LineSpec => []SentAsWritten
<1>1. LineInit => LineInv
  BY DEF LineInit, LineInv, SentAsWritten
<1>2. LineInv /\ [LineNext]_lineVars => LineInv'
  BY LineStep
<1>3. LineInv => SentAsWritten
  BY DEF LineInv
<1>4. QED BY <1>1, <1>2, <1>3, PTL DEF LineSpec

-----------------------------------------------------------------------------
(* The contract: what a recursion over the nesting of schemas defines      *)

\* A step that looks only at what is less deep.
IsRecursion(Step, S, V, height) ==
  /\ height \in [S -> Nat] /\ Step \in [[S -> V] -> [S -> V]]
  /\ \A f, g \in [S -> V] : \A s \in S :
       (\A t \in S : height[t] < height[s] => f[t] = g[t]) => Step[f][s] = Step[g][s]

\* f is what the recursion defines as far as below n.
Solves(f, n, Step, S, V, height) ==
  f \in [S -> V] /\ \A s \in S : height[s] < n => f[s] = Step[f][s]

\* Two solutions agree as far as both go.
LEMMA SolvedOnce ==
  ASSUME NEW S, NEW V, NEW height, NEW Step, IsRecursion(Step, S, V, height),
         NEW n \in Nat, NEW f, Solves(f, n, Step, S, V, height),
         NEW m \in Nat, NEW g, Solves(g, m, Step, S, V, height)
  PROVE  \A s \in S : height[s] < n /\ height[s] < m => f[s] = g[s]
<1> DEFINE Differs(s) == height[s] < n /\ height[s] < m /\ f[s] # g[s]
           Heights == {k \in Nat : \E s \in S : height[s] = k /\ Differs(s)}
<1>1. /\ f \in [S -> V] /\ \A s \in S : height[s] < n => f[s] = Step[f][s]
      /\ g \in [S -> V] /\ \A s \in S : height[s] < m => g[s] = Step[g][s]
  BY DEF Solves
<1>2. \A s \in S : height[s] \in Nat
  BY DEF IsRecursion
<1>3. SUFFICES ASSUME NEW s \in S, Differs(s) PROVE FALSE
  OBVIOUS
<1>4. Heights \subseteq Nat /\ height[s] \in Heights
  BY <1>2, <1>3
<1>5. PICK h \in Heights : \A k \in Heights : h <= k
  <2> HIDE DEF Heights
  <2>1. QED BY <1>4, FirstIndex
<1>6. PICK t \in S : height[t] = h /\ Differs(t)
  OBVIOUS
<1>7. ASSUME NEW u \in S, height[u] < height[t] PROVE f[u] = g[u]
  <2>1. SUFFICES ASSUME f[u] # g[u] PROVE FALSE
    OBVIOUS
  <2>2. height[u] < n /\ height[u] < m
    BY <1>2, <1>6, <1>7
  <2>3. height[u] \in Heights
    BY <1>2, <2>1, <2>2
  <2>4. height[t] <= height[u]
    <3> HIDE DEF Heights, Differs
    <3>1. QED BY <1>5, <1>6, <2>3
  <2>5. QED BY <1>2, <1>7, <2>4
<1>8. Step[f][t] = Step[g][t]
  BY <1>1, <1>7 DEF IsRecursion
<1>9. QED BY <1>1, <1>6, <1>8

LEMMA SolvedFurther ==
  ASSUME NEW S, NEW V, NEW height, NEW Step, IsRecursion(Step, S, V, height),
         NEW n \in Nat, NEW f, Solves(f, n, Step, S, V, height)
  PROVE  Solves(Step[f], n + 1, Step, S, V, height)
<1>1. f \in [S -> V] /\ Step[f] \in [S -> V] /\ height \in [S -> Nat]
  BY DEF Solves, IsRecursion
<1>2. ASSUME NEW s \in S, height[s] < n + 1 PROVE Step[f][s] = Step[Step[f]][s]
  <2>1. ASSUME NEW t \in S, height[t] < height[s] PROVE f[t] = Step[f][t]
    <3>1. height[t] \in Nat /\ height[s] \in Nat
      BY <1>1
    <3>2. height[t] < n
      BY <1>2, <2>1, <3>1
    <3>3. QED BY <3>2 DEF Solves
  <2>2. QED BY <1>1, <2>1 DEF IsRecursion
<1>3. QED BY <1>1, <1>2 DEF Solves

\* A recursion has a solution.
LEMMA RecursionHolds ==
  ASSUME NEW S, NEW V, V # {}, NEW height, NEW Step, IsRecursion(Step, S, V, height)
  PROVE  \E f \in [S -> V] : f = Step[f]
<1> DEFINE Solved(n, f) == Solves(f, n, Step, S, V, height)
           Stuck == {n \in Nat : ~ \E f : Solved(n, f)}
<1>1. height \in [S -> Nat] /\ Step \in [[S -> V] -> [S -> V]]
  BY DEF IsRecursion
<1>2. \E f : Solved(0, f)
  <2>1. PICK default : default \in V
    OBVIOUS
  <2>2. Solved(0, [s \in S |-> default])
    BY <1>1, <2>1 DEF Solves
  <2>3. QED BY <2>2
<1>3. Stuck = {}
  <2> SUFFICES ASSUME Stuck # {} PROVE FALSE
    OBVIOUS
  <2>1. PICK n \in Stuck : \A m \in Stuck : n <= m
    <3>1. Stuck \subseteq Nat
      OBVIOUS
    <3> HIDE DEF Stuck
    <3>2. QED BY <3>1, FirstIndex
  <2>2. n - 1 \in Nat /\ ~(n <= n - 1) /\ (n - 1) + 1 = n
    BY <1>2
  <2>3. PICK f : Solved(n - 1, f)
    BY <2>1, <2>2
  <2>4. Solved((n - 1) + 1, Step[f])
    BY <2>2, <2>3, SolvedFurther
  <2>5. QED BY <2>2, <2>4
<1> DEFINE Stage(n) == CHOOSE f : Solved(n, f)
           whole == [s \in S |-> Stage(height[s] + 1)[s]]
<1>4. ASSUME NEW n \in Nat PROVE Solved(n, Stage(n))
  BY <1>3
<1> HIDE DEF Stage
<1>5. ASSUME NEW s \in S
      PROVE  height[s] \in Nat /\ height[s] + 1 \in Nat /\ height[s] < height[s] + 1
  BY <1>1
<1>6. whole \in [S -> V]
  <2>1. ASSUME NEW s \in S PROVE Stage(height[s] + 1)[s] \in V
    BY <1>4, <1>5 DEF Solves
  <2>2. QED BY <2>1
<1>7. ASSUME NEW s \in S PROVE whole[s] = Step[whole][s]
  <2>1. PICK n \in Nat : n = height[s] + 1
    BY <1>5
  <2>2. ASSUME NEW t \in S, height[t] < height[s] PROVE Stage(n)[t] = whole[t]
    <3>1. PICK m \in Nat : m = height[t] + 1
      BY <1>5
    <3>2. height[t] < m /\ height[t] < n
      BY <1>5, <2>1, <2>2, <3>1
    <3>3. \A u \in S : height[u] < n /\ height[u] < m => Stage(n)[u] = Stage(m)[u]
      BY <1>4, SolvedOnce
    <3>4. QED BY <3>1, <3>2, <3>3
  <2>3. height[s] < n
    BY <1>5, <2>1
  <2>4. Stage(n) \in [S -> V] /\ Stage(n)[s] = Step[Stage(n)][s]
    BY <1>4, <2>3 DEF Solves
  <2>5. Step[Stage(n)][s] = Step[whole][s]
    <3> HIDE DEF whole
    <3>1. QED BY <1>6, <2>2, <2>4 DEF IsRecursion
  <2>6. QED BY <2>1, <2>4, <2>5
<1>8. whole = Step[whole]
  <2> HIDE DEF whole
  <2>1. Step[whole] \in [S -> V]
    BY <1>1, <1>6
  <2>2. QED BY <1>6, <1>7, <2>1
<1>9. QED BY <1>6, <1>8

LEMMA SchemaFacts ==
  ASSUME NEW s \in Schemas
  PROVE  /\ Height[s] \in Nat /\ s.types \in Seq(Types) /\ s.items \in Seq(Schemas)
         /\ \A p \in DOMAIN s.properties :
              s.properties[p] \in Schemas /\ Height[s.properties[p]] < Height[s]
         /\ \A i \in DOMAIN s.items : s.items[i] \in Schemas /\ Height[s.items[i]] < Height[s]
         /\ s.items # <<>> => 1 \in DOMAIN s.items
         /\ s.types # <<>> => 1 \in DOMAIN s.types /\ s.types[1] \in Types
<1>1. /\ Height[s] \in Nat /\ s.types \in Seq(Types) /\ s.items \in Seq(Schemas)
      /\ \A part \in Parts(s) : part \in Schemas /\ Height[part] < Height[s]
  BY ContractAssumption DEF ContractAssumption
<1>2. \A p \in DOMAIN s.properties : s.properties[p] \in Parts(s)
  BY DEF Parts
<1>3. \A i \in DOMAIN s.items : s.items[i] \in Parts(s)
  BY DEF Parts
<1>4. s.items # <<>> => 1 \in DOMAIN s.items
  BY <1>1
<1>5. s.types # <<>> => 1 \in DOMAIN s.types /\ s.types[1] \in Types
  BY <1>1
<1>6. QED BY <1>1, <1>2, <1>3, <1>4, <1>5

Pairs == Schemas \X Schemas
HeightOf == [pair \in Pairs |-> Height[pair[1]]]


\* The comparison of schemas is defined.
LEMMA BreaksIs ==
  ASSUME NEW variance, NEW prev \in Schemas, NEW next \in Schemas
  PROVE  Breaks(prev, next, variance) <=> BreaksBy(BreaksPair(variance), prev, next, variance)
<1> DEFINE Step == [f \in [Pairs -> BOOLEAN] |->
                      [pair \in Pairs |-> BreaksBy(f, pair[1], pair[2], variance)]]
<1>1. HeightOf \in [Pairs -> Nat]
  BY SchemaFacts DEF HeightOf, Pairs
<1>2. Step \in [[Pairs -> BOOLEAN] -> [Pairs -> BOOLEAN]]
  BY DEF BreaksBy
<1>3. ASSUME NEW f \in [Pairs -> BOOLEAN], NEW g \in [Pairs -> BOOLEAN], NEW pair \in Pairs,
             \A q \in Pairs : HeightOf[q] < HeightOf[pair] => f[q] = g[q]
      PROVE  Step[f][pair] = Step[g][pair]
  <2>1. PICK a \in Schemas, b \in Schemas : pair = <<a, b>>
    BY DEF Pairs
  <2>2. \A c, d \in Schemas : Height[c] < Height[a] => f[<<c, d>>] = g[<<c, d>>]
    <3>1. SUFFICES ASSUME NEW c \in Schemas, NEW d \in Schemas, Height[c] < Height[a]
                   PROVE  f[<<c, d>>] = g[<<c, d>>]
      OBVIOUS
    <3>2. <<c, d>> \in Pairs /\ HeightOf[<<c, d>>] = Height[c] /\ HeightOf[pair] = Height[a]
      BY <2>1 DEF Pairs, HeightOf
    <3>3. QED BY <1>3, <3>1, <3>2
  <2>3. \A p \in DOMAIN a.properties \cap DOMAIN b.properties :
          f[<<a.properties[p], b.properties[p]>>] = g[<<a.properties[p], b.properties[p]>>]
    BY <2>2, SchemaFacts
  <2>4. a.items # <<>> /\ b.items # <<>> =>
          f[<<a.items[1], b.items[1]>>] = g[<<a.items[1], b.items[1]>>]
    BY <2>2, SchemaFacts
  <2>5. BreaksBy(f, a, b, variance) = BreaksBy(g, a, b, variance)
    BY <2>3, <2>4 DEF BreaksBy
  <2>6. QED BY <2>1, <2>5
<1>4. IsRecursion(Step, Pairs, BOOLEAN, HeightOf)
  <2> HIDE DEF Step
  <2>1. QED BY <1>1, <1>2, <1>3 DEF IsRecursion
<1>5. PICK f \in [Pairs -> BOOLEAN] : f = Step[f]
  <2> HIDE DEF Step
  <2>1. PICK V : V = BOOLEAN
    OBVIOUS
  <2>2. V # {} /\ IsRecursion(Step, Pairs, V, HeightOf)
    BY <1>4, <2>1
  <2>3. \E f \in [Pairs -> V] : f = Step[f]
    BY <2>2, RecursionHolds
  <2>4. QED BY <2>1, <2>3
<1>6. f = [pair \in Schemas \X Schemas |-> BreaksBy(f, pair[1], pair[2], variance)]
  BY <1>5 DEF Pairs
<1>7. BreaksPair(variance) =
        [pair \in Schemas \X Schemas |-> BreaksBy(BreaksPair(variance), pair[1], pair[2], variance)]
  BY <1>6 DEF BreaksPair
<1>8. <<prev, next>> \in Schemas \X Schemas /\ <<prev, next>>[1] = prev /\ <<prev, next>>[2] = next
  OBVIOUS
<1>9. QED BY <1>7, <1>8 DEF Breaks

ValuesBy(f, s, extra) == {v \in Values : AdmitsBy(f, s, v, extra)}

\* So is what a schema admits.
LEMMA AdmittedIs ==
  ASSUME NEW extra, NEW s \in Schemas
  PROVE  Admitted(extra)[s] = {v \in Values : AdmitsBy(Admitted(extra), s, v, extra)}
<1> DEFINE Step == [f \in [Schemas -> SUBSET Values] |-> [t \in Schemas |-> ValuesBy(f, t, extra)]]
<1>1. Height \in [Schemas -> Nat]
  BY ContractAssumption DEF ContractAssumption
<1>2. Step \in [[Schemas -> SUBSET Values] -> [Schemas -> SUBSET Values]]
  BY DEF ValuesBy
<1>3. ASSUME NEW f \in [Schemas -> SUBSET Values], NEW g \in [Schemas -> SUBSET Values], NEW t \in Schemas,
             \A u \in Schemas : Height[u] < Height[t] => f[u] = g[u]
      PROVE  Step[f][t] = Step[g][t]
  <2>1. \A p \in DOMAIN t.properties : f[t.properties[p]] = g[t.properties[p]]
    BY <1>3, SchemaFacts
  <2>2. t.items # <<>> => f[t.items[1]] = g[t.items[1]]
    BY <1>3, SchemaFacts
  <2>3. ASSUME NEW v \in Values PROVE AdmitsBy(f, t, v, extra) <=> AdmitsBy(g, t, v, extra)
    BY <2>1, <2>2 DEF AdmitsBy
  <2>4. ValuesBy(f, t, extra) = ValuesBy(g, t, extra)
    BY <2>3 DEF ValuesBy
  <2>5. QED BY <2>4
<1>4. IsRecursion(Step, Schemas, SUBSET Values, Height)
  <2> HIDE DEF Step
  <2>1. QED BY <1>1, <1>2, <1>3 DEF IsRecursion
<1>5. PICK f \in [Schemas -> SUBSET Values] : f = Step[f]
  <2> HIDE DEF Step
  <2>1. PICK V : V = SUBSET Values
    OBVIOUS
  <2>2. {} \in V /\ IsRecursion(Step, Schemas, V, Height)
    BY <1>4, <2>1
  <2>3. \E f \in [Schemas -> V] : f = Step[f]
    BY <2>2, RecursionHolds
  <2>4. QED BY <2>1, <2>3
<1>6. f = [t \in Schemas |-> {v \in Values : AdmitsBy(f, t, v, extra)}]
  BY <1>5 DEF ValuesBy
<1>7. Admitted(extra) = [t \in Schemas |-> {v \in Values : AdmitsBy(Admitted(extra), t, v, extra)}]
  BY <1>6 DEF Admitted
<1>8. QED BY <1>7

ComparableTo(f, s) == {t \in Schemas : ComparableBy(f, s, t)}

\* And what the comparison looks at.
LEMMA ComparableIs ==
  ASSUME NEW prev \in Schemas, NEW next \in Schemas
  PROVE  Comparable(prev, next) <=> ComparableBy(AllComparable, prev, next)
<1> DEFINE Step == [f \in [Schemas -> SUBSET Schemas] |-> [t \in Schemas |-> ComparableTo(f, t)]]
<1>1. Height \in [Schemas -> Nat]
  BY ContractAssumption DEF ContractAssumption
<1>2. Step \in [[Schemas -> SUBSET Schemas] -> [Schemas -> SUBSET Schemas]]
  BY DEF ComparableTo
<1>3. ASSUME NEW f \in [Schemas -> SUBSET Schemas], NEW g \in [Schemas -> SUBSET Schemas], NEW t \in Schemas,
             \A u \in Schemas : Height[u] < Height[t] => f[u] = g[u]
      PROVE  Step[f][t] = Step[g][t]
  <2>1. \A p \in DOMAIN t.properties : f[t.properties[p]] = g[t.properties[p]]
    BY <1>3, SchemaFacts
  <2>2. \A i \in DOMAIN t.items : f[t.items[i]] = g[t.items[i]]
    BY <1>3, SchemaFacts
  <2>3. ASSUME NEW u \in Schemas PROVE ComparableBy(f, t, u) <=> ComparableBy(g, t, u)
    BY <2>1, <2>2 DEF ComparableBy
  <2>4. ComparableTo(f, t) = ComparableTo(g, t)
    BY <2>3 DEF ComparableTo
  <2>5. QED BY <2>4
<1>4. IsRecursion(Step, Schemas, SUBSET Schemas, Height)
  <2> HIDE DEF Step
  <2>1. QED BY <1>1, <1>2, <1>3 DEF IsRecursion
<1>5. PICK f \in [Schemas -> SUBSET Schemas] : f = Step[f]
  <2> HIDE DEF Step
  <2>1. PICK V : V = SUBSET Schemas
    OBVIOUS
  <2>2. {} \in V /\ IsRecursion(Step, Schemas, V, Height)
    BY <1>4, <2>1
  <2>3. \E f \in [Schemas -> V] : f = Step[f]
    BY <2>2, RecursionHolds
  <2>4. QED BY <2>1, <2>3
<1>6. f = [t \in Schemas |-> {u \in Schemas : ComparableBy(f, t, u)}]
  BY <1>5 DEF ComparableTo
<1>7. AllComparable = [t \in Schemas |-> {u \in Schemas : ComparableBy(AllComparable, t, u)}]
  BY <1>6 DEF AllComparable
<1>8. QED BY <1>7 DEF Comparable

LEMMA NoLength ==
  ASSUME NEW S, NEW q \in Seq(S)
  PROVE  Len(q) \in Nat /\ DOMAIN q = 1 .. Len(q) /\ (Len(q) = 0 <=> q = <<>>)
OBVIOUS

\* A value has the one type of a schema, if the schema has one.
HasType(v, s) == s.types # <<>> => \E i \in DOMAIN s.types : IsA(v, s.types[i])

LEMMA OneType ==
  ASSUME NEW s \in Schemas, Len(s.types) <= 1, NEW v
  PROVE  /\ Len(s.types) \in {0, 1} /\ (Len(s.types) = 0 <=> s.types = <<>>)
         /\ s.types # <<>> => TypeOf(s) = s.types[1] /\ TypeOf(s) # None
         /\ HasType(v, s) <=> (s.types = <<>> \/ IsA(v, TypeOf(s)))
<1>1. s.types \in Seq(Types) /\ Len(s.types) \in Nat
  BY SchemaFacts
<1>2. Len(s.types) \in {0, 1} /\ (Len(s.types) = 0 <=> s.types = <<>>)
  <2>1. Len(s.types) = 0 <=> s.types = <<>>
    BY <1>1, NoLength
  <2>2. PICK n \in Nat : n = Len(s.types)
    BY <1>1
  <2>3. n <= 1
    BY <2>2
  <2>4. n \in {0, 1}
    BY <2>3
  <2>5. QED BY <2>1, <2>2, <2>4
<1>3. ASSUME s.types # <<>> PROVE DOMAIN s.types = {1} /\ s.types[1] \in Types
  BY <1>1, <1>2, <1>3
<1>4. s.types # <<>> => TypeOf(s) = s.types[1] /\ TypeOf(s) # None
  BY <1>3 DEF TypeOf, Types, None
<1>5. HasType(v, s) <=> (s.types = <<>> \/ IsA(v, TypeOf(s)))
  BY <1>3, <1>4 DEF HasType
<1>6. QED BY <1>2, <1>4, <1>5

LEMMA TypeCarries ==
  ASSUME NEW prev \in Schemas, NEW next \in Schemas, NEW v,
         Len(prev.types) = Len(next.types), Len(prev.types) <= 1
  PROVE  /\ ~BreaksType(prev, next, "in") /\ HasType(v, prev) => HasType(v, next)
         /\ ~BreaksType(prev, next, "out") /\ HasType(v, next) => HasType(v, prev)
<1>1. prev.types = <<>> <=> next.types = <<>>
  BY OneType
<1>2. CASE prev.types = <<>>
  BY <1>1, <1>2 DEF HasType
<1>3. CASE prev.types # <<>>
  <2>1. None \notin {TypeOf(prev), TypeOf(next)}
    BY <1>1, <1>3, OneType
  <2>2. (HasType(v, prev) <=> IsA(v, TypeOf(prev))) /\ (HasType(v, next) <=> IsA(v, TypeOf(next)))
    BY <1>1, <1>3, OneType
  <2>3. ~BreaksType(prev, next, "in") /\ IsA(v, TypeOf(prev)) => IsA(v, TypeOf(next))
    BY <2>1 DEF BreaksType, IsA, Numeric
  <2>4. ~BreaksType(prev, next, "out") /\ IsA(v, TypeOf(next)) => IsA(v, TypeOf(prev))
    BY <2>1 DEF BreaksType, IsA, Numeric
  <2>5. QED BY <2>2, <2>3, <2>4
<1>4. QED BY <1>2, <1>3

\* Neither has a type but for arrays where items are.
LEMMA ItemsAreCompared ==
  ASSUME NEW prev \in Schemas, NEW next \in Schemas, NEW v, NEW variance,
         Len(prev.types) = Len(next.types), Len(prev.types) <= 1,
         Len(prev.items) = Len(next.items), prev.items # <<>> => prev.types # <<>>,
         v.kind = "array", HasType(v, prev), HasType(v, next), prev.items # <<>> \/ next.items # <<>>
  PROVE  /\ prev.items # <<>> /\ next.items # <<>> /\ 1 \in DOMAIN prev.items
         /\ TypeOf(prev) = "array" /\ TypeOf(next) = "array"
<1>1. prev.items \in Seq(Schemas) /\ next.items \in Seq(Schemas)
  BY SchemaFacts
<1>2. prev.items # <<>> /\ next.items # <<>> /\ 1 \in DOMAIN prev.items
  <2>1. Len(prev.items) \in Nat /\ DOMAIN prev.items = 1 .. Len(prev.items)
    BY <1>1, NoLength
  <2>2. (prev.items = <<>>) <=> (Len(prev.items) = 0)
    BY <1>1, NoLength
  <2>3. (next.items = <<>>) <=> (Len(next.items) = 0)
    BY <1>1, NoLength
  <2>4. QED BY <2>1, <2>2, <2>3
<1>3. prev.types # <<>> /\ next.types # <<>>
  BY <1>2, OneType
<1>4. IsA(v, TypeOf(prev)) /\ IsA(v, TypeOf(next))
  BY <1>3, OneType
<1>5. QED BY <1>2, <1>4 DEF IsA

LEMMA EnumCarries ==
  ASSUME NEW prev, NEW next, NEW x
  PROVE  /\ ~BreaksEnum(prev, next, "in") /\ (prev.enum # <<>> => x \in prev.enum[1])
              => (next.enum # <<>> => x \in next.enum[1])
         /\ ~BreaksEnum(prev, next, "out") /\ (next.enum # <<>> => x \in next.enum[1])
              => (prev.enum # <<>> => x \in prev.enum[1])
BY DEF BreaksEnum

\* What was sent is still accepted, if that is so of the parts.
LEMMA AcceptedStep ==
  ASSUME NEW prev \in Schemas, NEW next \in Schemas,
         ComparableBy(AllComparable, prev, next), ~BreaksBy(BreaksPair("in"), prev, next, "in"),
         None \notin {prev.is, next.is} =>
           /\ \A p \in DOMAIN prev.properties \cap DOMAIN next.properties :
                StillAccepted(prev.properties[p], next.properties[p])
           /\ (prev.items # <<>> /\ next.items # <<>> /\ TypeOf(prev) = "array" /\ TypeOf(next) = "array")
                => StillAccepted(prev.items[1], next.items[1])
  PROVE  StillAccepted(prev, next)
<1>1. SUFFICES ASSUME NEW v \in Values, AdmitsBy(Admitted("none"), prev, v, "none")
               PROVE  AdmitsBy(Admitted("allows"), next, v, "allows")
  BY AdmittedIs DEF StillAccepted
<1>2. CASE next.is = None
  BY <1>2 DEF AdmitsBy
<1>3. CASE next.is # None
  <2>1. prev.is # None /\ None \notin {prev.is, next.is}
    BY <1>3 DEF ComparableBy
  <2>2. /\ ~BreaksType(prev, next, "in") /\ ~BreaksEnum(prev, next, "in")
        /\ \A p \in DOMAIN prev.properties \cup DOMAIN next.properties : ~BreaksProperty(prev, next, "in", p)
    BY <2>1 DEF BreaksBy
  <2>3. HasType(v, prev)
    BY <1>1, <2>1 DEF AdmitsBy, HasType
  <2>4. HasType(v, next)
    BY <2>2, <2>3, TypeCarries DEF ComparableBy
  <2>5. next.enum # <<>> => v.scalar \in next.enum[1]
    BY <1>1, <2>1, <2>2, EnumCarries DEF AdmitsBy
  <2>6. ASSUME v.kind = "object"
        PROVE  /\ next.required \subseteq DOMAIN v.fields
               /\ next.strict => DOMAIN v.fields \subseteq DOMAIN next.properties
               /\ \A p \in DOMAIN v.fields \cap DOMAIN next.properties :
                    v.fields[p] \in Admitted("allows")[next.properties[p]]
    <3>1. /\ prev.required \subseteq DOMAIN v.fields
          /\ DOMAIN v.fields \subseteq DOMAIN prev.properties
          /\ \A p \in DOMAIN v.fields \cap DOMAIN prev.properties :
               v.fields[p] \in Admitted("none")[prev.properties[p]]
      BY <1>1, <2>1, <2>6 DEF AdmitsBy
    <3>2. next.required \subseteq prev.required
      BY <2>2 DEF BreaksProperty, ComparableBy
    <3>3. next.strict => DOMAIN v.fields \subseteq DOMAIN next.properties
      BY <3>1 DEF ComparableBy
    <3>4. ASSUME NEW p \in DOMAIN v.fields \cap DOMAIN next.properties
          PROVE  v.fields[p] \in Admitted("allows")[next.properties[p]]
      BY <2>1, <3>1 DEF StillAccepted
    <3>5. QED BY <3>1, <3>2, <3>3, <3>4
  <2>7. ASSUME v.kind = "array", next.items # <<>>, NEW i \in DOMAIN v.elements
        PROVE  v.elements[i] \in Admitted("allows")[next.items[1]]
    <3>1. prev.items # <<>> /\ TypeOf(prev) = "array" /\ TypeOf(next) = "array"
      BY <2>3, <2>4, <2>7, ItemsAreCompared DEF ComparableBy
    <3>2. v.elements[i] \in Admitted("none")[prev.items[1]]
      BY <1>1, <2>1, <2>7, <3>1 DEF AdmitsBy
    <3>3. QED BY <2>1, <2>7, <3>1, <3>2 DEF StillAccepted
  <2>8. QED BY <2>4, <2>5, <2>6, <2>7 DEF AdmitsBy, HasType
<1>4. QED BY <1>2, <1>3

\* What comes is still what was read, if that is so of the parts.
LEMMA ReadableStep ==
  ASSUME NEW prev \in Schemas, NEW next \in Schemas,
         ComparableBy(AllComparable, prev, next), ~BreaksBy(BreaksPair("out"), prev, next, "out"),
         None \notin {prev.is, next.is} =>
           /\ \A p \in DOMAIN prev.properties \cap DOMAIN next.properties :
                StillReadable(prev.properties[p], next.properties[p])
           /\ (prev.items # <<>> /\ next.items # <<>> /\ TypeOf(prev) = "array" /\ TypeOf(next) = "array")
                => StillReadable(prev.items[1], next.items[1])
  PROVE  StillReadable(prev, next)
<1>1. SUFFICES ASSUME NEW v \in Values, AdmitsBy(Admitted("allows"), next, v, "allows")
               PROVE  AdmitsBy(Admitted("any"), prev, v, "any")
  BY AdmittedIs DEF StillReadable
<1>2. CASE prev.is = None
  BY <1>2 DEF AdmitsBy
<1>3. CASE prev.is # None
  <2>1. next.is # None /\ None \notin {prev.is, next.is}
    BY <1>3 DEF ComparableBy
  <2>2. /\ ~BreaksType(prev, next, "out") /\ ~BreaksEnum(prev, next, "out")
        /\ \A p \in DOMAIN prev.properties \cup DOMAIN next.properties : ~BreaksProperty(prev, next, "out", p)
    BY <2>1 DEF BreaksBy
  <2>3. HasType(v, next)
    BY <1>1, <2>1 DEF AdmitsBy, HasType
  <2>4. HasType(v, prev)
    BY <2>2, <2>3, TypeCarries DEF ComparableBy
  <2>5. prev.enum # <<>> => v.scalar \in prev.enum[1]
    BY <1>1, <2>1, <2>2, EnumCarries DEF AdmitsBy
  <2>6. ASSUME v.kind = "object"
        PROVE  /\ prev.required \subseteq DOMAIN v.fields
               /\ \A p \in DOMAIN v.fields \cap DOMAIN prev.properties :
                    v.fields[p] \in Admitted("any")[prev.properties[p]]
    <3>1. /\ next.required \subseteq DOMAIN v.fields
          /\ \A p \in DOMAIN v.fields \cap DOMAIN next.properties :
               v.fields[p] \in Admitted("allows")[next.properties[p]]
      BY <1>1, <2>1, <2>6 DEF AdmitsBy
    <3>2. DOMAIN prev.properties \subseteq DOMAIN next.properties
      BY <2>2 DEF BreaksProperty
    <3>3. prev.required \subseteq next.required
      BY <2>2, <3>2 DEF BreaksProperty, ComparableBy
    <3>4. ASSUME NEW p \in DOMAIN v.fields \cap DOMAIN prev.properties
          PROVE  v.fields[p] \in Admitted("any")[prev.properties[p]]
      BY <2>1, <3>1, <3>2 DEF StillReadable
    <3>5. QED BY <3>1, <3>3, <3>4
  <2>7. ASSUME v.kind = "array", prev.items # <<>>, NEW i \in DOMAIN v.elements
        PROVE  v.elements[i] \in Admitted("any")[prev.items[1]]
    <3>1. next.items # <<>> /\ TypeOf(prev) = "array" /\ TypeOf(next) = "array"
      BY <2>3, <2>4, <2>7, ItemsAreCompared DEF ComparableBy
    <3>2. v.elements[i] \in Admitted("allows")[next.items[1]]
      BY <1>1, <2>1, <2>7, <3>1 DEF AdmitsBy
    <3>3. QED BY <2>1, <2>7, <3>1, <3>2 DEF StillReadable
  <2>8. QED BY <2>4, <2>5, <2>6, <2>7 DEF AdmitsBy, HasType
<1>4. QED BY <1>2, <1>3

\* So it is of every pair of schemas, from the flat ones up.
LEMMA SchemasHold ==
  ASSUME NEW prev \in Schemas, NEW next \in Schemas, Comparable(prev, next)
  PROVE  /\ ~Breaks(prev, next, "in") => StillAccepted(prev, next)
         /\ ~Breaks(prev, next, "out") => StillReadable(prev, next)
<1> DEFINE Holds(a, b) == /\ ~Breaks(a, b, "in") => StillAccepted(a, b)
                          /\ ~Breaks(a, b, "out") => StillReadable(a, b)
           Wrong == {k \in Nat : \E a, b \in Schemas : Height[a] = k /\ Comparable(a, b) /\ ~Holds(a, b)}
<1>1. SUFFICES ASSUME Wrong # {} PROVE FALSE
  <2>1. Height[prev] \in Nat
    BY SchemaFacts
  <2>2. QED BY <1>1, <2>1
<1>2. PICK k \in Wrong : \A j \in Wrong : k <= j
  <2>1. Wrong \subseteq Nat
    OBVIOUS
  <2> HIDE DEF Wrong
  <2>2. QED BY <1>1, <2>1, FirstIndex
<1>3. PICK a \in Schemas, b \in Schemas : Height[a] = k /\ Comparable(a, b) /\ ~Holds(a, b)
  OBVIOUS
<1>4. ASSUME NEW c \in Schemas, NEW d \in Schemas, Height[c] < Height[a], Comparable(c, d)
      PROVE  Holds(c, d)
  <2>1. SUFFICES ASSUME ~Holds(c, d) PROVE FALSE
    OBVIOUS
  <2>2. Height[c] \in Nat /\ Height[a] \in Nat
    BY SchemaFacts
  <2>3. Height[c] \in Wrong
    BY <1>4, <2>1, <2>2
  <2> HIDE DEF Wrong, Holds
  <2>4. QED BY <1>2, <1>3, <1>4, <2>2, <2>3
<1> HIDE DEF Wrong
<1>5. ComparableBy(AllComparable, a, b)
  BY <1>3, ComparableIs
<1>6. ASSUME NEW p \in DOMAIN a.properties \cap DOMAIN b.properties
      PROVE  Holds(a.properties[p], b.properties[p])
  <2>1. /\ a.properties[p] \in Schemas /\ b.properties[p] \in Schemas
        /\ Height[a.properties[p]] < Height[a]
    BY SchemaFacts
  <2>2. Comparable(a.properties[p], b.properties[p])
    BY <1>5 DEF ComparableBy, Comparable
  <2> HIDE DEF Holds
  <2>3. QED BY <1>4, <2>1, <2>2
<1>7. ASSUME a.items # <<>>, b.items # <<>> PROVE Holds(a.items[1], b.items[1])
  <2>1. /\ a.items[1] \in Schemas /\ b.items[1] \in Schemas
        /\ Height[a.items[1]] < Height[a] /\ 1 \in DOMAIN a.items
    BY <1>7, SchemaFacts
  <2>2. Comparable(a.items[1], b.items[1])
    BY <1>5, <2>1 DEF ComparableBy, Comparable
  <2> HIDE DEF Holds
  <2>3. QED BY <1>4, <2>1, <2>2
<1>8. ASSUME ~Breaks(a, b, "in") PROVE StillAccepted(a, b)
  <2>1. ~BreaksBy(BreaksPair("in"), a, b, "in")
    BY <1>8, BreaksIs
  <2>2. ASSUME None \notin {a.is, b.is}, NEW p \in DOMAIN a.properties \cap DOMAIN b.properties
        PROVE  StillAccepted(a.properties[p], b.properties[p])
    <3>1. ~Breaks(a.properties[p], b.properties[p], "in")
      BY <2>1, <2>2 DEF BreaksBy, Breaks
    <3>2. QED BY <1>6, <3>1
  <2>3. ASSUME None \notin {a.is, b.is}, a.items # <<>>, b.items # <<>>,
               TypeOf(a) = "array", TypeOf(b) = "array"
        PROVE  StillAccepted(a.items[1], b.items[1])
    <3>1. ~Breaks(a.items[1], b.items[1], "in")
      BY <2>1, <2>3 DEF BreaksBy, Breaks
    <3>2. QED BY <1>7, <2>3, <3>1
  <2>4. QED BY <1>5, <2>1, <2>2, <2>3, AcceptedStep
<1>9. ASSUME ~Breaks(a, b, "out") PROVE StillReadable(a, b)
  <2>1. ~BreaksBy(BreaksPair("out"), a, b, "out")
    BY <1>9, BreaksIs
  <2>2. ASSUME None \notin {a.is, b.is}, NEW p \in DOMAIN a.properties \cap DOMAIN b.properties
        PROVE  StillReadable(a.properties[p], b.properties[p])
    <3>1. ~Breaks(a.properties[p], b.properties[p], "out")
      BY <2>1, <2>2 DEF BreaksBy, Breaks
    <3>2. QED BY <1>6, <3>1
  <2>3. ASSUME None \notin {a.is, b.is}, a.items # <<>>, b.items # <<>>,
               TypeOf(a) = "array", TypeOf(b) = "array"
        PROVE  StillReadable(a.items[1], b.items[1])
    <3>1. ~Breaks(a.items[1], b.items[1], "out")
      BY <2>1, <2>3 DEF BreaksBy, Breaks
    <3>2. QED BY <1>7, <2>3, <3>1
  <2>4. QED BY <1>5, <2>1, <2>2, <2>3, ReadableStep
<1>10. QED BY <1>3, <1>8, <1>9

-----------------------------------------------------------------------------
(* The contract: what a capture has read and what a verdict was given on   *)

Known(tools) ==
  /\ DOMAIN tools \subseteq OfferedTools
  /\ \A n \in DOMAIN tools : {tools[n].input, tools[n].output} \subseteq Schemas

TakenIsRecord ==
  taken = [tools |-> taken.tools, resources |-> taken.resources, prompts |-> taken.prompts]

\* Unless the server has changed, a verify has read of the tools what is offered.
TakenIsOffered ==
  (command = "verify" /\ ~moved) =>
    /\ \A n \in OfferedTools \ unread : n \in DOMAIN offered.tools => n \in DOMAIN taken.tools
    /\ \A n \in DOMAIN taken.tools : n \in DOMAIN offered.tools /\ taken.tools[n] = offered.tools[n]

\* And a verdict that passes was given on it.
PassedOnOffered ==
  (verdict = "pass" /\ ~moved) =>
    \A n \in {t \in DOMAIN pinned.tools : IsUsed(t)} :
      n \in DOMAIN offered.tools /\ ~BreaksTool(pinned.tools[n], offered.tools[n])

ContractInv ==
  /\ ContractTypeOK
  /\ Known(pinned.tools) /\ Known(taken.tools) /\ TakenIsRecord
  /\ command # None => verdict = None
  /\ TakenIsOffered /\ PassedOnOffered

LEMMA OfferFacts ==
  ASSUME NEW o \in Offers
  PROVE  Known(o.tools)
BY ContractAssumption DEF ContractAssumption, Known, OfferedTools

LEMMA EmptyFacts ==
  /\ DOMAIN Empty.tools = {}
  /\ Empty = [tools |-> Empty.tools, resources |-> Empty.resources, prompts |-> Empty.prompts]
BY DEF Empty

LEMMA NoUse ==
  ASSUME UNCHANGED used
  PROVE  \A n : IsUsed(n)' <=> IsUsed(n)
BY DEF IsUsed

LEMMA BeginsKeeps ==
  ASSUME ContractInv, NEW what \in {"snapshot", "verify"}, Begins(what)
  PROVE  ContractInv'
<1>1. ContractTypeOK'
  <2>1. used' \in Uses \cup {{}}
    BY DEF Begins
  <2>2. QED BY <2>1, EmptyFacts DEF ContractInv, ContractTypeOK, Begins
<1>2. Known(pinned.tools)' /\ Known(taken.tools)' /\ TakenIsRecord'
  BY EmptyFacts DEF ContractInv, Begins, Known, TakenIsRecord, OfferedTools
<1>3. (command # None => verdict = None)' /\ PassedOnOffered'
  BY DEF Begins, PassedOnOffered, None
<1>4. TakenIsOffered'
  BY EmptyFacts DEF ContractInv, Begins, TakenIsOffered, OfferedTools
<1>5. QED BY <1>1, <1>2, <1>3, <1>4 DEF ContractInv

LEMMA ToolsPageKeeps ==
  ASSUME ContractInv, NEW names \in SUBSET OfferedTools, ToolsPage(names)
  PROVE  ContractInv'
<1> DEFINE read == DOMAIN taken.tools \cup (names \cap DOMAIN offered.tools)
<1>1. /\ taken'.tools = [n \in read |-> IF n \in DOMAIN taken.tools THEN taken.tools[n] ELSE offered.tools[n]]
      /\ TakenIsRecord'
  BY DEF ToolsPage, ContractInv, TakenIsRecord
<1>2. /\ DOMAIN taken'.tools = read
      /\ \A n \in DOMAIN taken.tools : taken'.tools[n] = taken.tools[n]
      /\ \A n \in read \ DOMAIN taken.tools : n \in DOMAIN offered.tools /\ taken'.tools[n] = offered.tools[n]
  BY <1>1
<1>3. offered \in Offers /\ Known(offered.tools) /\ Known(taken.tools)
  BY OfferFacts DEF ContractInv, ContractTypeOK
<1>4. Known(taken'.tools)
  <2> HIDE DEF read
  <2>1. \A n \in DOMAIN taken'.tools :
          \/ n \in DOMAIN taken.tools /\ taken'.tools[n] = taken.tools[n]
          \/ n \in DOMAIN offered.tools /\ taken'.tools[n] = offered.tools[n]
    BY <1>2 DEF read
  <2>2. QED BY <1>3, <2>1 DEF Known
<1>5. ContractTypeOK'
  BY <1>4 DEF ContractInv, ContractTypeOK, ToolsPage, Known
<1>6. TakenIsOffered'
  <2> SUFFICES ASSUME command = "verify", ~moved
               PROVE  TakenIsOffered'
    BY DEF TakenIsOffered, ToolsPage
  <2>1. /\ \A n \in OfferedTools \ unread : n \in DOMAIN offered.tools => n \in DOMAIN taken.tools
        /\ \A n \in DOMAIN taken.tools : n \in DOMAIN offered.tools /\ taken.tools[n] = offered.tools[n]
    BY DEF ContractInv, TakenIsOffered
  <2>2. \A n \in OfferedTools \ unread' : n \in DOMAIN offered.tools => n \in DOMAIN taken'.tools
    BY <1>2, <2>1 DEF ToolsPage
  <2>3. \A n \in DOMAIN taken'.tools : n \in DOMAIN offered.tools /\ taken'.tools[n] = offered.tools[n]
    BY <1>2, <2>1
  <2>4. QED BY <2>2, <2>3 DEF TakenIsOffered, ToolsPage, OfferedTools
<1>7. PassedOnOffered'
  BY DEF ContractInv, ToolsPage, PassedOnOffered, None
<1>8. (command # None => verdict = None)' /\ Known(pinned.tools)'
  BY DEF ContractInv, ToolsPage, Known, OfferedTools
<1>9. Known(taken.tools)'
  BY <1>4 DEF Known, OfferedTools
<1>10. QED BY <1>1, <1>5, <1>6, <1>7, <1>8, <1>9 DEF ContractInv

LEMMA ListingKeeps ==
  ASSUME ContractInv, NEW what \in {"resources", "prompts"}, Listing(what)
  PROVE  ContractInv'
<1>1. taken'.tools = taken.tools /\ TakenIsRecord'
  BY DEF Listing, ContractInv, TakenIsRecord
<1>2. ContractTypeOK'
  BY <1>1 DEF ContractInv, ContractTypeOK, Listing
<1>3. Known(taken.tools)' /\ Known(pinned.tools)'
  BY <1>1 DEF ContractInv, Known, OfferedTools, Listing
<1>4. TakenIsOffered'
  <2>1. OfferedTools \ unread' = OfferedTools \ unread
    BY DEF Listing
  <2>2. QED BY <1>1, <2>1 DEF ContractInv, TakenIsOffered, Listing, OfferedTools
<1>5. (command # None => verdict = None)' /\ PassedOnOffered'
  BY DEF ContractInv, Listing, PassedOnOffered, None
<1>6. QED BY <1>1, <1>2, <1>3, <1>4, <1>5 DEF ContractInv

LEMMA EndsKeeps ==
  ASSUME ContractInv, Ends
  PROVE  ContractInv'
<1>1. ContractTypeOK'
  BY EmptyFacts DEF ContractInv, ContractTypeOK, Ends, Known
<1>2. Known(pinned.tools)' /\ Known(taken.tools)' /\ TakenIsRecord'
  BY EmptyFacts DEF ContractInv, Ends, Known, TakenIsRecord, OfferedTools
<1>3. (command # None => verdict = None)' /\ TakenIsOffered'
  BY DEF Ends, TakenIsOffered, None
<1>4. PassedOnOffered'
  <2> SUFFICES ASSUME (verdict = "pass")', ~moved, NEW n \in DOMAIN pinned'.tools, IsUsed(n)
               PROVE  n \in DOMAIN offered.tools /\ ~BreaksTool(pinned'.tools[n], offered.tools[n])
    BY DEF PassedOnOffered, Ends, IsUsed
  <2>1. verdict = None /\ command # None
    BY DEF ContractInv, Ends
  <2>2. command = "verify" /\ ~Breaking(pinned, taken) /\ pinned' = pinned
    BY <2>1 DEF Ends, ContractInv, ContractTypeOK, None
  <2>3. n \in OfferedTools /\ n \in DOMAIN pinned.tools
    BY <2>2 DEF ContractInv, Known
  <2>4. n \notin Broken(pinned, taken)
    BY <2>2 DEF Breaking
  <2>5. n \in DOMAIN taken.tools /\ ~BreaksTool(pinned.tools[n], taken.tools[n])
    BY <2>3, <2>4 DEF Broken, Removed
  <2>6. n \in DOMAIN offered.tools /\ taken.tools[n] = offered.tools[n]
    BY <2>2, <2>5 DEF ContractInv, TakenIsOffered
  <2>7. QED BY <2>2, <2>5, <2>6
<1>5. QED BY <1>1, <1>2, <1>3, <1>4 DEF ContractInv

LEMMA DeploysKeeps ==
  ASSUME ContractInv, Deploys
  PROVE  ContractInv'
<1>1. ContractTypeOK'
  <2>1. moves' \in 0 .. MaxMoves
    BY ContractAssumption DEF ContractAssumption, ContractInv, ContractTypeOK, Deploys
  <2>2. QED BY <2>1 DEF ContractInv, ContractTypeOK, Deploys, None
<1>2. Known(pinned.tools)' /\ Known(taken.tools)' /\ TakenIsRecord'
  BY DEF ContractInv, Deploys, Known, TakenIsRecord, OfferedTools
<1>3. /\ (command # None => verdict = None)'
      /\ TakenIsOffered' /\ PassedOnOffered'
  BY DEF Deploys, TakenIsOffered, PassedOnOffered, None
<1>4. QED BY <1>1, <1>2, <1>3 DEF ContractInv

LEMMA ContractStep == ContractInv /\ [ContractNext]_contractVars => ContractInv'
<1> SUFFICES ASSUME ContractInv, [ContractNext]_contractVars PROVE ContractInv'
  OBVIOUS
<1>1. CASE CaptureFails
  <2>1. ContractTypeOK'
    BY <1>1, EmptyFacts DEF ContractInv, ContractTypeOK, CaptureFails
  <2>2. Known(pinned.tools)' /\ Known(taken.tools)' /\ TakenIsRecord'
    BY <1>1, EmptyFacts DEF ContractInv, CaptureFails, Known, TakenIsRecord, OfferedTools
  <2>3. (command # None => verdict = None)' /\ TakenIsOffered' /\ PassedOnOffered'
    BY <1>1 DEF CaptureFails, TakenIsOffered, PassedOnOffered, None
  <2>4. QED BY <2>1, <2>2, <2>3 DEF ContractInv
<1>2. CASE UNCHANGED contractVars
  BY <1>2 DEF ContractInv, ContractTypeOK, Known, TakenIsRecord, TakenIsOffered, PassedOnOffered,
              OfferedTools, IsUsed, contractVars
<1>3. QED
  BY <1>1, <1>2, BeginsKeeps, ToolsPageKeeps, ListingKeeps, EndsKeeps, DeploysKeeps DEF ContractNext

LEMMA ContractStart == ContractInit => ContractInv
<1> SUFFICES ASSUME ContractInit PROVE ContractInv
  OBVIOUS
<1>1. ContractTypeOK
  <2>1. 0 \in 0 .. MaxMoves
    BY ContractAssumption DEF ContractAssumption
  <2>2. QED BY <2>1, EmptyFacts DEF ContractInit, ContractTypeOK
<1>2. QED
  BY <1>1, EmptyFacts DEF ContractInit, ContractInv, Known, TakenIsRecord, TakenIsOffered, PassedOnOffered, None

LEMMA ContractInvariant == ContractSpec => []ContractInv
BY ContractStart, ContractStep, PTL DEF ContractSpec

\* The capture and the comparison keep their variables well typed.
THEOREM ContractTypeCorrect == ContractSpec => []ContractTypeOK
<1>1. ContractInv => ContractTypeOK
  BY DEF ContractInv
<1>2. QED BY <1>1, ContractInvariant, PTL

\* A verify that passes means what a consumer reads into it: every tool it uses is there,
\* accepts what the pinned one accepted, returns what that one may have returned, and has
\* become neither destructive nor a writer (diffContract and diffSchema, contract.ts, schema.ts).
THEOREM PassingVerdictIsSound == ContractSpec => []VerdictIsSound
<1>1. ContractInv => VerdictIsSound
  <2> SUFFICES ASSUME ContractInv, verdict = "pass", ~moved,
                      NEW n \in {t \in DOMAIN pinned.tools : IsUsed(t)}
               PROVE  /\ n \in DOMAIN offered.tools
                      /\ LET a == pinned.tools[n]
                             b == offered.tools[n]
                         IN /\ Comparable(a.input, b.input) => StillAccepted(a.input, b.input)
                            /\ Comparable(a.output, b.output) => StillReadable(a.output, b.output)
                            /\ b.destructive => a.destructive
                            /\ a.readOnly => b.readOnly
    BY DEF VerdictIsSound
  <2> DEFINE a == pinned.tools[n]
             b == offered.tools[n]
  <2>1. n \in DOMAIN offered.tools /\ ~BreaksTool(a, b)
    BY DEF ContractInv, PassedOnOffered
  <2>2. Known(offered.tools)
    BY OfferFacts DEF ContractInv, ContractTypeOK
  <2>3. a.input \in Schemas /\ a.output \in Schemas /\ b.input \in Schemas /\ b.output \in Schemas
    BY <2>1, <2>2 DEF ContractInv, Known
  <2> HIDE DEF a, b
  <2>4. /\ ~BreaksHints(a, b)
        /\ ~Breaks(a.input, b.input, "in") /\ ~Breaks(a.output, b.output, "out")
    BY <2>1 DEF BreaksTool
  <2>5. Comparable(a.input, b.input) => StillAccepted(a.input, b.input)
    BY <2>3, <2>4, SchemasHold
  <2>6. Comparable(a.output, b.output) => StillReadable(a.output, b.output)
    BY <2>3, <2>4, SchemasHold
  <2>7. (b.destructive => a.destructive) /\ (a.readOnly => b.readOnly)
    BY <2>4 DEF BreaksHints
  <2>8. QED BY <2>1, <2>5, <2>6, <2>7 DEF a, b
<1>2. QED BY <1>1, ContractInvariant, PTL

-----------------------------------------------------------------------------
(* The daemon comes and goes                                               *)

\* The path names a daemon only while that daemon listens, and a request is in the hands of a
\* daemon that has listened, never of one that lost the race of the starts.
PathIsServed == file \in Daemons => process[file] \in {"serving", "closing"}
AskedHasServed ==
  \A c \in Callers :
    caller[c] \in {"asking", "answered"} =>
      peer[c] \in Daemons /\ process[peer[c]] \in {"serving", "closing", "gone"}

StartInv == StartTypeOK /\ PathIsServed /\ AskedHasServed

LEMMA CallerStep ==
  ASSUME StartInv, NEW c \in Callers, Invoke(c) \/ CallerActs(c) \/ TimesOut(c)
  PROVE  StartInv'
<1>0. /\ StartTypeOK /\ PathIsServed /\ AskedHasServed
      /\ file \in Daemons => file \notin {NoFile, Stale}
  BY StartupAssumption DEF StartInv, StartupAssumption
<1>1. ASSUME NEW st, Goes(c, st),
             st \in {"probing", "checking", "unlinking", "spawning", "polling", "ready", "asking", "answered", "failed"}
      PROVE  /\ caller' \in [Callers -> {"idle", "probing", "checking", "unlinking", "spawning", "polling",
                                         "ready", "asking", "answered", "failed"}]
             /\ caller'[c] = st /\ \A b \in Callers \ {c} : caller'[b] = caller[b]
  BY <1>0, <1>1 DEF StartTypeOK, Goes
<1>2. ASSUME NEW st \in {"probing", "checking", "unlinking", "spawning", "polling", "ready", "failed"},
             Goes(c, st), file' \in {file, NoFile}, UNCHANGED <<process, peer, ends>>
      PROVE  StartInv'
  <2>1. StartTypeOK'
    BY <1>0, <1>1, <1>2 DEF StartTypeOK
  <2>2. PathIsServed'
    BY <1>0, <1>2, StartupAssumption DEF PathIsServed, StartupAssumption
  <2>3. AskedHasServed'
    BY <1>0, <1>1, <1>2 DEF AskedHasServed
  <2>4. QED BY <2>1, <2>2, <2>3 DEF StartInv
<1>3. CASE Invoke(c) \/ Probe(c) \/ Checks(c) \/ Unlinks(c) \/ TimesOut(c)
  BY <1>2, <1>3 DEF Invoke, Probe, Checks, Unlinks, TimesOut
<1>4. CASE Spawns(c)
  <2>1. PICK d \in Daemons : process[d] = "unborn" /\ Moves(d, "starting")
    BY <1>4 DEF Spawns
  <2>2. Goes(c, "polling") /\ UNCHANGED <<file, peer, ends>>
    BY <1>4 DEF Spawns
  <2>3. process'[d] = "starting" /\ \A e \in Daemons \ {d} : process'[e] = process[e]
    BY <1>0, <2>1 DEF StartTypeOK, Moves
  <2>4. StartTypeOK'
    BY <1>0, <1>1, <2>1, <2>2 DEF StartTypeOK, Moves
  <2>5. PathIsServed'
    BY <1>0, <2>1, <2>2, <2>3 DEF PathIsServed
  <2>6. AskedHasServed'
    BY <1>0, <1>1, <2>1, <2>2, <2>3 DEF AskedHasServed
  <2>7. QED BY <2>4, <2>5, <2>6 DEF StartInv
<1>5. CASE Asks(c)
  <2>1. CASE Listening
    <3>1. /\ Goes(c, "asking") /\ peer' = [peer EXCEPT ![c] = file]
          /\ UNCHANGED <<file, process, ends>>
          /\ file \in Daemons /\ process[file] \in {"serving", "closing"}
      BY <1>5, <2>1 DEF Asks, Listening
    <3>2. StartTypeOK' /\ peer'[c] = file /\ \A b \in Callers \ {c} : peer'[b] = peer[b]
      BY <1>0, <1>1, <3>1 DEF StartTypeOK
    <3>3. PathIsServed'
      BY <1>0, <3>1 DEF PathIsServed
    <3>4. AskedHasServed'
      BY <1>0, <1>1, <3>1, <3>2 DEF AskedHasServed
    <3>5. QED BY <3>2, <3>3, <3>4 DEF StartInv
  <2>2. CASE ~Listening
    BY <1>2, <1>5, <2>2 DEF Asks
  <2>3. QED BY <2>1, <2>2
<1>6. CASE Answers1(c)
  <2>1. /\ caller[c] = "asking" /\ UNCHANGED <<file, process, peer, ends>>
        /\ Goes(c, "failed") \/ Goes(c, "answered")
    BY <1>6 DEF Answers1
  <2>2. StartTypeOK'
    BY <1>0, <1>1, <2>1 DEF StartTypeOK
  <2>3. PathIsServed'
    BY <1>0, <2>1 DEF PathIsServed
  <2>4. AskedHasServed'
    BY <1>0, <1>1, <2>1 DEF AskedHasServed
  <2>5. QED BY <2>2, <2>3, <2>4 DEF StartInv
<1>7. QED BY <1>3, <1>4, <1>5, <1>6 DEF CallerActs

LEMMA DaemonStep ==
  ASSUME StartInv, NEW d \in Daemons, DaemonActs(d) \/ ShutsDown(d) \/ Killed(d)
  PROVE  StartInv'
<1>0. /\ StartTypeOK /\ PathIsServed /\ AskedHasServed
      /\ NoFile \notin Daemons /\ Stale \notin Daemons /\ MaxEnds \in Nat
  BY StartupAssumption DEF StartInv, StartupAssumption
<1>1. ASSUME NEW st, Moves(d, st), st \in {"probing", "unlinking", "binding", "serving", "closing", "gone"}
      PROVE  /\ process' \in [Daemons -> {"unborn", "starting", "probing", "unlinking", "binding",
                                          "serving", "closing", "gone"}]
             /\ process'[d] = st /\ \A e \in Daemons \ {d} : process'[e] = process[e]
  BY <1>0, <1>1 DEF StartTypeOK, Moves
<1>2. ASSUME NEW st \in {"probing", "unlinking", "binding", "serving", "closing", "gone"}, Moves(d, st),
             UNCHANGED <<caller, peer>>, ends' \in 0 .. MaxEnds,
             process[d] \in {"serving", "closing", "gone"} => st \in {"closing", "gone"},
             \/ file' = d /\ st = "serving"
             \/ file' \in {NoFile, Stale}
             \/ file' = file /\ (file = d => st = "closing")
      PROVE  StartInv'
  <2>1. StartTypeOK'
    BY <1>0, <1>1, <1>2 DEF StartTypeOK
  <2>2. PathIsServed'
    BY <1>0, <1>1, <1>2 DEF PathIsServed
  <2>3. AskedHasServed'
    BY <1>0, <1>1, <1>2 DEF AskedHasServed
  <2>4. QED BY <2>1, <2>2, <2>3 DEF StartInv
<1>3. process[d] \notin {"serving", "closing"} => file # d
  BY <1>0 DEF PathIsServed
<1>4. ends \in 0 .. MaxEnds /\ (ends < MaxEnds => ends + 1 \in 0 .. MaxEnds)
  BY <1>0 DEF StartTypeOK
<1>5. CASE Listens(d)
  BY <1>2, <1>3, <1>4, <1>5 DEF Listens, Bound
<1>6. CASE Probes(d)
  BY <1>2, <1>3, <1>4, <1>6 DEF Probes
<1>7. CASE Clears(d)
  BY <1>2, <1>4, <1>7 DEF Clears
<1>8. CASE Rebinds(d)
  BY <1>2, <1>3, <1>4, <1>8 DEF Rebinds, Bound
<1>9. CASE ShutsDown(d)
  BY <1>2, <1>4, <1>9 DEF ShutsDown
<1>10. CASE Leaves(d)
  BY <1>2, <1>4, <1>10 DEF Leaves
<1>11. CASE Killed(d)
  BY <1>2, <1>4, <1>11 DEF Killed
<1>12. QED BY <1>5, <1>6, <1>7, <1>8, <1>9, <1>10, <1>11 DEF DaemonActs

\* However the starts, the leftovers and the kills interleave, whoever connects to the path
\* reaches a daemon that listens, or nobody: what a caller is answered comes from a daemon that
\* has bound the socket, though not always the only one, which OneDaemon says of this code in
\* vain (client.ts:38-66, server.ts:233-268).
THEOREM WhoAnswersHasServed == StartSpec => [](PathIsServed /\ AskedHasServed)
<1>1. StartInit => StartInv
  BY StartupAssumption DEF StartInit, StartInv, StartTypeOK, PathIsServed, AskedHasServed, StartupAssumption
<1>2. StartInv /\ [StartNext]_startVars => StartInv'
  <2> SUFFICES ASSUME StartInv, [StartNext]_startVars PROVE StartInv'
    OBVIOUS
  <2>1. CASE UNCHANGED startVars
    BY <2>1 DEF startVars, StartInv, StartTypeOK, PathIsServed, AskedHasServed
  <2>2. QED BY <2>1, CallerStep, DaemonStep DEF StartNext
<1>3. StartInv => PathIsServed /\ AskedHasServed
  BY DEF StartInv
<1>4. QED BY <1>1, <1>2, <1>3, PTL DEF StartSpec
=============================================================================
