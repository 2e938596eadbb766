------------------------- MODULE ServerConnection -------------------------
(***************************************************************************)
(* The lifecycle of one upstream connection, after class ServerConnection  *)
(* of packages/mcp-query/src/core/connection.ts.                           *)
(*                                                                         *)
(* JavaScript runs one segment of code at a time, so an action is the code *)
(* between two awaits.  An invocation of connect() or reconnect() that has *)
(* not returned is a CYCLE; pc[c] names the await it is suspended at.      *)
(* close() and sleep() are two more suspended invocations (closer,         *)
(* sleeper).  Whatever is suspended, a drop of the transport, the backoff  *)
(* timer, the idle timer, a read, or a caller of ensureReady may run.      *)
(*                                                                         *)
(* The SDK Client is external: client number k is the k-th result of       *)
(* makeClient(), link[k] the state of its transport.  Requests on a client *)
(* whose transport is gone reject, those on an open one are answered or,   *)
(* when the environment allows "error", refused by the server.             *)
(*                                                                         *)
(* Merged with their neighbours: `await store.get()` in establish() and    *)
(* `await client.close()` in its resume fallback.  Bounds: Cycles limits   *)
(* the suspended connect()/reconnect() calls (a timer fires when a slot is *)
(* free), one close() and one sleep() are suspended at a time.             *)
(***************************************************************************)
EXTENDS Naturals, FiniteSets

CONSTANTS
  Cycles,       \* identities of concurrently suspended connect()/reconnect() calls
  MaxClients,   \* bound on the number of makeClient() calls
  Configs       \* the configurations and environments considered

\* "lists": at least one of tools, resources, prompts; "subscribe": resources.subscribe.
Features == {"lists", "subscribe"}

\* lazy, idleMs, sessions: ConnectionConfig has lazy, idleMs, a sessionStore (and the
\* transport has session ids); maxRetries as there.  modern: the negotiated era.
\* serverCaps: the capability sets the server may advertise.  closes: the owner may call
\* close(); reuse: and connect() again after it.  faults: what may go wrong, maxFaults
\* times at most; clients: how many makeClient() calls are followed.
ConfigType == [lazy : BOOLEAN, idleMs : BOOLEAN, sessions : BOOLEAN, modern : BOOLEAN,
               maxRetries : Nat, serverCaps : SUBSET (SUBSET Features),
               closes : BOOLEAN, reuse : BOOLEAN,
               faults : SUBSET {"drop", "error"}, maxFaults : Nat, clients : Nat]

ASSUME ConnAssumption ==
  /\ MaxClients \in Nat \ {0}
  /\ Configs \subseteq ConfigType
  /\ \A cf \in Configs : cf.clients <= MaxClients

Clients == 1 .. MaxClients
States == {"idle", "connecting", "initializing", "ready", "degraded",
           "reconnecting", "failed", "closed"}
Live == {"ready", "degraded"}
LinkStates == {"new", "opening", "up", "down"}
PCs == {"off", "stopping", "resuming", "dialing", "listing", "finishing"}
Kinds == {"connect", "ensure", "reconnect"}
ReadAges == {"this", "past"}
CallPCs == {"off", "stopping", "closing"}

VARIABLES
  config,           \* the configuration, chosen once
  state,            \* ServerConnection.state
  capabilities,     \* ServerConnection.capabilities
  retries,          \* consecutive attempts since the connection last settled
  closing,          \* close() has been called
  idle,             \* slept by idle eviction
  reconnectPending, \* the backoff timer is armed
  idleTimer,        \* the idle timer is armed
  client,           \* number of the client this.client refers to
  link,             \* transport of each client
  onclose,          \* clients whose onclose handler is still installed
  pc, kind, on,     \* per cycle: its await, who started it, the client it awaits
  before,           \* per cycle: capabilities when reconnect() started
  closer, sleeper,  \* the awaits of close() and of sleep()
  saved,            \* the sessionStore record
  reads,            \* ages of the cached reads still trusted
  observed,         \* a cached resource entry is flagged protocolSubscribed
  subscribed,       \* the server's session holds that subscription
  faults            \* faults so far

timerVars == <<reconnectPending, idleTimer>>
flagVars == <<closing, idle>>
linkVars == <<client, link, onclose>>
cycleVars == <<pc, kind, on, before>>
callVars == <<closer, sleeper>>
cacheVars == <<reads, observed, subscribed>>
vars == <<config, state, capabilities, retries, closing, idle, reconnectPending, idleTimer,
          client, link, onclose, pc, kind, on, before, closer, sleeper, saved, reads,
          observed, subscribed, faults>>

NoRecord == [has |-> FALSE, caps |-> {}]

Init ==
  /\ config \in Configs
  /\ state = "idle"
  /\ capabilities = {}
  /\ retries = 0
  /\ closing = FALSE /\ idle = FALSE
  /\ reconnectPending = FALSE /\ idleTimer = FALSE
  /\ client = 1
  /\ link = [k \in Clients |-> "new"]
  /\ onclose = {1}
  /\ pc = [c \in Cycles |-> "off"]
  /\ kind = [c \in Cycles |-> "connect"]
  /\ on = [c \in Cycles |-> 1]
  /\ before = [c \in Cycles |-> {}]
  /\ closer = "off" /\ sleeper = "off"
  /\ \/ saved = NoRecord
     \/ /\ config.sessions /\ ~config.modern        \* a record kept across a page reload
        /\ saved \in [has : {TRUE}, caps : config.serverCaps]
  /\ reads = {}
  /\ observed = FALSE /\ subscribed = FALSE
  /\ faults = 0

-----------------------------------------------------------------------------
(* Pieces of code that several handlers run.                               *)

Fault(f) == f \in config.faults /\ faults < config.maxFaults /\ faults' = faults + 1

\* Mutants: one attempt too many; the give-up branch forgets setState("failed").
ScheduleReconnect_OffByOne(s) ==
  \/ reconnectPending /\ state' = s /\ UNCHANGED <<retries, reconnectPending>>
  \/ ~reconnectPending /\ retries > config.maxRetries
     /\ state' = "failed" /\ UNCHANGED <<retries, reconnectPending>>
  \/ ~reconnectPending /\ retries <= config.maxRetries
     /\ state' = (IF s \in Live THEN "reconnecting" ELSE s)
     /\ retries' = retries + 1 /\ reconnectPending' = TRUE
ScheduleReconnect_Silent(s) ==
  \/ (reconnectPending \/ retries >= config.maxRetries)
     /\ state' = s /\ UNCHANGED <<retries, reconnectPending>>
  \/ ~reconnectPending /\ retries < config.maxRetries
     /\ state' = (IF s \in Live THEN "reconnecting" ELSE s)
     /\ retries' = retries + 1 /\ reconnectPending' = TRUE

\* scheduleReconnect(), called when the state is s.
ScheduleReconnect(s) ==
  \/ /\ reconnectPending
     /\ state' = s
     /\ UNCHANGED <<retries, reconnectPending>>
  \/ /\ ~reconnectPending /\ retries >= config.maxRetries
     /\ state' = "failed"
     /\ UNCHANGED <<retries, reconnectPending>>
  \/ /\ ~reconnectPending /\ retries < config.maxRetries
     /\ state' = IF s \in Live THEN "reconnecting" ELSE s
     /\ retries' = retries + 1
     /\ reconnectPending' = TRUE

\* Mutants: degraded forgotten; a close signal heeded while a cycle is running.
OnClose_ReadyOnly(k) ==
  IF k \in onclose /\ ~closing /\ ~idle /\ state = "ready"
  THEN ScheduleReconnect(state)
  ELSE UNCHANGED <<state, retries, reconnectPending>>
OnClose_AnyState(k) ==
  IF k \in onclose /\ ~closing /\ ~idle
  THEN ScheduleReconnect(state)
  ELSE UNCHANGED <<state, retries, reconnectPending>>

\* The onclose handler of client k, run when its transport goes away.
OnClose(k) ==
  IF k \in onclose /\ ~closing /\ ~idle /\ state \in Live
  THEN ScheduleReconnect(state)
  ELSE UNCHANGED <<state, retries, reconnectPending>>

Closed(k) == [link EXCEPT ![k] = IF @ = "new" THEN @ ELSE "down"]

MakeClient ==
  /\ client < config.clients
  /\ client' = client + 1

\* touch(): (re)arm the idle timer of a lazy connection.
Touch == idleTimer' = (idleTimer \/ (config.lazy /\ config.idleMs))

\* Cycle c awaits client.connect() on client k: the resume attempt or the fresh dial.
Establish(c, k, lnk) ==
  /\ pc' = [pc EXCEPT ![c] = IF saved.has THEN "resuming" ELSE "dialing"]
  /\ on' = [on EXCEPT ![c] = k]
  /\ link' = [lnk EXCEPT ![k] = IF @ = "up" THEN @ ELSE "opening"]

\* Cycle c returns; its slot is blank again.
Ends(c) ==
  /\ pc' = [pc EXCEPT ![c] = "off"]
  /\ kind' = [kind EXCEPT ![c] = "connect"]
  /\ on' = [on EXCEPT ![c] = 1]
  /\ before' = [before EXCEPT ![c] = {}]

Await(c, where, k) ==
  /\ pc' = [pc EXCEPT ![c] = where]
  /\ on' = [on EXCEPT ![c] = k]

\* A new transport session: what was cached over an earlier one is from the past.
Age(rs) == IF rs = {} THEN {} ELSE {"past"}

-----------------------------------------------------------------------------
(* connect(), reconnect(), establish(), refreshAll()                       *)

\* connect() called by MCPClient.connect() or addServer() on an eager connection.
Connect(c) ==
  /\ ~config.lazy
  /\ state = "idle" \/ (config.reuse /\ closing)
  /\ pc[c] = "off"
  /\ state' = "connecting"
  /\ kind' = [kind EXCEPT ![c] = "connect"]
  /\ Establish(c, client, link)
  /\ UNCHANGED <<capabilities, retries, flagVars, timerVars, client, onclose, before,
                 callVars, saved, cacheVars, faults>>

Waking == \E c \in Cycles : pc[c] # "off" /\ kind[c] = "ensure"

\* ensureReady() that finds the connection up, or joins readyPromise: only touch().
EnsureReadyJoin ==
  /\ config.lazy
  /\ state \in Live \/ Waking
  /\ Touch
  /\ UNCHANGED <<state, capabilities, retries, flagVars, reconnectPending, linkVars,
                 cycleVars, callVars, saved, cacheVars, faults>>

\* ensureReady() that starts readyPromise: after sleep or close on a new client,
\* otherwise on the client at hand.
EnsureReadyWake(c) ==
  /\ config.lazy
  /\ state \notin Live
  /\ ~Waking
  /\ pc[c] = "off"
  /\ Touch
  /\ state' = "connecting"
  /\ kind' = [kind EXCEPT ![c] = "ensure"]
  /\ \/ /\ idle \/ state = "closed"
        /\ idle' = FALSE /\ closing' = FALSE
        /\ MakeClient
        /\ onclose' = onclose \cup {client'}
        /\ Establish(c, client', link)
     \/ /\ ~idle /\ state # "closed"
        /\ Establish(c, client, link)
        /\ UNCHANGED <<flagVars, client, onclose>>
  /\ UNCHANGED <<capabilities, retries, reconnectPending, before, callVars, saved,
                 cacheVars, faults>>

MarkStaleByServer_None == reads' = reads           \* mutant: the reads stay trusted
MarkStaleByServer == reads' = {}

\* The backoff timer fires: reconnect() up to `await this.listen.stop()`.
TimerFires(c) ==
  /\ reconnectPending
  /\ pc[c] = "off"
  /\ reconnectPending' = FALSE
  /\ state' = "reconnecting"
  /\ MarkStaleByServer
  /\ before' = [before EXCEPT ![c] = capabilities]
  /\ onclose' = onclose \ {client}
  /\ kind' = [kind EXCEPT ![c] = "reconnect"]
  /\ Await(c, "stopping", client)
  /\ UNCHANGED <<capabilities, retries, flagVars, idleTimer, client, link, callVars,
                 saved, observed, subscribed, faults>>

\* listen.stop() returned: the client is replaced, and establish() begins.
Redial(c) ==
  /\ pc[c] = "stopping"
  /\ MakeClient
  /\ onclose' = onclose \cup {client'}
  /\ Establish(c, client', link)
  /\ UNCHANGED <<state, capabilities, retries, flagVars, timerVars, kind, before,
                 callVars, saved, cacheVars, faults>>

\* The catch blocks of connect() and reconnect().
Fails(c) ==
  /\ ScheduleReconnect(IF kind[c] = "reconnect" THEN state ELSE "failed")
  /\ Ends(c)
  /\ UNCHANGED <<capabilities, flagVars, idleTimer, client, onclose, callVars, saved,
                 cacheVars>>

\* establish() returned with the capabilities caps: connect() goes to
\* "initializing"; reconnect() drops what the lost capability backed.  Both then
\* await the lists, when there are any.
Established(c, caps) ==
  /\ capabilities' = caps
  /\ state' = IF kind[c] = "reconnect" THEN state ELSE "initializing"
  /\ reads' = IF /\ kind[c] = "reconnect"
                 /\ "subscribe" \in before[c]
                 /\ "subscribe" \notin caps
              THEN {} ELSE Age(reads)
  /\ Await(c, IF "lists" \in caps THEN "listing" ELSE "finishing", client)
  /\ UNCHANGED <<retries, flagVars, timerVars, client, onclose, kind, before, callVars,
                 observed, faults>>

\* The stored session is accepted (connect and ping): the server keeps its subscriptions.
ResumeOk(c) ==
  /\ pc[c] = "resuming"
  /\ link[on[c]] \in {"opening", "up"}
  /\ link' = [link EXCEPT ![on[c]] = "up"]
  /\ Established(c, saved.caps)
  /\ UNCHANGED <<saved, subscribed>>

\* Mutant: the client that failed to resume is not closed.
ResumeFails_Leak(c) ==
  /\ pc[c] = "resuming"
  /\ \E f \in config.faults : Fault(f)
  /\ MakeClient
  /\ onclose' = onclose \cup {client'}
  /\ link' = [link EXCEPT ![client'] = "opening"]
  /\ Await(c, "dialing", client')
  /\ UNCHANGED <<state, capabilities, retries, flagVars, timerVars, kind, before, callVars,
                 saved, cacheVars>>

\* The resume failed: close the client, make another, dial it fresh.  The record stays.
ResumeFails(c) ==
  /\ pc[c] = "resuming"
  /\ \/ link[on[c]] = "down" /\ UNCHANGED faults
     \/ \E f \in config.faults : Fault(f)
  /\ OnClose(client)
  /\ MakeClient
  /\ onclose' = onclose \cup {client'}
  /\ link' = [Closed(client) EXCEPT ![client'] = "opening"]
  /\ Await(c, "dialing", client')
  /\ UNCHANGED <<capabilities, flagVars, idleTimer, kind, before, callVars, saved, cacheVars>>

\* A fresh connect succeeds on a new server session, which is recorded.
DialOk(c) ==
  /\ pc[c] = "dialing"
  /\ link[on[c]] \in {"opening", "up"}
  /\ link' = [link EXCEPT ![on[c]] = "up"]
  /\ \E caps \in IF on[c] = client THEN config.serverCaps ELSE config.serverCaps \cup {{}} :
       /\ Established(c, caps)
       /\ saved' = IF config.sessions /\ ~config.modern THEN [has |-> TRUE, caps |-> caps] ELSE saved
  /\ subscribed' = FALSE

\* A fresh connect fails.  The SDK closes the transport it dialed; one that another
\* cycle dialed on the same client may survive the refused second connect().
DialFails(c) ==
  /\ pc[c] = "dialing"
  /\ \/ link[on[c]] = "down" /\ UNCHANGED faults
     \/ \E f \in config.faults : Fault(f)
  /\ link' \in {Closed(on[c])}
        \cup (IF \E d \in Cycles \ {c} : pc[d] # "off" /\ on[d] = on[c]
              THEN {link} ELSE {})
  /\ Fails(c)

\* refreshAll(): the re-lists are answered.
ListOk(c) ==
  /\ pc[c] = "listing"
  /\ link[on[c]] = "up"
  /\ Await(c, "finishing", client)
  /\ UNCHANGED <<state, capabilities, retries, flagVars, timerVars, linkVars, kind,
                 before, callVars, saved, cacheVars, faults>>

\* refreshAll(): a re-list rejects, because its link is gone or the server refuses.
ListFails(c) ==
  /\ pc[c] = "listing"
  /\ \/ link[on[c]] # "up" /\ UNCHANGED faults
     \/ Fault("error")
  /\ UNCHANGED link
  /\ Fails(c)

\* Does the end of cycle c (re-)establish the subscription of the observed resource?
\* Legacy: resubscribeObserved(), run by reconnect() only.  Modern: startListen().
Resubscribes_ModernOnly(c) == observed /\ link[client] = "up" /\ config.modern   \* mutant
Resubscribes(c) ==
  /\ observed
  /\ link[client] = "up"
  /\ config.modern \/ (kind[c] = "reconnect" /\ "subscribe" \in capabilities)

\* The remaining awaits (resource templates, resubscribeObserved, startListen) cannot
\* reject: each one catches.  So the cycle settles whatever became of the link.
Finish(c) ==
  /\ pc[c] = "finishing"
  /\ Ends(c)
  /\ retries' = 0
  /\ state' = IF "lists" \in capabilities THEN "ready" ELSE "degraded"
  /\ subscribed' = (subscribed \/ Resubscribes(c))
  /\ IF kind[c] = "ensure" THEN Touch ELSE UNCHANGED idleTimer
  /\ UNCHANGED <<capabilities, flagVars, reconnectPending, linkVars, callVars, saved,
                 reads, observed, faults>>

-----------------------------------------------------------------------------
(* close() and sleep()                                                     *)

CloseCalled ==
  /\ config.closes
  /\ closer = "off"
  /\ state # "closed" \/ ~closing
  /\ closing' = TRUE
  /\ idleTimer' = FALSE
  /\ closer' = "stopping"
  /\ UNCHANGED <<state, capabilities, retries, idle, reconnectPending, linkVars,
                 cycleVars, sleeper, saved, cacheVars, faults>>

CloseClient ==
  /\ closer = "stopping"
  /\ closer' = "closing"
  /\ link' = Closed(client)
  /\ OnClose(client)
  /\ UNCHANGED <<capabilities, flagVars, idleTimer, client, onclose, cycleVars, sleeper,
                 saved, cacheVars, faults>>

CloseReturns ==
  /\ closer = "closing"
  /\ closer' = "off"
  /\ state' = "closed"
  /\ UNCHANGED <<capabilities, retries, flagVars, timerVars, linkVars, cycleVars, sleeper,
                 saved, cacheVars, faults>>

\* The idle timer fires; sleep() returns at once unless the connection is up.
IdleTimerFires ==
  /\ idleTimer
  /\ idleTimer' = FALSE
  /\ \/ /\ state \in Live /\ sleeper = "off"
        /\ idle' = TRUE
        /\ sleeper' = "stopping"
     \/ /\ state \notin Live
        /\ UNCHANGED <<idle, sleeper>>
  /\ UNCHANGED <<state, capabilities, retries, closing, reconnectPending, linkVars,
                 cycleVars, closer, saved, cacheVars, faults>>

SleepClient ==
  /\ sleeper = "stopping"
  /\ sleeper' = "closing"
  /\ link' = Closed(client)
  /\ OnClose(client)
  /\ UNCHANGED <<capabilities, flagVars, idleTimer, client, onclose, cycleVars, closer,
                 saved, cacheVars, faults>>

SleepReturns ==
  /\ sleeper = "closing"
  /\ sleeper' = "off"
  /\ state' = "idle"
  /\ UNCHANGED <<capabilities, retries, flagVars, timerVars, linkVars, cycleVars, closer,
                 saved, cacheVars, faults>>

-----------------------------------------------------------------------------
(* The environment: the network, and reads and observers above the connection *)

\* The transport of client k goes away under it.
Drop(k) ==
  /\ link[k] = "up"
  /\ Fault("drop")
  /\ link' = Closed(k)
  /\ OnClose(k)
  /\ UNCHANGED <<capabilities, flagVars, idleTimer, client, onclose, cycleVars, callVars,
                 saved, cacheVars>>

\* A read is answered over the current client and cached.
Read ==
  /\ link[client] = "up"
  /\ reads' = reads \cup {"this"}
  /\ UNCHANGED <<state, capabilities, retries, flagVars, timerVars, linkVars, cycleVars,
                 callVars, saved, observed, subscribed, faults>>

\* The first observer of a cached resource subscribes at the server.
Observe ==
  /\ link[client] = "up"
  /\ "subscribe" \in capabilities
  /\ ~observed
  /\ observed' = TRUE /\ subscribed' = TRUE
  /\ UNCHANGED <<state, capabilities, retries, flagVars, timerVars, linkVars, cycleVars,
                 callVars, saved, reads, faults>>

-----------------------------------------------------------------------------

CycleStep(c) ==
  \/ Redial(c) \/ ResumeOk(c) \/ ResumeFails(c) \/ DialOk(c) \/ DialFails(c)
  \/ ListOk(c) \/ ListFails(c) \/ Finish(c)

CallStep == CloseClient \/ CloseReturns \/ SleepClient \/ SleepReturns

Next ==
  /\ UNCHANGED config
  /\ \/ \E c \in Cycles : Connect(c) \/ EnsureReadyWake(c) \/ TimerFires(c) \/ CycleStep(c)
     \/ EnsureReadyJoin
     \/ CloseCalled \/ IdleTimerFires \/ CallStep
     \/ \E k \in Clients : Drop(k)
     \/ Read \/ Observe

Step(c) == CycleStep(c) /\ UNCHANGED config
BackoffEnds == \E c \in Cycles : TimerFires(c) /\ UNCHANGED config
CallSteps == CallStep /\ UNCHANGED config

\* A suspended call resumes when what it awaits is settled, and an armed backoff timer
\* fires.  Nobody has to call connect(), ensureReady() or close(), and nothing has to fail.
Fairness ==
  /\ \A c \in Cycles : WF_vars(Step(c))
  /\ WF_vars(BackoffEnds)
  /\ WF_vars(CallSteps)

Spec == Init /\ [][Next]_vars /\ Fairness

-----------------------------------------------------------------------------
(* Properties                                                              *)

\* Every variable keeps its type, and the backoff never counts past maxRetries.
TypeOK ==
  /\ config \in Configs
  /\ state \in States
  /\ capabilities \in SUBSET Features
  /\ retries \in 0 .. config.maxRetries
  /\ closing \in BOOLEAN /\ idle \in BOOLEAN
  /\ reconnectPending \in BOOLEAN /\ idleTimer \in BOOLEAN
  /\ client \in Clients
  /\ link \in [Clients -> LinkStates]
  /\ onclose \subseteq Clients
  /\ pc \in [Cycles -> PCs]
  /\ kind \in [Cycles -> Kinds]
  /\ on \in [Cycles -> Clients]
  /\ before \in [Cycles -> SUBSET Features]
  /\ closer \in CallPCs /\ sleeper \in CallPCs
  /\ saved \in [has : BOOLEAN, caps : SUBSET Features]
  /\ reads \subseteq ReadAges
  /\ observed \in BOOLEAN /\ subscribed \in BOOLEAN
  /\ faults \in 0 .. config.maxFaults

Running == {c \in Cycles : pc[c] # "off"}

\* An eager connection whose owner connects it once.
ConnectedOnce == ~config.lazy /\ ~config.reuse

\* ... and whose links fail by dropping only.  (A server that refuses a list request makes
\* reconnect() replace a client whose link is up.)
OnlyDrops == ConnectedOnce /\ "error" \notin config.faults

Gone == {"new", "down"}

\* The duplicate close signals of a dying transport collapse into one attempt: the
\* connect/reconnect cycle in progress and the armed backoff timer exclude each other,
\* and there is one cycle.  (A lazy connection does not have this: ensureReady() starts
\* a connect() beside the armed timer.)
OneCycle ==
  ConnectedOnce =>
    /\ \A c, d \in Running : c = d
    /\ reconnectPending => Running = {}

\* While the state says that something is under way, something is: a cycle is running or
\* a timer is armed.  "failed" with neither means the retries are used up.
NeverStranded ==
  (Running = {} /\ ~reconnectPending) =>
    /\ state \notin {"connecting", "initializing", "reconnecting"}
    /\ state = "failed" => retries = config.maxRetries

\* A client that reconnect() or a failed resume replaced leaves no open transport behind.
NoLeakedLink == OnlyDrops => \A k \in Clients \ {client} : link[k] \in Gone

\* A connection that says it is up trusts no read of an earlier transport session.
ReadsOfThisSession == (OnlyDrops /\ state \in Live) => "past" \notin reads

\* "reconnect -> ... -> resubscribe observed entries": a resource flagged as subscribed is
\* subscribed in the server session of a connection that is up, when no attempt is under way
\* or due.  (A lazy connection can say that it is up beside an attempt that has a new session
\* and has not resubscribed yet; on the legacy protocol it never does.)
ObservedStaySubscribed ==
  (/\ ConnectedOnce \/ config.modern
   /\ Running = {} /\ ~reconnectPending
   /\ state \in Live /\ link[client] = "up"
   /\ observed /\ "subscribe" \in capabilities) => subscribed

\* What makes ObservedStaySubscribed inductive on the legacy protocol: nothing is observed
\* before the first connect() has established, and during it only what is subscribed.
FirstConnectFacts ==
  /\ state = "idle" => capabilities = {} /\ ~observed
  /\ \A c \in Running :
       /\ kind[c] # "ensure"
       /\ kind[c] = "connect" /\ pc[c] \in {"resuming", "dialing"} => capabilities = {} /\ ~observed
       /\ kind[c] = "connect" /\ pc[c] \in {"listing", "finishing"} => (observed => subscribed)
       /\ kind[c] = "connect" => pc[c] # "stopping"
ObservedInv == ObservedStaySubscribed /\ (ConnectedOnce => FirstConnectFacts)

\* A drop of the current transport while the state says it is up, unless it was closed on
\* purpose, takes the state away from "ready" in the same step and arms the retry.
DropNoticed ==
  [][(/\ ConnectedOnce /\ state \in Live /\ ~closing /\ ~idle
      /\ link[client] = "up" /\ link'[client] = "down")
     => \/ state' = "reconnecting" /\ reconnectPending'
        \/ state' = "failed" /\ config.maxRetries = 0]_vars

\* The phase of RetryCycle the connection is in; one that is not connected once never starts.
Phase ==
  CASE ~ConnectedOnce -> "idle"
    [] ConnectedOnce /\ Running # {} -> "trying"
    [] ConnectedOnce /\ Running = {} /\ reconnectPending -> "waiting"
    [] ConnectedOnce /\ Running = {} /\ ~reconnectPending /\ state \in Live -> "up"
    [] ConnectedOnce /\ Running = {} /\ ~reconnectPending /\ state = "idle" -> "idle"
    [] OTHER -> "over"

Retrying == INSTANCE RetryCycle WITH
  phase <- Phase, failures <- IF ConnectedOnce THEN retries ELSE 0, limit <- config.maxRetries

\* However drops, close signals, failures at every await, the timer and close() interleave,
\* the connection retries in turn: one attempt at a time, a pause and a failure counted
\* between two, an end when the retries are used up, and every attempt and every pause ends
\* (connection.ts:176-178, 271-283, 371-395, 548-560).
RetriesInTurn == Retrying!CycleSpec

\* What makes OneCycle, DropNoticed, NoLeakedLink and ReadsOfThisSession inductive: what
\* each value of state and each await of a cycle says about the timer, the handler and the
\* link.
CycleFacts ==
  /\ \A c, d \in Running : c = d
  /\ reconnectPending => Running = {}
  /\ ~idleTimer /\ ~idle /\ sleeper = "off"
  /\ closer # "off" => closing
  /\ state = "idle" => Running = {} /\ ~reconnectPending
  /\ state \in Live => Running = {} /\ ~reconnectPending /\ retries = 0
  /\ client \in onclose \/ \E c \in Cycles : pc[c] = "stopping"
CycleInv == ConnectedOnce => CycleFacts

LinkFacts ==
  /\ \A k \in Clients \ {client} : link[k] \in Gone
  /\ reconnectPending \/ state = "idle" => link[client] \in Gone
  /\ \A c \in Running :
       /\ on[c] = client
       /\ pc[c] = "stopping" => link[client] \in Gone
       /\ pc[c] \in {"resuming", "dialing"} => link[client] \in {"opening", "down"}
       /\ pc[c] \in {"listing", "finishing"} => link[client] \in {"up", "down"}
       /\ pc[c] \in {"stopping", "resuming", "dialing"} => reads = {}
  /\ "past" \notin reads
  /\ state = "idle" => reads = {}
LinkInv == OnlyDrops => LinkFacts

Settled ==
  \/ state \in {"ready", "degraded", "idle", "closed"}
  \/ state = "failed" /\ Running = {} /\ ~reconnectPending

\* Once the faults stop, an eager connection settles: up, closed, or given up.
Settles == [](ConnectedOnce => <>Settled)

\* What the code does not keep.

\* "reports a dead server as healthy": up in name, with its transport gone and nobody
\* about to find out.
ReadyIsLive == (ConnectedOnce /\ ~closing /\ state \in Live) => link[client] = "up"

\* After close() has returned no transport of the connection is open or opening.
ClosedReapsLinks ==
  (ConnectedOnce /\ closing /\ closer = "off") =>
    \A k \in Clients : link[k] \in Gone

=============================================================================
