---------------------- MODULE ServerConnectionProofs ----------------------
(* Theorems about ServerConnection, for every value of its constants.      *)
EXTENDS ServerConnection, TLAPS

USE DEF timerVars, flagVars, linkVars, cycleVars, callVars, cacheVars

-----------------------------------------------------------------------------
(* Lemmas about the pieces of code that several handlers share.            *)

\* What a configuration is, field by field.
LEMMA ConfigFacts ==
  ASSUME config \in Configs
  PROVE  /\ config.maxRetries \in Nat
         /\ config.maxFaults \in Nat
         /\ config.clients \in Nat /\ config.clients <= MaxClients /\ MaxClients \in Nat \ {0}
         /\ config.serverCaps \subseteq SUBSET Features
         /\ config.lazy \in BOOLEAN /\ config.reuse \in BOOLEAN
BY ConnAssumption DEF ConnAssumption, ConfigType

\* The parts of the type invariant that ScheduleReconnect and OnClose disturb.
LEMMA ScheduleReconnectType ==
  ASSUME TypeOK, NEW s \in States, ScheduleReconnect(s)
  PROVE  /\ state' \in States
         /\ retries' \in 0 .. config.maxRetries
         /\ reconnectPending' \in BOOLEAN
<1>1. /\ config.maxRetries \in Nat /\ retries \in 0 .. config.maxRetries
      /\ reconnectPending \in BOOLEAN
  BY ConfigFacts DEF TypeOK
<1>2. CASE reconnectPending /\ state' = s /\ UNCHANGED <<retries, reconnectPending>>
  BY <1>1, <1>2
<1>3. CASE state' = "failed" /\ UNCHANGED <<retries, reconnectPending>>
  BY <1>1, <1>3 DEF States
<1>4. CASE /\ retries < config.maxRetries
           /\ state' = IF s \in Live THEN "reconnecting" ELSE s
           /\ retries' = retries + 1 /\ reconnectPending' = TRUE
  BY <1>1, <1>4 DEF States
<1>5. QED
  BY <1>2, <1>3, <1>4 DEF ScheduleReconnect

LEMMA OnCloseType ==
  ASSUME TypeOK, NEW k, OnClose(k)
  PROVE  /\ state' \in States
         /\ retries' \in 0 .. config.maxRetries
         /\ reconnectPending' \in BOOLEAN
<1>1. state \in States
  BY DEF TypeOK
<1>2. CASE ScheduleReconnect(state)
  BY <1>1, <1>2, ScheduleReconnectType
<1>3. CASE UNCHANGED <<state, retries, reconnectPending>>
  BY <1>3 DEF TypeOK
<1>4. QED
  BY <1>2, <1>3 DEF OnClose

\* makeClient() yields a client that has a number.
LEMMA MakeClientType ==
  ASSUME TypeOK, MakeClient
  PROVE  client' \in Clients
<1>1. config.clients \in Nat /\ config.clients <= MaxClients /\ MaxClients \in Nat
  BY ConfigFacts DEF TypeOK
<1>2. QED
  BY <1>1 DEF TypeOK, MakeClient, Clients

LEMMA FaultType ==
  ASSUME TypeOK, NEW f, Fault(f)
  PROVE  faults' \in 0 .. config.maxFaults
<1>1. config.maxFaults \in Nat
  BY ConfigFacts DEF TypeOK
<1>2. QED
  BY <1>1 DEF TypeOK, Fault

LEMMA ClosedType ==
  ASSUME TypeOK, NEW k \in Clients
  PROVE  Closed(k) \in [Clients -> LinkStates]
BY DEF TypeOK, Closed, LinkStates

LEMMA EstablishType ==
  ASSUME TypeOK, NEW c \in Cycles, NEW k \in Clients,
         NEW lnk \in [Clients -> LinkStates], Establish(c, k, lnk)
  PROVE  /\ pc' \in [Cycles -> PCs]
         /\ on' \in [Cycles -> Clients]
         /\ link' \in [Clients -> LinkStates]
BY DEF TypeOK, Establish, PCs, LinkStates

LEMMA EndsType ==
  ASSUME TypeOK, NEW c \in Cycles, Ends(c)
  PROVE  /\ pc' \in [Cycles -> PCs]
         /\ kind' \in [Cycles -> Kinds]
         /\ on' \in [Cycles -> Clients]
         /\ before' \in [Cycles -> SUBSET Features]
<1>1. 1 \in Clients
  BY ConnAssumption DEF ConnAssumption, Clients
<1>2. QED
  BY <1>1 DEF TypeOK, Ends, PCs, Kinds

LEMMA FailsType ==
  ASSUME TypeOK, NEW c \in Cycles, Fails(c), UNCHANGED config,
         link' \in [Clients -> LinkStates], faults' \in 0 .. config.maxFaults
  PROVE  TypeOK'
<1>1. PICK s \in States : ScheduleReconnect(s)
  BY DEF Fails, TypeOK, States
<1>2. /\ state' \in States
      /\ retries' \in 0 .. config.maxRetries
      /\ reconnectPending' \in BOOLEAN
  BY <1>1, ScheduleReconnectType
<1>3. /\ pc' \in [Cycles -> PCs]
      /\ kind' \in [Cycles -> Kinds]
      /\ on' \in [Cycles -> Clients]
      /\ before' \in [Cycles -> SUBSET Features]
  BY EndsType DEF Fails
<1>4. QED
  BY <1>2, <1>3 DEF TypeOK, Fails

LEMMA EstablishedType ==
  ASSUME TypeOK, NEW c \in Cycles, NEW caps \in SUBSET Features,
         Established(c, caps), UNCHANGED config,
         link' \in [Clients -> LinkStates], subscribed' \in BOOLEAN,
         saved' \in [has : BOOLEAN, caps : SUBSET Features]
  PROVE  TypeOK'
<1>1. state' \in States /\ capabilities' \in SUBSET Features /\ reads' \subseteq ReadAges
  BY DEF TypeOK, Established, States, Age, ReadAges
<1>2. pc' \in [Cycles -> PCs] /\ on' \in [Cycles -> Clients]
  BY DEF TypeOK, Established, Await, PCs
<1>3. QED
  BY <1>1, <1>2 DEF TypeOK, Established

-----------------------------------------------------------------------------
(* The type invariant.                                                     *)

LEMMA InitType == Init => TypeOK
<1> SUFFICES ASSUME Init PROVE TypeOK
  OBVIOUS
<1>2. config \in Configs /\ 1 \in Clients /\ config.maxRetries \in Nat /\ config.maxFaults \in Nat
  BY ConfigFacts, ConnAssumption DEF Init, ConnAssumption, Clients
<1>3. saved \in [has : BOOLEAN, caps : SUBSET Features]
  <2>1. config.serverCaps \subseteq SUBSET Features
    BY <1>2, ConfigFacts
  <2>2. CASE saved = NoRecord
    BY <2>2 DEF NoRecord
  <2>3. CASE saved \in [has : {TRUE}, caps : config.serverCaps]
    BY <2>1, <2>3
  <2>4. QED
    BY <2>2, <2>3 DEF Init
<1>4. /\ link \in [Clients -> LinkStates]
      /\ pc \in [Cycles -> PCs] /\ kind \in [Cycles -> Kinds] /\ on \in [Cycles -> Clients]
      /\ before \in [Cycles -> SUBSET Features]
  BY <1>2 DEF Init, LinkStates, PCs, Kinds
<1>5. retries \in 0 .. config.maxRetries /\ faults \in 0 .. config.maxFaults
  BY <1>2 DEF Init
<1>6. QED
  BY <1>2, <1>3, <1>4, <1>5 DEF Init, TypeOK, States, CallPCs

LEMMA CycleType ==
  ASSUME TypeOK, UNCHANGED config, NEW c \in Cycles, CycleStep(c)
  PROVE  TypeOK'
<1> USE DEF TypeOK
<1>1. CASE Redial(c)
  <2>1. client' \in Clients
    BY <1>1, MakeClientType DEF Redial
  <2>2. QED
    BY <1>1, <2>1, EstablishType DEF Redial
<1>2. CASE ResumeOk(c)
  <2>1. link' \in [Clients -> LinkStates]
    BY <1>2 DEF ResumeOk, LinkStates
  <2>2. QED
    BY <1>2, <2>1, EstablishedType DEF ResumeOk
<1>3. CASE ResumeFails(c)
  <2>1. client' \in Clients
    BY <1>3, MakeClientType DEF ResumeFails
  <2>2. link' \in [Clients -> LinkStates]
    BY <1>3, <2>1, ClosedType DEF ResumeFails, LinkStates
  <2>3. pc' \in [Cycles -> PCs] /\ on' \in [Cycles -> Clients]
    BY <1>3, <2>1 DEF ResumeFails, Await, PCs
  <2>4. faults' \in 0 .. config.maxFaults
    BY <1>3, FaultType DEF ResumeFails
  <2>5. QED
    BY <1>3, <2>1, <2>2, <2>3, <2>4, OnCloseType DEF ResumeFails
<1>4. CASE DialOk(c)
  <2>1. link' \in [Clients -> LinkStates]
    BY <1>4 DEF DialOk, LinkStates
  <2>2. PICK caps \in SUBSET Features :
          /\ Established(c, caps)
          /\ saved' = IF config.sessions /\ ~config.modern
                      THEN [has |-> TRUE, caps |-> caps] ELSE saved
    BY <1>4, ConfigFacts DEF DialOk
  <2>3. saved' \in [has : BOOLEAN, caps : SUBSET Features]
    BY <2>2
  <2>4. QED
    BY <1>4, <2>1, <2>2, <2>3, EstablishedType DEF DialOk
<1>5. CASE DialFails(c)
  <2>1. link' \in [Clients -> LinkStates]
    BY <1>5, ClosedType DEF DialFails
  <2>2. faults' \in 0 .. config.maxFaults
    BY <1>5, FaultType DEF DialFails
  <2>3. QED
    BY <1>5, <2>1, <2>2, FailsType DEF DialFails
<1>6. CASE ListOk(c)
  BY <1>6 DEF ListOk, Await, PCs
<1>7. CASE ListFails(c)
  <2>1. faults' \in 0 .. config.maxFaults
    BY <1>7, FaultType DEF ListFails
  <2>2. QED
    BY <1>7, <2>1, FailsType DEF ListFails
<1>8. CASE Finish(c)
  <2>1. /\ pc' \in [Cycles -> PCs] /\ kind' \in [Cycles -> Kinds]
        /\ on' \in [Cycles -> Clients] /\ before' \in [Cycles -> SUBSET Features]
    BY <1>8, EndsType DEF Finish
  <2>2. retries' \in 0 .. config.maxRetries /\ idleTimer' \in BOOLEAN /\ subscribed' \in BOOLEAN
    BY <1>8, ConfigFacts DEF Finish, Touch, Resubscribes
  <2>3. QED
    BY <1>8, <2>1, <2>2 DEF Finish, States
<1>9. QED
  BY <1>1, <1>2, <1>3, <1>4, <1>5, <1>6, <1>7, <1>8 DEF CycleStep

LEMMA NextType == TypeOK /\ [Next]_vars => TypeOK'
<1> SUFFICES ASSUME TypeOK, [Next]_vars PROVE TypeOK'
  OBVIOUS
<1> USE DEF TypeOK
<1>1. ASSUME NEW c \in Cycles, Connect(c), UNCHANGED config PROVE TypeOK'
  BY <1>1, EstablishType DEF Connect, States, Kinds
<1>2. ASSUME NEW c \in Cycles, EnsureReadyWake(c), UNCHANGED config PROVE TypeOK'
  <2>1. client' \in Clients
    BY <1>2, MakeClientType DEF EnsureReadyWake
  <2>2. pc' \in [Cycles -> PCs] /\ on' \in [Cycles -> Clients] /\ link' \in [Clients -> LinkStates]
    BY <1>2, <2>1, EstablishType DEF EnsureReadyWake
  <2>3. QED
    BY <1>2, <2>1, <2>2 DEF EnsureReadyWake, Touch, States, Kinds
<1>3. ASSUME NEW c \in Cycles, TimerFires(c), UNCHANGED config PROVE TypeOK'
  BY <1>3 DEF TimerFires, MarkStaleByServer, Await, PCs, States, Kinds
<1>4. ASSUME NEW c \in Cycles, CycleStep(c), UNCHANGED config PROVE TypeOK'
  BY <1>4, CycleType
<1>5. CASE EnsureReadyJoin /\ UNCHANGED config
  BY <1>5 DEF EnsureReadyJoin, Touch
<1>6. CASE CloseCalled /\ UNCHANGED config
  BY <1>6 DEF CloseCalled, CallPCs
<1>7. CASE IdleTimerFires /\ UNCHANGED config
  BY <1>7, ZenonT(30) DEF IdleTimerFires, CallPCs
<1>8. CASE CloseClient /\ UNCHANGED config
  BY <1>8, OnCloseType, ClosedType DEF CloseClient, CallPCs
<1>9. CASE CloseReturns /\ UNCHANGED config
  BY <1>9 DEF CloseReturns, CallPCs, States
<1>10. CASE SleepClient /\ UNCHANGED config
  BY <1>10, OnCloseType, ClosedType DEF SleepClient, CallPCs
<1>11. CASE SleepReturns /\ UNCHANGED config
  BY <1>11 DEF SleepReturns, CallPCs, States
<1>12. ASSUME NEW k \in Clients, Drop(k), UNCHANGED config PROVE TypeOK'
  BY <1>12, OnCloseType, ClosedType, FaultType DEF Drop
<1>13. CASE Read /\ UNCHANGED config
  BY <1>13 DEF Read, ReadAges
<1>14. CASE Observe /\ UNCHANGED config
  BY <1>14 DEF Observe
<1>15. CASE UNCHANGED vars
  BY <1>15 DEF vars
<1>16. QED
  BY <1>1, <1>2, <1>3, <1>4, <1>5, <1>6, <1>7, <1>8, <1>9, <1>10, <1>11, <1>12, <1>13,
     <1>14, <1>15 DEF Next, CallStep

\* Every variable keeps its type whatever the configuration, the number of concurrent
\* cycles and the order in which they are resumed; the retry counter never passes maxRetries.
THEOREM TypeCorrect == Spec => []TypeOK
BY InitType, NextType, PTL DEF Spec

-----------------------------------------------------------------------------
(* Nothing strands the connection.                                         *)

\* Whoever gives up or re-arms, through ScheduleReconnect or OnClose, leaves no
\* unattended intermediate state.
LEMMA ScheduleReconnectAttends ==
  ASSUME TypeOK, NEW s \in States, ScheduleReconnect(s)
  PROVE  reconnectPending' \/ (state' = "failed" /\ retries' = config.maxRetries)
BY ConfigFacts DEF TypeOK, ScheduleReconnect

LEMMA OnCloseAttends ==
  ASSUME TypeOK, NeverStranded, UNCHANGED <<config, pc>>, NEW k, OnClose(k)
  PROVE  NeverStranded'
<1>1. state \in States
  BY DEF TypeOK
<1>2. CASE ScheduleReconnect(state)
  BY <1>1, <1>2, ScheduleReconnectAttends DEF NeverStranded
<1>3. CASE UNCHANGED <<state, retries, reconnectPending>>
  BY <1>3 DEF NeverStranded, Running
<1>4. QED
  BY <1>2, <1>3 DEF OnClose

\* A cycle that is suspended attends to whatever the state says.
LEMMA CycleAttends ==
  ASSUME NEW c \in Cycles, pc'[c] # "off"
  PROVE  NeverStranded'
BY DEF NeverStranded, Running

LEMMA NextAttends == TypeOK /\ NeverStranded /\ [Next]_vars => NeverStranded'
<1> SUFFICES ASSUME TypeOK, NeverStranded, [Next]_vars PROVE NeverStranded'
  OBVIOUS
<1>0. pc \in [Cycles -> PCs] /\ state \in States
  BY DEF TypeOK
<1>1. ASSUME NEW c \in Cycles, Connect(c) \/ EnsureReadyWake(c) \/ TimerFires(c) PROVE NeverStranded'
  <2>1. pc'[c] # "off"
    BY <1>0, <1>1 DEF Connect, EnsureReadyWake, TimerFires, Establish, Await
  <2>2. QED
    BY <2>1, CycleAttends
<1>2. ASSUME NEW c \in Cycles, Redial(c) \/ ResumeOk(c) \/ ResumeFails(c) \/ DialOk(c) \/ ListOk(c)
      PROVE  NeverStranded'
  <2>1. pc'[c] # "off"
    BY <1>0, <1>2
    DEF Redial, ResumeOk, ResumeFails, DialOk, ListOk, Establish, Established, Await
  <2>2. QED
    BY <2>1, CycleAttends
<1>3. ASSUME NEW c \in Cycles, DialFails(c) \/ ListFails(c), UNCHANGED config PROVE NeverStranded'
  <2>1. PICK s \in States : ScheduleReconnect(s)
    BY <1>0, <1>3 DEF DialFails, ListFails, Fails, States
  <2>2. QED
    BY <1>3, <2>1, ScheduleReconnectAttends DEF NeverStranded
<1>4. ASSUME NEW c \in Cycles, Finish(c) PROVE NeverStranded'
  BY <1>4 DEF Finish, NeverStranded
<1>5. CASE (CloseClient \/ SleepClient \/ \E k \in Clients : Drop(k)) /\ UNCHANGED config
  BY <1>5, OnCloseAttends DEF CloseClient, SleepClient, Drop
<1>6. CASE CloseReturns \/ SleepReturns
  BY <1>6 DEF CloseReturns, SleepReturns, NeverStranded
<1>7. CASE (EnsureReadyJoin \/ CloseCalled \/ IdleTimerFires \/ Read \/ Observe) /\ UNCHANGED config
  BY <1>7 DEF EnsureReadyJoin, CloseCalled, IdleTimerFires, Read, Observe, NeverStranded, Running
<1>8. CASE UNCHANGED vars
  BY <1>8 DEF vars, NeverStranded, Running
<1>9. QED
  BY <1>1, <1>2, <1>3, <1>4, <1>5, <1>6, <1>7, <1>8 DEF Next, CycleStep, CallStep

\* No order of drops, refusals, timers and calls leaves the connection "connecting",
\* "reconnecting" or "failed" with retries to spare and nothing under way.
THEOREM Attended == Spec => []NeverStranded
<1>1. Init => NeverStranded
  BY DEF Init, NeverStranded
<1>2. QED
  BY <1>1, NextAttends, TypeCorrect, PTL DEF Spec

-----------------------------------------------------------------------------
(* One cycle at a time, for an eager connection that is connected once.    *)

\* A step of the only cycle leaves at most that cycle running.
LEMMA StaysAlone ==
  ASSUME CycleFacts, NEW c \in Running, \A d \in Cycles \ {c} : pc'[d] = pc[d]
  PROVE  Running' \subseteq {c} /\ ~reconnectPending /\ state \notin Live /\ state # "idle"
BY DEF CycleFacts, Running

\* The first step of a cycle, taken when none is running.
LEMMA StartsAlone ==
  ASSUME Running = {}, NEW c \in Cycles, \A d \in Cycles \ {c} : pc'[d] = pc[d]
  PROVE  Running' \subseteq {c}
BY DEF Running

\* A close signal is heeded only by a connection that is up, where nothing is running.
LEMMA OnCloseAlone ==
  ASSUME TypeOK, CycleFacts, NEW k, OnClose(k)
  PROVE  \/ UNCHANGED <<state, retries, reconnectPending>>
         \/ Running = {} /\ state' \notin Live /\ state' # "idle"
<1>1. CASE state \in Live /\ ScheduleReconnect(state)
  <2>1. Running = {} /\ ~reconnectPending
    BY <1>1 DEF CycleFacts
  <2>2. QED
    BY <1>1, <2>1 DEF ScheduleReconnect, Live
<1>2. CASE UNCHANGED <<state, retries, reconnectPending>>
  BY <1>2
<1>3. QED
  BY <1>1, <1>2 DEF OnClose

LEMMA NextAlone == TypeOK /\ CycleInv /\ [Next]_vars => CycleInv'
<1> SUFFICES ASSUME TypeOK, CycleInv, [Next]_vars, ConnectedOnce' PROVE CycleFacts'
  BY DEF CycleInv
<1>0. /\ UNCHANGED config /\ CycleFacts /\ ~config.lazy /\ ~config.reuse
      /\ pc \in [Cycles -> PCs] /\ state \in States
  BY DEF Next, vars, CycleInv, ConnectedOnce, TypeOK
<1>1. ASSUME NEW c \in Cycles, Connect(c) PROVE CycleFacts'
  <2>1. state = "idle" /\ Running = {} /\ ~reconnectPending
    BY <1>0, <1>1 DEF Connect, CycleFacts
  <2>2. Running' \subseteq {c} /\ Running' \subseteq Cycles
    BY <1>0, <1>1, <2>1, StartsAlone DEF Connect, Establish, Running
  <2>3. client \in onclose
    BY <1>0, <2>1 DEF CycleFacts, Running
  <2>4. QED
    BY <1>0, <1>1, <2>1, <2>2, <2>3 DEF CycleFacts, Connect, Live
<1>2. ASSUME NEW c \in Cycles, TimerFires(c) PROVE CycleFacts'
  <2>1. Running = {}
    BY <1>0, <1>2 DEF TimerFires, CycleFacts
  <2>2. Running' \subseteq {c} /\ pc'[c] = "stopping"
    BY <1>0, <1>2, <2>1, StartsAlone DEF TimerFires, Await
  <2>3. QED
    BY <1>0, <1>2, <2>2 DEF CycleFacts, TimerFires, Live
<1>3. ASSUME NEW c \in Cycles, Redial(c) \/ ResumeOk(c) \/ ResumeFails(c) \/ DialOk(c) \/ ListOk(c)
      PROVE  CycleFacts'
  <2>1. /\ c \in Running
        /\ \A d \in Cycles \ {c} : pc'[d] = pc[d]
    BY <1>0, <1>3
    DEF Redial, ResumeOk, ResumeFails, DialOk, ListOk, Establish, Established, Await, Running
  <2>2. Running' \subseteq {c} /\ ~reconnectPending /\ state \notin Live /\ state # "idle"
    BY <1>0, <2>1, StaysAlone
  <2>3. /\ UNCHANGED <<retries, flagVars, timerVars, callVars>>
        /\ state' \in {state, "initializing"}
    BY <1>3, <2>2 DEF Redial, ResumeOk, ResumeFails, DialOk, ListOk, Established, OnClose
  <2>4. client' \in onclose' \/ \E d \in Cycles : pc'[d] = "stopping"
    <3>1. CASE Redial(c) \/ ResumeFails(c)
      BY <3>1 DEF Redial, ResumeFails
    <3>2. CASE ResumeOk(c) \/ DialOk(c) \/ ListOk(c)
      <4>1. /\ pc[c] # "stopping"
            /\ UNCHANGED <<client, onclose>>
        BY <3>2 DEF ResumeOk, DialOk, ListOk, Established
      <4>2. QED
        BY <1>0, <2>1, <4>1 DEF CycleFacts, Running
    <3>3. QED
      BY <1>3, <3>1, <3>2
  <2>5. QED
    BY <1>0, <2>2, <2>3, <2>4 DEF CycleFacts, Live
<1>4. ASSUME NEW c \in Cycles, DialFails(c) \/ ListFails(c) \/ Finish(c) PROVE CycleFacts'
  <2>1. c \in Running /\ pc[c] # "stopping" /\ pc'[c] = "off"
    BY <1>0, <1>4 DEF DialFails, ListFails, Finish, Fails, Ends, Running
  <2>2. \A d \in Cycles \ {c} : pc'[d] = pc[d]
    BY <1>0, <1>4 DEF DialFails, ListFails, Finish, Fails, Ends
  <2>3. /\ Running' \subseteq {c} /\ ~reconnectPending /\ state \notin Live /\ state # "idle"
        /\ Running' = {}
    BY <1>0, <2>1, <2>2, StaysAlone DEF Running
  <2>4. client' \in onclose'
    <3>1. UNCHANGED <<client, onclose>>
      BY <1>4 DEF DialFails, ListFails, Finish, Fails
    <3>2. QED
      BY <1>0, <2>1, <3>1 DEF CycleFacts, Running
  <2>5. /\ ~idleTimer' /\ UNCHANGED <<flagVars, callVars>>
        /\ state' # "idle"
        /\ state' \in Live => ~reconnectPending' /\ retries' = 0
    <3>1. CASE Finish(c)
      BY <1>0, <2>3, <3>1 DEF Finish, Touch, CycleFacts
    <3>2. CASE DialFails(c) \/ ListFails(c)
      BY <1>0, <2>3, <3>2 DEF DialFails, ListFails, Fails, ScheduleReconnect, CycleFacts, Live
    <3>3. QED
      BY <1>4, <3>1, <3>2
  <2>6. QED
    BY <1>0, <2>3, <2>4, <2>5 DEF CycleFacts
<1>5. CASE CloseClient \/ \E k \in Clients : Drop(k)
  <2>1. /\ UNCHANGED <<client, onclose, pc, sleeper, flagVars, idleTimer>>
        /\ closer' # "off" => closer # "off"
        /\ \E k : OnClose(k)
    BY <1>5 DEF CloseClient, Drop
  <2>2. Running' = Running
    BY <2>1 DEF Running
  <2>3. QED
    BY <1>0, <2>1, <2>2, OnCloseAlone DEF CycleFacts
<1>6. CASE CloseReturns \/ CloseCalled \/ Read \/ Observe \/ UNCHANGED vars
  <2>1. Running' = Running
    BY <1>6 DEF CloseReturns, CloseCalled, Read, Observe, vars, Running
  <2>2. QED
    BY <1>0, <1>6, <2>1 DEF CloseReturns, CloseCalled, Read, Observe, vars, CycleFacts, Live
<1>7. ~(\E c \in Cycles : EnsureReadyWake(c)) /\ ~EnsureReadyJoin
  BY <1>0 DEF EnsureReadyWake, EnsureReadyJoin
<1>8. ~IdleTimerFires /\ ~SleepClient /\ ~SleepReturns
  BY <1>0 DEF CycleFacts, IdleTimerFires, SleepClient, SleepReturns
<1>9. QED
  BY <1>1, <1>2, <1>3, <1>4, <1>5, <1>6, <1>7, <1>8 DEF Next, CycleStep, CallStep

LEMMA CycleInvariant == Spec => []CycleInv
<1>1. Init => CycleInv
  BY DEF Init, CycleInv, CycleFacts, Running, Live
<1>2. QED
  BY <1>1, NextAlone, TypeCorrect, PTL DEF Spec

\* However many close signals a dying transport sends, whatever fails while a cycle is
\* suspended, and whenever close() is called, an eager connection never runs two
\* connect/reconnect cycles at once, nor one beside an armed backoff timer.
THEOREM OneCycleAtATime == Spec => []OneCycle
<1>1. CycleInv => OneCycle
  BY DEF CycleInv, CycleFacts, OneCycle
<1>2. QED
  BY <1>1, CycleInvariant, PTL

-----------------------------------------------------------------------------
(* A drop is noticed in the step in which it happens.                      *)

LEMMA DropIsNoticed ==
  ASSUME TypeOK, CycleInv, [Next]_vars, ConnectedOnce, state \in Live, ~closing, ~idle,
         link[client] = "up", link'[client] = "down"
  PROVE  \/ state' = "reconnecting" /\ reconnectPending'
         \/ state' = "failed" /\ config.maxRetries = 0
<1>1. /\ Running = {} /\ ~reconnectPending /\ retries = 0
      /\ closer = "off" /\ sleeper = "off" /\ ~config.lazy /\ ~config.reuse
      /\ state # "idle" /\ link \in [Clients -> LinkStates] /\ client \in Clients
  BY DEF CycleInv, CycleFacts, ConnectedOnce, Live, TypeOK
<1>2. client \in onclose
  BY <1>1 DEF CycleInv, CycleFacts, Running
<1>3. CASE \E k \in Clients : Drop(k)
  <2>1. PICK k \in Clients : Drop(k)
    BY <1>3
  <2>2. k = client
    BY <1>1, <2>1 DEF Drop, Closed
  <2>3. ScheduleReconnect(state)
    BY <1>2, <2>1, <2>2 DEF Drop, OnClose
  <2>4. config.maxRetries \in Nat
    BY ConfigFacts DEF TypeOK
  <2>5. QED
    BY <1>1, <2>3, <2>4 DEF ScheduleReconnect
<1>4. ASSUME NEW c \in Cycles, CycleStep(c) PROVE FALSE
  <2>1. pc[c] # "off"
    BY <1>4 DEF CycleStep, Redial, ResumeOk, ResumeFails, DialOk, DialFails, ListOk, ListFails, Finish
  <2>2. QED
    BY <1>1, <2>1 DEF Running
<1>5. ASSUME NEW c \in Cycles PROVE ~Connect(c) /\ ~EnsureReadyWake(c) /\ ~TimerFires(c)
  BY <1>1 DEF Connect, EnsureReadyWake, TimerFires
<1>6. ~EnsureReadyJoin /\ ~CallStep
  BY <1>1 DEF EnsureReadyJoin, CallStep, CloseClient, CloseReturns, SleepClient, SleepReturns
<1>7. ~CloseCalled /\ ~IdleTimerFires /\ ~Read /\ ~Observe /\ ~UNCHANGED vars
  BY DEF CloseCalled, IdleTimerFires, Read, Observe, vars
<1>8. QED
  BY <1>3, <1>4, <1>5, <1>6, <1>7 DEF Next

\* A transport that dies under an eager connection that says it is up, and that nobody is
\* closing, is noticed at once: the retry is armed, unless no retry was ever allowed.
THEOREM DropsNoticed == Spec => DropNoticed
<1>1. TypeOK /\ CycleInv /\ [Next]_vars =>
        [(/\ ConnectedOnce /\ state \in Live /\ ~closing /\ ~idle
          /\ link[client] = "up" /\ link'[client] = "down")
         => \/ state' = "reconnecting" /\ reconnectPending'
            \/ state' = "failed" /\ config.maxRetries = 0]_vars
  BY DropIsNoticed
<1>2. QED
  BY <1>1, TypeCorrect, CycleInvariant, PTL DEF Spec, DropNoticed

-----------------------------------------------------------------------------
(* What a replaced client leaves behind, when links fail by dropping only. *)

LEMMA NextLinks == TypeOK /\ CycleInv /\ LinkInv /\ [Next]_vars => LinkInv'
<1> SUFFICES ASSUME TypeOK, CycleInv, LinkInv, [Next]_vars, OnlyDrops' PROVE LinkFacts'
  BY DEF LinkInv
<1>0. /\ UNCHANGED config /\ LinkFacts /\ CycleFacts /\ ~config.lazy /\ ~config.reuse
      /\ config.faults \subseteq {"drop"}
      /\ pc \in [Cycles -> PCs] /\ on \in [Cycles -> Clients] /\ link \in [Clients -> LinkStates]
      /\ client \in Clients /\ reads \subseteq ReadAges
  <2>1. UNCHANGED config
    BY DEF Next, vars
  <2>2. OnlyDrops
    BY <2>1 DEF OnlyDrops, ConnectedOnce
  <2>3. config.faults \subseteq {"drop", "error"}
    BY ConnAssumption DEF TypeOK, ConnAssumption, ConfigType
  <2>4. QED
    BY <2>1, <2>2, <2>3 DEF OnlyDrops, ConnectedOnce, CycleInv, LinkInv, TypeOK
<1>1. ASSUME NEW c \in Cycles, Connect(c) PROVE LinkFacts'
  <2>1. state = "idle" /\ Running = {}
    BY <1>0, <1>1 DEF Connect, CycleFacts
  <2>2. Running' \subseteq {c}
    BY <1>0, <1>1, <2>1, StartsAlone DEF Connect, Establish
  <2>3. /\ link' = [link EXCEPT ![client] = "opening"]
        /\ on'[c] = client /\ pc'[c] \in {"resuming", "dialing"}
        /\ reads' = {} /\ state' = "connecting" /\ ~reconnectPending'
        /\ client' = client
    BY <1>0, <1>1, <2>1 DEF Connect, Establish, LinkFacts, CycleFacts, Gone
  <2>4. QED
    BY <1>0, <2>2, <2>3 DEF LinkFacts, Gone
<1>2. ASSUME NEW c \in Cycles, TimerFires(c) PROVE LinkFacts'
  <2>1. Running = {} /\ link[client] \in Gone
    BY <1>0, <1>2 DEF TimerFires, CycleFacts, LinkFacts
  <2>2. Running' \subseteq {c}
    BY <1>0, <1>2, <2>1, StartsAlone DEF TimerFires, Await
  <2>3. /\ UNCHANGED <<client, link>> /\ reads' = {} /\ ~reconnectPending'
        /\ state' = "reconnecting" /\ pc'[c] = "stopping" /\ on'[c] = client
    BY <1>0, <1>2 DEF TimerFires, Await, MarkStaleByServer
  <2>4. QED
    BY <1>0, <2>1, <2>2, <2>3 DEF LinkFacts
<1>3. ASSUME NEW c \in Cycles, CycleStep(c) PROVE LinkFacts'
  <2>1. /\ c \in Running
        /\ \A d \in Cycles \ {c} : pc'[d] = pc[d]
    BY <1>0, <1>3
    DEF CycleStep, Redial, ResumeOk, ResumeFails, DialOk, DialFails, ListOk, ListFails, Finish,
        Establish, Established, Await, Fails, Ends, Running
  <2>2. /\ Running' \subseteq {c} /\ ~reconnectPending /\ state \notin Live /\ state # "idle"
        /\ \A d \in Cycles \ {c} : pc[d] = "off"
    BY <1>0, <2>1, StaysAlone DEF CycleFacts, Running
  <2>3. on[c] = client
    BY <1>0, <2>1 DEF LinkFacts
  <2>4. CASE Redial(c)
    <3>1. link[client] \in Gone /\ reads = {}
      BY <1>0, <2>1, <2>4 DEF Redial, LinkFacts
    <3>2. client' \in Clients /\ client' # client
      BY <2>4, MakeClientType DEF Redial, MakeClient, TypeOK, Clients
    <3>3. /\ link' = [link EXCEPT ![client'] = "opening"]
          /\ pc'[c] \in {"resuming", "dialing"} /\ on'[c] = client'
          /\ UNCHANGED <<state, reads, reconnectPending>>
      BY <1>0, <2>4, <3>2 DEF Redial, Establish, LinkFacts, Gone
    <3>4. QED
      BY <1>0, <2>2, <3>1, <3>2, <3>3 DEF LinkFacts, Gone
  <2>5. CASE ResumeFails(c)
    <3>1. link[client] \in {"opening", "down"} /\ reads = {}
      BY <1>0, <2>1, <2>5 DEF ResumeFails, LinkFacts
    <3>2. client' \in Clients /\ client' # client
      BY <2>5, MakeClientType DEF ResumeFails, MakeClient, TypeOK, Clients
    <3>3. /\ link' = [link EXCEPT ![client] = "down", ![client'] = "opening"]
          /\ pc'[c] = "dialing" /\ on'[c] = client'
          /\ UNCHANGED <<state, reads, reconnectPending>>
      BY <1>0, <2>2, <2>5, <3>1 DEF ResumeFails, Await, Closed, OnClose
    <3>4. QED
      BY <1>0, <2>2, <3>1, <3>2, <3>3 DEF LinkFacts, Gone
  <2>6. CASE ResumeOk(c) \/ DialOk(c)
    <3>1. reads = {}
      BY <1>0, <2>1, <2>6 DEF ResumeOk, DialOk, LinkFacts
    <3>2. /\ link' = [link EXCEPT ![client] = "up"]
          /\ pc'[c] \in {"listing", "finishing"} /\ on'[c] = client
          /\ reads' = {} /\ state' \in {state, "initializing"}
          /\ UNCHANGED <<client, reconnectPending>>
      BY <1>0, <2>3, <2>6, <3>1 DEF ResumeOk, DialOk, Established, Await, Age
    <3>3. QED
      BY <1>0, <2>2, <3>2 DEF LinkFacts, Gone
  <2>7. CASE ListOk(c)
    <3>1. /\ link[client] = "up" /\ pc'[c] = "finishing" /\ on'[c] = client
          /\ UNCHANGED <<client, link, reads, state, reconnectPending>>
      BY <1>0, <2>3, <2>7 DEF ListOk, Await
    <3>2. QED
      BY <1>0, <2>2, <3>1 DEF LinkFacts, Gone
  <2>8. CASE DialFails(c) \/ ListFails(c)
    <3>1. /\ pc'[c] = "off" /\ UNCHANGED <<client, reads>>
          /\ state' # "idle"
      BY <1>0, <2>2, <2>8 DEF DialFails, ListFails, Fails, Ends, ScheduleReconnect, Live
    <3>2. link' = Closed(client) /\ link'[client] \in Gone
      <4>1. CASE DialFails(c)
        <5>1. link' \in {Closed(client), link} /\ link' = Closed(client)
          BY <2>2, <2>3, <4>1 DEF DialFails
        <5>2. link[client] \in {"opening", "down"}
          BY <1>0, <2>1, <4>1 DEF DialFails, LinkFacts
        <5>3. QED
          BY <1>0, <5>1, <5>2 DEF Closed, Gone
      <4>2. CASE ListFails(c)
        <5>1. link[client] = "down"
          BY <1>0, <2>1, <2>3, <4>2 DEF ListFails, Fault, LinkFacts
        <5>2. QED
          BY <1>0, <4>2, <5>1 DEF ListFails, Closed, Gone
      <4>3. QED
        BY <2>8, <4>1, <4>2
    <3>3. Running' = {}
      BY <2>2, <3>1 DEF Running
    <3>4. QED
      BY <1>0, <3>1, <3>2, <3>3 DEF LinkFacts, Closed, Gone
  <2>9. CASE Finish(c)
    <3>1. /\ pc'[c] = "off" /\ UNCHANGED <<client, link, reads, reconnectPending>>
          /\ state' # "idle"
      BY <1>0, <2>9 DEF Finish, Ends
    <3>2. Running' = {}
      BY <2>2, <3>1 DEF Running
    <3>3. QED
      BY <1>0, <2>2, <3>1, <3>2 DEF LinkFacts
  <2>10. QED
    BY <1>3, <2>4, <2>5, <2>6, <2>7, <2>8, <2>9 DEF CycleStep
<1>4. CASE CloseClient \/ \E k \in Clients : Drop(k)
  <2>1. link' = Closed(client)
    BY <1>0, <1>4 DEF CloseClient, Drop, LinkFacts, Gone
  <2>2. UNCHANGED <<client, pc, on, reads>>
    BY <1>4 DEF CloseClient, Drop
  <2>3. state' # "idle" \/ state' = state
    BY <1>4 DEF CloseClient, Drop, OnClose, ScheduleReconnect, Live
  <2>4. Running' = Running
    BY <2>2 DEF Running
  <2>5. reconnectPending' => link'[client] \in Gone
    <3>1. CASE CloseClient
      BY <1>0, <2>1, <3>1 DEF CloseClient, OnClose, CycleFacts, LinkFacts, Closed, Gone
    <3>2. CASE \E k \in Clients : Drop(k)
      BY <1>0, <2>1 DEF Closed, Gone
    <3>3. QED
      BY <1>4, <3>1, <3>2
  <2>6. QED
    BY <1>0, <2>1, <2>2, <2>3, <2>4, <2>5 DEF LinkFacts, Closed, Gone
<1>5. CASE CloseReturns \/ CloseCalled \/ Observe \/ UNCHANGED vars
  <2>1. UNCHANGED <<client, link, pc, on, reads, reconnectPending>> /\ state' \in {state, "closed"}
    BY <1>5 DEF CloseReturns, CloseCalled, Observe, vars
  <2>2. QED
    BY <1>0, <2>1 DEF LinkFacts, Running
<1>6. CASE Read
  <2>1. UNCHANGED <<client, link, pc, on, state, reconnectPending>>
        /\ link[client] = "up" /\ "past" \notin reads'
    BY <1>0, <1>6 DEF Read, LinkFacts
  <2>2. QED
    BY <1>0, <2>1 DEF LinkFacts, Running, Gone
<1>7. ~(\E c \in Cycles : EnsureReadyWake(c)) /\ ~EnsureReadyJoin
  BY <1>0 DEF EnsureReadyWake, EnsureReadyJoin
<1>8. ~IdleTimerFires /\ ~SleepClient /\ ~SleepReturns
  BY <1>0 DEF CycleFacts, IdleTimerFires, SleepClient, SleepReturns
<1>9. QED
  BY <1>1, <1>2, <1>3, <1>4, <1>5, <1>6, <1>7, <1>8 DEF Next, CallStep

LEMMA LinkInvariant == Spec => []LinkInv
<1>1. Init => LinkInv
  <2>1. 1 \in Clients
    BY ConnAssumption DEF ConnAssumption, Clients
  <2>2. QED
    BY <2>1 DEF Init, LinkInv, LinkFacts, Running, Gone
<1>2. QED
  BY <1>1, NextLinks, TypeCorrect, CycleInvariant, PTL DEF Spec

\* Reconnecting any number of times never leaves the transport of a replaced client open.
THEOREM LinksReaped == Spec => []NoLeakedLink
<1>1. LinkInv => NoLeakedLink
  BY DEF LinkInv, LinkFacts, NoLeakedLink
<1>2. QED
  BY <1>1, LinkInvariant, PTL

\* A connection that says it is up trusts only reads answered over the present session.
THEOREM ReadsAreCurrent == Spec => []ReadsOfThisSession
<1>1. LinkInv => ReadsOfThisSession
  BY DEF LinkInv, LinkFacts, ReadsOfThisSession
<1>2. QED
  BY <1>1, LinkInvariant, PTL

-----------------------------------------------------------------------------
(* An eager connection implements RetryCycle.                              *)

LEMMA PhaseIs ==
  ASSUME ConnectedOnce
  PROVE  /\ Running # {} => Phase = "trying"
         /\ Running = {} /\ reconnectPending => Phase = "waiting"
         /\ Running = {} /\ ~reconnectPending /\ state \in Live => Phase = "up"
         /\ Running = {} /\ ~reconnectPending /\ state = "idle" => Phase = "idle"
         /\ Running = {} /\ ~reconnectPending /\ state \notin Live \cup {"idle"}
              => Phase = "over"
BY DEF Phase, Live

LEMMA PhaseBecomes ==
  ASSUME ConnectedOnce'
  PROVE  /\ Running' # {} => Phase' = "trying"
         /\ Running' = {} /\ reconnectPending' => Phase' = "waiting"
         /\ Running' = {} /\ ~reconnectPending' /\ state' \in Live => Phase' = "up"
         /\ Running' = {} /\ ~reconnectPending' /\ state' = "idle" => Phase' = "idle"
         /\ Running' = {} /\ ~reconnectPending' /\ state' \notin Live \cup {"idle"}
              => Phase' = "over"
BY DEF Phase, Live

\* What an attempt that fails, or a loss that is noticed, does to the phase.
LEMMA SchedulingRetries ==
  ASSUME TypeOK, ConnectedOnce, UNCHANGED config, NEW s, ~reconnectPending,
         ScheduleReconnect(s), Running' = {}, Phase \in {"trying", "up"}
  PROVE  Retrying!CycleNext
<1>0. /\ ConnectedOnce' /\ config' = config
      /\ config.maxRetries \in Nat /\ retries \in 0 .. config.maxRetries
  BY ConfigFacts DEF ConnectedOnce, TypeOK
<1>1. CASE retries >= config.maxRetries /\ state' = "failed" /\ UNCHANGED <<retries, reconnectPending>>
  <2>1. retries = config.maxRetries
    BY <1>0, <1>1
  <2>2. Phase' = "over"
    BY <1>0, <1>1, PhaseBecomes DEF Live
  <2>3. Retrying!GiveUp
    BY <1>0, <1>1, <2>1, <2>2 DEF Retrying!GiveUp
  <2>4. QED
    BY <2>3 DEF Retrying!CycleNext
<1>2. CASE retries < config.maxRetries /\ retries' = retries + 1 /\ reconnectPending'
  <2>1. Phase' = "waiting"
    BY <1>0, <1>2, PhaseBecomes
  <2>2. Retrying!Fail
    BY <1>0, <1>2, <2>1 DEF Retrying!Fail
  <2>3. QED
    BY <2>2 DEF Retrying!CycleNext
<1>3. QED
  BY <1>1, <1>2 DEF ScheduleReconnect

LEMMA StepsRetry ==
  ASSUME TypeOK, CycleInv, [Next]_vars
  PROVE  [Retrying!CycleNext]_(Retrying!cycle)
<1>1. UNCHANGED config /\ ConnectedOnce' = ConnectedOnce
  BY DEF Next, vars, ConnectedOnce
<1>2. CASE ~ConnectedOnce
  BY <1>1, <1>2 DEF Phase, Retrying!cycle
<1>3. CASE ConnectedOnce
  <2>0. /\ CycleFacts /\ ConnectedOnce' /\ ~config.lazy /\ ~config.reuse
        /\ pc \in [Cycles -> PCs]
    BY <1>1, <1>3 DEF CycleInv, ConnectedOnce, TypeOK
  <2>1. ASSUME NEW c \in Cycles, Connect(c) PROVE Retrying!Start
    <3>1. state = "idle" /\ Running = {} /\ ~reconnectPending
      BY <2>0, <2>1 DEF Connect, CycleFacts
    <3>2. c \in Running' /\ retries' = retries
      BY <2>0, <2>1 DEF Connect, Establish, Running
    <3>3. Phase = "idle" /\ Phase' = "trying"
      BY <1>3, <2>0, <3>1, <3>2, PhaseIs, PhaseBecomes
    <3>4. QED
      BY <1>1, <3>2, <3>3 DEF Retrying!Start
  <2>2. ASSUME NEW c \in Cycles, TimerFires(c) PROVE Retrying!Retry
    <3>1. reconnectPending /\ Running = {}
      BY <2>0, <2>2 DEF TimerFires, CycleFacts
    <3>2. c \in Running' /\ retries' = retries
      BY <2>0, <2>2 DEF TimerFires, Await, Running
    <3>3. Phase = "waiting" /\ Phase' = "trying"
      BY <1>3, <2>0, <3>1, <3>2, PhaseIs, PhaseBecomes
    <3>4. QED
      BY <1>1, <3>2, <3>3 DEF Retrying!Retry
  <2>3. ASSUME NEW c \in Cycles, Redial(c) \/ ResumeOk(c) \/ ResumeFails(c) \/ DialOk(c) \/ ListOk(c)
        PROVE  UNCHANGED Retrying!cycle
    <3>1. c \in Running
      BY <2>0, <2>3 DEF Redial, ResumeOk, ResumeFails, DialOk, ListOk, Running
    <3>2. c \in Running'
      BY <2>0, <2>3 DEF Redial, ResumeOk, ResumeFails, DialOk, ListOk, Establish, Established,
                        Await, Running
    <3>3. state \notin Live
      BY <2>0, <3>1 DEF CycleFacts
    <3>4. retries' = retries
      BY <2>3, <3>3 DEF Redial, ResumeOk, ResumeFails, DialOk, ListOk, Established, OnClose
    <3>5. Phase = "trying" /\ Phase' = "trying"
      BY <1>3, <2>0, <3>1, <3>2, PhaseIs, PhaseBecomes
    <3>6. QED
      BY <1>1, <3>4, <3>5 DEF Retrying!cycle
  <2>4. ASSUME NEW c \in Cycles, DialFails(c) \/ ListFails(c) PROVE Retrying!CycleNext
    <3>1. Fails(c) /\ c \in Running
      BY <2>0, <2>4 DEF DialFails, ListFails, Running
    <3>2. ~reconnectPending /\ Running' = {}
      BY <2>0, <3>1 DEF CycleFacts, Fails, Ends, Running
    <3>3. Phase = "trying"
      BY <1>3, <3>1, PhaseIs
    <3>4. PICK s : ScheduleReconnect(s)
      BY <3>1 DEF Fails
    <3>5. QED
      BY <1>1, <1>3, <3>2, <3>3, <3>4, SchedulingRetries
  <2>5. ASSUME NEW c \in Cycles, Finish(c) PROVE Retrying!Succeed
    <3>1. c \in Running
      BY <2>0, <2>5 DEF Finish, Running
    <3>2. ~reconnectPending' /\ Running' = {}
      BY <2>0, <2>5, <3>1 DEF CycleFacts, Finish, Ends, Running
    <3>3. state' \in Live /\ retries' = 0
      BY <2>5 DEF Finish, Live
    <3>4. Phase = "trying" /\ Phase' = "up"
      BY <1>3, <2>0, <3>1, <3>2, <3>3, PhaseIs, PhaseBecomes
    <3>5. QED
      BY <1>1, <1>3, <2>0, <3>3, <3>4 DEF Retrying!Succeed
  <2>6. ASSUME NEW k \in Clients, Drop(k) PROVE [Retrying!CycleNext]_(Retrying!cycle)
    <3>1. Running' = Running
      BY <2>6 DEF Drop, Running
    <3>2. CASE UNCHANGED <<state, retries, reconnectPending>>
      BY <1>1, <3>1, <3>2 DEF Phase, Retrying!cycle
    <3>3. CASE state \in Live /\ ScheduleReconnect(state)
      <4>1. Running = {} /\ ~reconnectPending
        BY <2>0, <3>3 DEF CycleFacts
      <4>2. Phase = "up"
        BY <1>3, <3>3, <4>1, PhaseIs
      <4>3. QED
        BY <1>1, <1>3, <3>1, <3>3, <4>1, <4>2, SchedulingRetries
    <3>4. QED
      BY <2>6, <3>2, <3>3 DEF Drop, OnClose
  <2>7. ASSUME CloseReturns PROVE [Retrying!CycleNext]_(Retrying!cycle)
    <3>1. /\ Running' = Running /\ state' = "closed"
          /\ UNCHANGED <<retries, reconnectPending>>
      BY <2>7 DEF CloseReturns, Running
    <3>2. CASE Running = {} /\ ~reconnectPending /\ state \in Live \cup {"idle"}
      <4>1. Phase \in {"up", "idle"} /\ Phase' = "over"
        BY <1>3, <2>0, <3>1, <3>2, PhaseIs, PhaseBecomes DEF Live
      <4>2. QED
        BY <1>1, <3>1, <4>1 DEF Retrying!Stop, Retrying!CycleNext
    <3>3. CASE ~(Running = {} /\ ~reconnectPending /\ state \in Live \cup {"idle"})
      <4>1. Phase' = Phase
        BY <1>3, <2>0, <3>1, <3>3, PhaseIs, PhaseBecomes DEF Live
      <4>2. QED
        BY <1>1, <3>1, <4>1 DEF Retrying!cycle
    <3>4. QED
      BY <3>2, <3>3
  <2>8. ASSUME CloseClient \/ CloseCalled \/ Read \/ Observe \/ UNCHANGED vars
        PROVE  UNCHANGED Retrying!cycle
    <3>1. UNCHANGED <<state, retries, reconnectPending, pc>>
      BY <2>0, <2>8 DEF CloseClient, OnClose, CycleFacts, CloseCalled, Read, Observe, vars
    <3>2. QED
      BY <1>1, <3>1 DEF Phase, Running, Retrying!cycle
  <2>9. /\ ~(\E c \in Cycles : EnsureReadyWake(c)) /\ ~EnsureReadyJoin
        /\ ~IdleTimerFires /\ ~SleepClient /\ ~SleepReturns
    BY <2>0 DEF CycleFacts, EnsureReadyWake, EnsureReadyJoin, IdleTimerFires, SleepClient,
                SleepReturns
  <2>10. QED
    BY <2>1, <2>2, <2>3, <2>4, <2>5, <2>6, <2>7, <2>8, <2>9
    DEF Next, CycleStep, CallStep, Retrying!CycleNext
<1>4. QED
  BY <1>2, <1>3

\* An eager connection retries in turn: each of its steps is a step of RetryCycle or leaves
\* the phase alone, for any number of retries, clients and suspended calls (the fairness part
\* of RetriesInTurn is model-checked).
THEOREM ImplementsRetryCycle == Spec => Retrying!CycleSafety
<1>1. Init => Retrying!CycleInit
  <2> SUFFICES ASSUME Init PROVE Retrying!CycleInit
    OBVIOUS
  <2>1. /\ state = "idle" /\ ~reconnectPending /\ Running = {} /\ retries = 0
        /\ config.maxRetries \in Nat
    BY ConfigFacts DEF Init, Running
  <2>2. Phase = "idle"
    BY <2>1, PhaseIs DEF Phase
  <2>3. QED
    BY <2>1, <2>2 DEF Retrying!CycleInit
<1>2. TypeOK /\ CycleInv /\ [Next]_vars => [Retrying!CycleNext]_(Retrying!cycle)
  BY StepsRetry
<1>3. QED
  BY <1>1, <1>2, TypeCorrect, CycleInvariant, PTL DEF Spec, Retrying!CycleSafety

-----------------------------------------------------------------------------
(* Subscriptions                                                           *)

\* After a close signal the connection says that it is up only when it did before.
LEMMA OnCloseLeavesUp ==
  ASSUME NEW k, OnClose(k), state' \in Live, ~reconnectPending'
  PROVE  UNCHANGED <<state, reconnectPending>>
BY DEF OnClose, ScheduleReconnect, Live

\* A cycle that fails leaves a connection that says it is not up, or the timer armed.
LEMMA FailsDown ==
  ASSUME NEW c \in Cycles, Fails(c)
  PROVE  state' \notin Live \/ reconnectPending'
BY DEF Fails, ScheduleReconnect, Live

LEMMA CycleGoesOn ==
  ASSUME TypeOK, NEW c \in Cycles,
         \/ Connect(c) \/ EnsureReadyWake(c) \/ TimerFires(c) \/ Redial(c)
         \/ ResumeOk(c) \/ ResumeFails(c) \/ DialOk(c) \/ ListOk(c)
  PROVE  Running' # {}
<1>1. pc \in [Cycles -> PCs]
  BY DEF TypeOK
<1>2. pc'[c] # "off"
  BY <1>1 DEF Connect, EnsureReadyWake, TimerFires, Redial, ResumeOk, ResumeFails, DialOk, ListOk,
              Establish, Established, Await
<1>3. QED BY <1>2 DEF Running

LEMMA NextObserved ==
  TypeOK /\ CycleInv /\ ObservedInv /\ [Next]_vars => ObservedStaySubscribed'
<1> SUFFICES ASSUME TypeOK, ObservedInv, [Next]_vars, ConnectedOnce' \/ config'.modern,
                    Running' = {}, ~reconnectPending', state' \in Live, link'[client'] = "up",
                    observed', "subscribe" \in capabilities'
             PROVE  subscribed'
  BY DEF ObservedStaySubscribed
<1>0. /\ UNCHANGED config /\ (ConnectedOnce \/ config.modern)
      /\ link \in [Clients -> LinkStates] /\ client \in Clients /\ pc \in [Cycles -> PCs]
      /\ kind \in [Cycles -> Kinds]
  BY DEF Next, vars, ConnectedOnce, TypeOK
<1>1. /\ Running = {} /\ ~reconnectPending /\ state \in Live /\ link[client] = "up"
         /\ observed /\ "subscribe" \in capabilities
      => subscribed
  BY <1>0 DEF ObservedInv, ObservedStaySubscribed
<1>2. ASSUME NEW c \in Cycles
      PROVE  ~(\/ Connect(c) \/ EnsureReadyWake(c) \/ TimerFires(c) \/ Redial(c)
               \/ ResumeOk(c) \/ ResumeFails(c) \/ DialOk(c) \/ ListOk(c)
               \/ DialFails(c) \/ ListFails(c))
  BY CycleGoesOn, FailsDown DEF DialFails, ListFails
<1>3. ASSUME NEW c \in Cycles, Finish(c) PROVE subscribed'
  <2>1. /\ pc[c] = "finishing" /\ subscribed' = (subscribed \/ Resubscribes(c))
        /\ UNCHANGED <<capabilities, client, link, observed>>
    BY <1>3 DEF Finish
  <2>2. CASE config.modern \/ kind[c] = "reconnect"
    BY <2>1, <2>2 DEF Resubscribes
  <2>3. CASE ConnectedOnce /\ kind[c] # "reconnect"
    <3>1. kind[c] = "connect" /\ (observed => subscribed)
      BY <1>0, <2>1, <2>3 DEF ObservedInv, FirstConnectFacts, Running, Kinds
    <3>2. QED BY <2>1, <3>1
  <2>4. QED BY <1>0, <2>2, <2>3
<1>4. ASSUME NEW k, OnClose(k), link' = Closed(k) \/ link' = Closed(client),
             UNCHANGED <<client, pc, capabilities, observed, subscribed>>
      PROVE  subscribed'
  <2>1. UNCHANGED <<state, reconnectPending>>
    BY <1>4, OnCloseLeavesUp
  <2>2. link[client] = "up" /\ Running = {}
    BY <1>0, <1>4 DEF Closed, Running
  <2>3. QED BY <1>1, <1>4, <2>1, <2>2
<1>5. ASSUME NEW k \in Clients, Drop(k) PROVE subscribed'
  BY <1>4, <1>5 DEF Drop
<1>6. CASE CloseClient \/ SleepClient
  BY <1>4, <1>6 DEF CloseClient, SleepClient
<1>7. CASE \/ EnsureReadyJoin \/ CloseCalled \/ IdleTimerFires \/ CloseReturns \/ SleepReturns
           \/ Read \/ UNCHANGED vars
  <2>1. UNCHANGED <<reconnectPending, link, client, pc, capabilities, observed, subscribed>>
    BY <1>7 DEF EnsureReadyJoin, CloseCalled, IdleTimerFires, CloseReturns, SleepReturns, Read, vars
  <2>2. state' = state
    BY <1>7 DEF EnsureReadyJoin, CloseCalled, IdleTimerFires, CloseReturns, SleepReturns, Read, vars,
                Live
  <2>3. Running = {}
    BY <2>1 DEF Running
  <2>4. QED BY <1>1, <2>1, <2>2, <2>3
<1>8. CASE Observe
  BY <1>8 DEF Observe
<1>9. QED
  BY <1>2, <1>3, <1>5, <1>6, <1>7, <1>8 DEF Next, CycleStep, CallStep

LEMMA NextFirstConnect ==
  TypeOK /\ CycleInv /\ ObservedInv /\ [Next]_vars => (ConnectedOnce' => FirstConnectFacts')
<1> SUFFICES ASSUME TypeOK, CycleInv, ObservedInv, [Next]_vars, ConnectedOnce'
             PROVE  FirstConnectFacts'
  OBVIOUS
<1>0. /\ UNCHANGED config /\ CycleFacts /\ FirstConnectFacts /\ ~config.lazy /\ ~config.reuse
      /\ pc \in [Cycles -> PCs] /\ kind \in [Cycles -> Kinds]
  BY DEF Next, vars, CycleInv, ObservedInv, ConnectedOnce, TypeOK
<1>1. ASSUME NEW c \in Cycles, Connect(c) PROVE FirstConnectFacts'
  <2>1. state = "idle" /\ Running = {} /\ capabilities = {} /\ ~observed
    BY <1>0, <1>1 DEF Connect, CycleFacts, FirstConnectFacts
  <2>2. Running' \subseteq {c} /\ kind'[c] = "connect" /\ pc'[c] \in {"resuming", "dialing"}
    BY <1>0, <1>1, <2>1, StartsAlone DEF Connect, Establish
  <2>3. QED BY <1>1, <2>1, <2>2 DEF Connect, FirstConnectFacts
<1>2. ASSUME NEW c \in Cycles, TimerFires(c) PROVE FirstConnectFacts'
  <2>1. Running = {}
    BY <1>0, <1>2 DEF TimerFires, CycleFacts
  <2>2. Running' \subseteq {c} /\ kind'[c] = "reconnect" /\ state' = "reconnecting"
    BY <1>0, <1>2, <2>1, StartsAlone DEF TimerFires, Await
  <2>3. QED BY <2>2 DEF FirstConnectFacts
<1>3. ASSUME NEW c \in Cycles, Redial(c) \/ ResumeOk(c) \/ ResumeFails(c) \/ DialOk(c) \/ ListOk(c)
      PROVE  FirstConnectFacts'
  <2>1. /\ c \in Running /\ \A d \in Cycles \ {c} : pc'[d] = pc[d]
    BY <1>0, <1>3
    DEF Redial, ResumeOk, ResumeFails, DialOk, ListOk, Establish, Established, Await, Running
  <2>2. Running' \subseteq {c} /\ state \notin Live /\ state # "idle"
    BY <1>0, <2>1, StaysAlone
  <2>3. kind' = kind /\ observed' = observed /\ state' # "idle"
    BY <1>3, <2>2 DEF Redial, ResumeOk, ResumeFails, DialOk, ListOk, Established, OnClose
  <2>4. /\ kind[c] # "ensure"
        /\ kind[c] = "connect" /\ pc[c] \in {"resuming", "dialing"} => capabilities = {} /\ ~observed
        /\ kind[c] = "connect" /\ pc[c] \in {"listing", "finishing"} => (observed => subscribed)
        /\ kind[c] = "connect" => pc[c] # "stopping"
    BY <1>0, <2>1 DEF FirstConnectFacts
  <2>5. kind[c] = "connect" =>
          /\ pc'[c] \in {"resuming", "dialing"} => capabilities' = {} /\ ~observed
          /\ pc'[c] \in {"listing", "finishing"} => (observed => subscribed')
          /\ pc'[c] # "stopping"
    <3>1. CASE Redial(c)
      BY <2>4, <3>1 DEF Redial
    <3>2. CASE ResumeOk(c) \/ DialOk(c)
      BY <1>0, <2>4, <3>2 DEF ResumeOk, DialOk, Established, Await
    <3>3. CASE ResumeFails(c)
      BY <1>0, <2>4, <3>3 DEF ResumeFails, Await
    <3>4. CASE ListOk(c)
      BY <1>0, <2>4, <3>4 DEF ListOk, Await
    <3>5. QED BY <1>3, <3>1, <3>2, <3>3, <3>4
  <2>6. QED BY <2>2, <2>3, <2>4, <2>5 DEF FirstConnectFacts
<1>4. ASSUME NEW c \in Cycles, DialFails(c) \/ ListFails(c) \/ Finish(c) PROVE FirstConnectFacts'
  <2>1. c \in Running /\ pc'[c] = "off" /\ \A d \in Cycles \ {c} : pc'[d] = pc[d]
    BY <1>0, <1>4 DEF DialFails, ListFails, Finish, Fails, Ends, Running
  <2>2. Running' = {} /\ state # "idle"
    BY <1>0, <2>1, StaysAlone DEF Running
  <2>3. state' # "idle"
    <3>1. CASE Finish(c)
      BY <3>1 DEF Finish
    <3>2. CASE DialFails(c) \/ ListFails(c)
      BY <2>2, <3>2 DEF DialFails, ListFails, Fails, ScheduleReconnect, Live
    <3>3. QED BY <1>4, <3>1, <3>2
  <2>4. QED BY <2>2, <2>3 DEF FirstConnectFacts
<1>5. ASSUME UNCHANGED <<pc, kind, capabilities, observed, subscribed>>,
             state' = "idle" => state = "idle"
      PROVE  FirstConnectFacts'
  BY <1>0, <1>5 DEF FirstConnectFacts, Running
<1>6. CASE CloseClient \/ \E k \in Clients : Drop(k)
  <2>1. UNCHANGED <<pc, kind, capabilities, observed, subscribed>> /\ \E k : OnClose(k)
    BY <1>6 DEF CloseClient, Drop
  <2>2. QED BY <1>0, <1>5, <2>1, OnCloseAlone
<1>7. CASE CloseReturns \/ CloseCalled \/ Read \/ UNCHANGED vars
  BY <1>5, <1>7 DEF CloseReturns, CloseCalled, Read, vars
<1>8. CASE Observe
  <2>1. /\ "subscribe" \in capabilities /\ subscribed' = TRUE
        /\ UNCHANGED <<state, capabilities, pc, kind>>
    BY <1>8 DEF Observe
  <2>2. QED BY <1>0, <2>1 DEF FirstConnectFacts, Running
<1>9. ~(\E c \in Cycles : EnsureReadyWake(c)) /\ ~EnsureReadyJoin
  BY <1>0 DEF EnsureReadyWake, EnsureReadyJoin
<1>10. ~IdleTimerFires /\ ~SleepClient /\ ~SleepReturns
  BY <1>0 DEF CycleFacts, IdleTimerFires, SleepClient, SleepReturns
<1>11. QED
  BY <1>1, <1>2, <1>3, <1>4, <1>6, <1>7, <1>8, <1>9, <1>10 DEF Next, CycleStep, CallStep

\* "reconnect -> ... -> resubscribe observed entries" (connection.ts): once the attempts have
\* ended, a resource flagged as subscribed is subscribed in the session of a connection that is
\* up, for an eager connection of either protocol and a lazy one of the modern protocol.
THEOREM ObservedAreSubscribed == Spec => []ObservedStaySubscribed
<1>1. Init => ObservedInv
  BY DEF Init, ObservedInv, ObservedStaySubscribed, FirstConnectFacts, Running
<1>2. TypeOK /\ CycleInv /\ ObservedInv /\ [Next]_vars => ObservedInv'
  BY NextObserved, NextFirstConnect DEF ObservedInv
<1>3. ObservedInv => ObservedStaySubscribed
  BY DEF ObservedInv
<1>4. QED BY <1>1, <1>2, <1>3, TypeCorrect, CycleInvariant, PTL DEF Spec

=============================================================================
