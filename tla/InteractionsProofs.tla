------------------------- MODULE InteractionsProofs -------------------------
(***************************************************************************)
(* Proofs about the requests of a server that people answer: the broker's  *)
(* handling of one (Interactions), a task whose inputs it answers (Tasks), *)
(* and the approval queue whose policy decides (Approvals).                *)
(***************************************************************************)
EXTENDS Tasks, Approvals, SequenceTheorems, TLAPS

-----------------------------------------------------------------------------
(* The broker                                                              *)

\* What has been said by the time the handler is at each of its awaits.
AskedFor ==
  /\ at # "idle" => outcome = "none"
  /\ at = "request" => verdict = "ask" \/ (verdict = "allow" /\ Authored)
  /\ at = "model" => /\ kind = "sampling" /\ ~Authored
                     /\ verdict = "allow" \/ (verdict = "ask" /\ "request" \in said)
  /\ at = "response" => kind = "sampling" /\ ~Authored /\ "request" \in said

AskInv == AskTypeOK /\ AskedFor /\ NothingUnapproved

LEMMA HandleKeepsAskInv ==
  ASSUME AskInv, NEW k \in Kinds, Handle(k), setup' = setup
  PROVE  AskInv'
BY DEF AskInv, AskTypeOK, AskedFor, NothingUnapproved, Handle, Authored

LEMMA AskInvStep ==
  ASSUME AskInv, setup.verdicts \subseteq Verdicts, setup' = setup, AskNext
  PROVE  AskInv'
<1> USE DEF AskInv, AskTypeOK, AskedFor, NothingUnapproved, Authored, Ends, Refuses, Verdicts, Kinds
<1>1. CASE Decided
  <2>1. PICK v \in setup.verdicts :
          /\ verdict' = v
          /\ \/ v = "deny" /\ Refuses
             \/ /\ v = "ask" \/ (v = "allow" /\ Authored)
                /\ at' = "request" /\ UNCHANGED outcome
             \/ v = "allow" /\ kind = "elicitation" /\ Ends("accept")
             \/ v = "allow" /\ kind = "sampling" /\ ~Authored /\ at' = "model" /\ UNCHANGED outcome
    BY <1>1 DEF Decided
  <2>2. UNCHANGED <<kind, said>> /\ at = "policy"
    BY <1>1 DEF Decided
  <2>3. CASE v = "deny" BY <2>1, <2>2, <2>3
  <2>4. CASE v = "ask" BY <2>1, <2>2, <2>4
  <2>5. CASE v = "allow" BY <2>1, <2>2, <2>5
  <2>6. QED BY <2>3, <2>4, <2>5
<1>2. CASE Approved BY <1>2 DEF Approved
<1>3. CASE Denied BY <1>3 DEF Denied
<1>4. CASE ModelAnswers BY <1>4 DEF ModelAnswers
<1>5. CASE ModelFails BY <1>5 DEF ModelFails
<1>6. CASE Reviewed BY <1>6 DEF Reviewed
<1>7. QED BY <1>1, <1>2, <1>3, <1>4, <1>5, <1>6 DEF AskNext, PeopleAct, BrokerActs

-----------------------------------------------------------------------------
(* The task                                                                *)

\* A task that is done runs no tool, and there is nothing before the call.
ServerInv ==
  /\ status \in {"completed", "failed"} => ~running
  /\ loop = "call" =>
       status = "working" /\ ~running /\ inbox = {} /\ reader = "idle"
       /\ \A to \in Recipients : wire[to] = <<>>

\* The input at the handler is one of the task's.
HandlerInv == loop = "handler" => atHandler \in Keys

Ended(snap) == snap.status \in Terminal

\* What has been told of a task that has ended is how it has ended: by any snapshot under way,
\* by the cache and by the result.
Told ==
  /\ \A to \in Recipients : \A i \in DOMAIN wire[to] : Ended(wire[to][i]) => status = wire[to][i].status
  /\ cached \in Terminal => status = cached
  /\ result \in Terminal => status = result

ToldInv == revived \/ Told

TaskInv == TaskTypeOK /\ HandlerInv /\ ServerInv /\ ToldInv /\ AskInv

LEMMA SetupFacts ==
  ASSUME setup \in Setups
  PROVE  /\ setup.verdicts \subseteq Verdicts
         /\ setup.maxFaults \in Nat
         /\ \A n \in 1 .. Len(setup.rounds) : Len(setup.rounds[n]) <= MaxKey
BY TaskAssumption DEF TaskAssumption, SetupType

LEMMA SnapshotTyped ==
  ASSUME TaskTypeOK
  PROVE  Snapshot \in Snapshots
BY DEF Snapshot, Snapshots, TaskTypeOK

\* What sending does to the snapshots on their way to one recipient, and what receiving does.
LEMMA SendsTyped ==
  ASSUME TaskTypeOK, NEW to \in Recipients, Sends(to)
  PROVE  /\ wire' \in [Recipients -> Seq(Snapshots)]
         /\ \A who \in Recipients : who # to => wire'[who] = wire[who]
         /\ Len(wire'[to]) = Len(wire[to]) + 1 /\ Len(wire[to]) \in Nat
         /\ DOMAIN wire[to] = 1 .. Len(wire[to])
         /\ \A i \in 1 .. Len(wire[to]) : wire'[to][i] = wire[to][i]
         /\ wire'[to][Len(wire[to]) + 1] = Snapshot
<1>1. wire \in [Recipients -> Seq(Snapshots)] /\ Snapshot \in Snapshots
  BY SnapshotTyped DEF TaskTypeOK
<1>2. wire' = [wire EXCEPT ![to] = Append(wire[to], Snapshot)]
  BY DEF Sends
<1>3. PICK q \in Seq(Snapshots) : q = wire[to]
  BY <1>1
<1>4. PICK m \in Snapshots : m = Snapshot
  BY <1>1
<1>5. /\ Append(q, m) \in Seq(Snapshots)
      /\ Len(Append(q, m)) = Len(q) + 1 /\ Len(q) \in Nat /\ DOMAIN q = 1 .. Len(q)
      /\ \A i \in 1 .. Len(q) : Append(q, m)[i] = q[i]
      /\ Append(q, m)[Len(q) + 1] = m
  OBVIOUS
<1>6. wire'[to] = Append(q, m)
  BY <1>1, <1>2, <1>3, <1>4
<1>7. QED BY <1>1, <1>2, <1>3, <1>4, <1>5, <1>6

LEMMA HeadTyped ==
  ASSUME TaskTypeOK, NEW to \in Recipients, wire[to] # <<>>,
         wire' = [wire EXCEPT ![to] = Tail(@)]
  PROVE  /\ Head(wire[to]) \in Snapshots /\ Head(wire[to]) = wire[to][1] /\ 1 \in DOMAIN wire[to]
         /\ wire' \in [Recipients -> Seq(Snapshots)]
         /\ \A who \in Recipients : who # to => wire'[who] = wire[who]
         /\ Len(wire'[to]) = Len(wire[to]) - 1
         /\ \A i \in DOMAIN wire'[to] : i + 1 \in DOMAIN wire[to] /\ wire'[to][i] = wire[to][i + 1]
<1>1. wire \in [Recipients -> Seq(Snapshots)]
  BY DEF TaskTypeOK
<1>2. PICK q \in Seq(Snapshots) : q = wire[to]
  BY <1>1
<1>3. /\ q # <<>>
      /\ wire'[to] = Tail(q)
  BY <1>1, <1>2
<1>4. /\ Head(q) \in Snapshots /\ Head(q) = q[1] /\ 1 \in DOMAIN q
      /\ Tail(q) \in Seq(Snapshots) /\ Len(Tail(q)) = Len(q) - 1
      /\ \A i \in DOMAIN Tail(q) : i + 1 \in DOMAIN q /\ Tail(q)[i] = q[i + 1]
  BY <1>3
<1>5. QED BY <1>1, <1>2, <1>3, <1>4

LEMMA ToolKeepsTypes ==
  ASSUME TaskTypeOK, AskTypeOK', status' \in Statuses, running' = FALSE,
         UNCHANGED <<setup, round, pending, revived, inbox, wire, handle, cached, reader, bounds>>
  PROVE  TaskTypeOK'
<1>1. /\ UNCHANGED <<setup, round, pending, revived, inbox, wire, cached, reader>>
      /\ UNCHANGED <<loop, task, todo, atHandler, responses, answered, result>>
      /\ UNCHANGED <<taskFaults, pushes, reads>>
  BY DEF handle, bounds
<1>2. QED BY <1>1 DEF TaskTypeOK

LEMMA TaskTypeStep ==
  ASSUME TaskTypeOK, HandlerInv, AskInv, [TaskNext]_taskVars
  PROVE  TaskTypeOK'
<1> USE TaskAssumption DEF TaskTypeOK, Statuses, Terminal, server, handle, bounds
<1>0. setup.verdicts \subseteq Verdicts
  BY SetupFacts
<1>1. CASE TaskStarts
  <2>1. wire' \in [Recipients -> Seq(Snapshots)]
    BY <1>1, SendsTyped DEF TaskStarts, Recipients
  <2>2. AskTypeOK'
    BY <1>1 DEF TaskStarts, askVars, AskTypeOK
  <2>3. status' \in Statuses /\ cached' \in {"none"} \cup Statuses /\ running' \in BOOLEAN
    BY <1>1 DEF TaskStarts
  <2>4. result' \in {"pending", "lost"} \cup Terminal
        /\ loop' \in {"call", "started", "off", "get", "inputs", "handler", "update", "beat", "done"}
    BY <1>1 DEF TaskStarts
  <2>5. QED BY <1>1, <2>1, <2>2, <2>3, <2>4 DEF TaskStarts
<1>2. CASE Watched BY <1>2 DEF Watched, askVars, AskTypeOK
<1>3. CASE ToolAsks
  <2>1. 1 .. Len(setup.rounds[round + 1]) \subseteq Keys
    BY <1>3, SetupFacts, SMTT(30) DEF ToolAsks, Keys, TaskAssumption, SetupType
  <2>2. QED BY <1>3, <2>1 DEF ToolAsks, askVars, AskTypeOK
<1>4. CASE ToolReturns
  <2>1. AskTypeOK'
    BY <1>4 DEF ToolReturns, askVars, AskTypeOK
  <2>2. status' \in Statuses
    BY <1>4 DEF ToolReturns
  <2>3. /\ running' = FALSE
        /\ UNCHANGED <<setup, round, pending, revived, inbox, wire, handle, cached, reader, bounds>>
    BY <1>4 DEF ToolReturns
  <2>4. QED BY <2>1, <2>2, <2>3, ToolKeepsTypes
<1>5. CASE NextInput
  <2>1. PICK k \in todo :
          /\ todo' = todo \ {k}
          /\ \/ /\ Offered(KindOf(k))
                /\ loop' = "handler" /\ atHandler' = k /\ Handle(KindOf(k))
                /\ UNCHANGED <<responses, answered>>
             \/ /\ ~Offered(KindOf(k))
                /\ IF KindOf(k) = "elicitation" \/ (KindOf(k) = "roots" /\ setup.roots)
                   THEN responses' = responses \cup {k} /\ answered' = answered \cup {k}
                   ELSE UNCHANGED <<responses, answered>>
                /\ UNCHANGED <<loop, atHandler, askVars>>
    BY <1>5 DEF NextInput
  <2>2. k \in Keys /\ k \in 0 .. MaxKey
    BY <2>1 DEF Keys
  <2>3. Offered(KindOf(k)) => KindOf(k) \in Kinds
    BY DEF Offered, Kinds
  <2>4. AskTypeOK'
    BY <1>5, <2>1, <2>3 DEF NextInput, Handle, AskTypeOK, askVars
  <2>5. /\ todo' \subseteq Keys /\ atHandler' \in 0 .. MaxKey
        /\ responses' \subseteq Keys /\ answered' \subseteq Keys
    BY <2>1, <2>2
  <2>6. loop' \in {"inputs", "handler"}
    BY <1>5, <2>1 DEF NextInput
  <2>7. QED BY <1>5, <2>4, <2>5, <2>6 DEF NextInput
<1>6. CASE HandlerSettles
  <2>1. AskTypeOK' /\ atHandler' \in 0 .. MaxKey
    BY <1>6 DEF HandlerSettles, AskTypeOK
  <2>2. responses' \subseteq Keys /\ answered' \subseteq Keys
    BY <1>6 DEF HandlerSettles, HandlerInv
  <2>3. QED BY <1>6, <2>1, <2>2 DEF HandlerSettles
<1>7. CASE InputsDone BY <1>7 DEF InputsDone, askVars, AskTypeOK
<1>8. CASE Updated BY <1>8 DEF Updated, Resolved, askVars, AskTypeOK
<1>9. CASE Beats BY <1>9 DEF Beats, askVars, AskTypeOK
<1>10. ASSUME NEW to \in Recipients, Arrives(to) PROVE TaskTypeOK'
  <2> PICK snap : snap = Head(wire[to])
    OBVIOUS
  <2>1. snap \in Snapshots /\ wire' \in [Recipients -> Seq(Snapshots)]
    BY <1>10, HeadTyped DEF Arrives
  <2>2. snap.status \in Statuses /\ snap.requests \subseteq Keys
    BY <2>1 DEF Snapshots
  <2>3. CASE to # "loop"
    BY <1>10, <2>1, <2>2, <2>3 DEF Arrives, askVars, AskTypeOK
  <2>4. CASE to = "loop" /\ snap.status \in Terminal
    BY <1>10, <2>1, <2>2, <2>4 DEF Arrives, LoopReads, askVars, AskTypeOK
  <2>5. CASE to = "loop" /\ snap.status \notin Terminal
    BY <1>10, <2>1, <2>2, <2>5 DEF Arrives, LoopReads, askVars, AskTypeOK
  <2>6. QED BY <2>3, <2>4, <2>5
<1>11. ASSUME NEW r \in {"loop", "reader"}, GetAnswered(r) PROVE TaskTypeOK'
  BY <1>11, SendsTyped DEF GetAnswered, Recipients, askVars, AskTypeOK
<1>12. CASE Pushes BY <1>12, SendsTyped DEF Pushes, Recipients, askVars, AskTypeOK
<1>13. CASE UpdateFails BY <1>13, SetupFacts DEF UpdateFails, Resolved, askVars, AskTypeOK
<1>14. CASE PollFails BY <1>14, SetupFacts DEF PollFails, askVars, AskTypeOK
<1>15. CASE BrokerSteps(AskNext)
  <2>1. AskTypeOK'
    BY <1>15, <1>0, AskInvStep DEF BrokerSteps, AskInv
  <2>2. QED BY <1>15, <2>1 DEF BrokerSteps
<1>16. CASE Cancel BY <1>16 DEF Cancel, Reads, askVars, AskTypeOK
<1>17. ASSUME NEW how \in {"once", "until"}, GetTask(how) PROVE TaskTypeOK'
  BY <1>17 DEF GetTask, Reads, askVars, AskTypeOK
<1>18. CASE ReadsAgain BY <1>18 DEF ReadsAgain, askVars, AskTypeOK
<1>19. CASE UNCHANGED taskVars BY <1>19 DEF taskVars, askVars, AskTypeOK
<1>20. QED
  BY <1>1, <1>2, <1>3, <1>4, <1>5, <1>6, <1>7, <1>8, <1>9, <1>10, <1>11, <1>12, <1>13, <1>14,
     <1>15, <1>16, <1>17, <1>18, <1>19 DEF TaskNext, ToolActs, LoopActs, Serves

\* Nothing is said, and a task that has ended stays as it is.
LEMMA ToldIfQuiet ==
  ASSUME Told, UNCHANGED <<wire, cached, result>>, status \in Terminal => status' = status
  PROVE  Told'
BY DEF Told, Ended

LEMMA ToldIfSent ==
  ASSUME TaskTypeOK, Told, NEW to \in Recipients, Sends(to), UNCHANGED <<status, cached, result>>
  PROVE  Told'
<1>1. ASSUME NEW who \in Recipients, NEW i \in DOMAIN wire'[who], Ended(wire'[who][i])
      PROVE  status = wire'[who][i].status
  <2>1. CASE who = to
    <3>1. DOMAIN wire'[to] = 1 .. Len(wire[to]) + 1
      BY SendsTyped
    <3>2. CASE i = Len(wire[to]) + 1
      BY <2>1, <3>2, SendsTyped DEF Snapshot
    <3>3. CASE i \in DOMAIN wire[to]
      BY <1>1, <2>1, <3>3, SendsTyped DEF Told, Ended
    <3>4. QED BY <1>1, <2>1, <3>1, <3>2, <3>3, SendsTyped
  <2>2. CASE who # to
    BY <1>1, <2>2, SendsTyped DEF Told, Ended
  <2>3. QED BY <2>1, <2>2
<1>2. QED BY <1>1 DEF Told, Ended

LEMMA ToldIfArrives ==
  ASSUME TaskTypeOK, Told, NEW to \in Recipients, Arrives(to)
  PROVE  Told'
<1>1. /\ wire[to] # <<>> /\ wire' = [wire EXCEPT ![to] = Tail(@)]
      /\ cached' = Head(wire[to]).status /\ status' = status
      /\ result' = result \/ (result' = Head(wire[to]).status /\ Ended(Head(wire[to])))
  BY DEF Arrives, LoopReads, Ended, server, handle
<1>2. Ended(wire[to][1]) => status = wire[to][1].status
  BY <1>1, HeadTyped DEF Told
<1>3. ASSUME NEW who \in Recipients, NEW i \in DOMAIN wire'[who], Ended(wire'[who][i])
      PROVE  status = wire'[who][i].status
  <2>1. CASE who = to
    <3>1. PICK j \in DOMAIN wire[to] : wire'[to][i] = wire[to][j]
      BY <1>1, <1>3, <2>1, HeadTyped
    <3>2. QED BY <1>3, <2>1, <3>1 DEF Told, Ended
  <2>2. CASE who # to
    BY <1>1, <1>3, <2>2, HeadTyped DEF Told, Ended
  <2>3. QED BY <2>1, <2>2
<1>4. QED BY <1>1, <1>2, <1>3, HeadTyped DEF Told, Ended

LEMMA TaskInvStep ==
  ASSUME TaskInv, [TaskNext]_taskVars
  PROVE  TaskInv' /\ (revived => revived')
<1> USE DEF TaskInv, ServerInv, HandlerInv, server, handle, bounds
<1>0. setup.verdicts \subseteq Verdicts
  BY SetupFacts DEF TaskTypeOK
<1>t. TaskTypeOK'
  BY TaskTypeStep
<1> DEFINE Rest == HandlerInv' /\ ServerInv' /\ AskInv' /\ (revived => revived') /\ ToldInv'
<1>a. ASSUME UNCHANGED <<setup, askVars>> PROVE AskInv'
  BY <1>a DEF AskInv, AskTypeOK, AskedFor, NothingUnapproved, Authored, askVars
<1>1. ASSUME TaskStarts PROVE Rest
  <2>1. AskInv'
    BY <1>1, <1>a DEF TaskStarts
  <2>2. HandlerInv' /\ ServerInv' /\ revived' = revived
    BY <1>1 DEF TaskStarts
  <2>3. ASSUME Told PROVE Told'
    <3>1. CASE Sends("call") /\ UNCHANGED <<status, result, cached>>
      BY <2>3, <3>1, ToldIfSent DEF Recipients
    <3>2. CASE status' = "completed" /\ result' = "completed" /\ cached' = "completed" /\ wire' = wire
      <4>1. \A to \in Recipients : wire'[to] = <<>>
        BY <1>1, <3>2 DEF TaskStarts
      <4>2. \A to \in Recipients : DOMAIN wire'[to] = {}
        BY <4>1
      <4>3. QED BY <3>2, <4>2 DEF Told
    <3>3. QED BY <1>1, <3>1, <3>2 DEF TaskStarts
  <2>4. QED BY <2>1, <2>2, <2>3 DEF ToldInv
<1>2. ASSUME Watched PROVE Rest
  <2>1. Rest BY <1>2, <1>a, ToldIfQuiet DEF Watched, ToldInv
  <2>2. QED BY <2>1
<1>3. ASSUME ToolAsks PROVE Rest
  <2>1. AskInv'
    BY <1>3, <1>a DEF ToolAsks
  <2>2. HandlerInv' /\ ServerInv' /\ (revived => revived')
    BY <1>3 DEF ToolAsks
  <2>3. ToldInv'
    <3>1. CASE status \in Terminal
      BY <1>3, <3>1 DEF ToolAsks, ToldInv, Terminal
    <3>2. CASE status \notin Terminal
      BY <1>3, <3>2, <2>2, ToldIfQuiet DEF ToolAsks, ToldInv
    <3>3. QED BY <3>1, <3>2
  <2>4. QED BY <2>1, <2>2, <2>3
<1>4. ASSUME ToolReturns PROVE Rest
  <2>1. AskInv' /\ HandlerInv' /\ revived' = revived /\ UNCHANGED <<wire, cached, result>>
    BY <1>4, <1>a DEF ToolReturns
  <2>2. ServerInv'
    BY <1>4 DEF ToolReturns
  <2>3. status \in Terminal => status' = status
    BY <1>4 DEF ToolReturns, Terminal
  <2>4. QED BY <2>1, <2>2, <2>3, ToldIfQuiet DEF ToldInv
<1>5. ASSUME NextInput PROVE Rest
  <2>1. HandlerInv' /\ ServerInv' /\ UNCHANGED <<status, revived, wire, cached, result>>
    BY <1>5 DEF NextInput, TaskTypeOK
  <2>2. AskInv'
    <3>1. PICK k : \/ Offered(KindOf(k)) /\ Handle(KindOf(k))
                   \/ UNCHANGED askVars
      BY <1>5 DEF NextInput
    <3>2. Offered(KindOf(k)) => KindOf(k) \in Kinds
      BY DEF Offered, Kinds
    <3>3. setup' = setup
      BY <1>5 DEF NextInput
    <3>4. QED BY <1>a, <3>1, <3>2, <3>3, HandleKeepsAskInv
  <2>3. QED BY <2>1, <2>2, ToldIfQuiet DEF ToldInv
<1>6. ASSUME HandlerSettles PROVE Rest
  <2>1. HandlerInv' /\ ServerInv' /\ UNCHANGED <<status, revived, wire, cached, result>>
    BY <1>6 DEF HandlerSettles
  <2>2. AskInv'
    BY <1>6 DEF HandlerSettles, AskInv, AskTypeOK, AskedFor, NothingUnapproved, Authored
  <2>3. QED BY <2>1, <2>2, ToldIfQuiet DEF ToldInv
<1>7. ASSUME InputsDone PROVE Rest
  <2>1. Rest BY <1>7, <1>a, ToldIfQuiet DEF InputsDone, ToldInv
  <2>2. QED BY <2>1
<1>8. ASSUME Updated PROVE Rest
  <2>1. Rest BY <1>8, <1>a, ToldIfQuiet DEF Updated, Resolved, ToldInv, Terminal
  <2>2. QED BY <2>1
<1>9. ASSUME Beats PROVE Rest
  <2>1. Rest BY <1>9, <1>a, ToldIfQuiet DEF Beats, ToldInv
  <2>2. QED BY <2>1
<1>10. ASSUME NEW to \in Recipients, Arrives(to) PROVE Rest
  <2>1. AskInv' /\ revived' = revived
    BY <1>10, <1>a DEF Arrives
  <2>2. ServerInv' /\ HandlerInv'
    BY <1>10 DEF Arrives, LoopReads
  <2>3. QED BY <1>10, <2>1, <2>2, ToldIfArrives DEF ToldInv
<1>11. ASSUME NEW r \in {"loop", "reader"}, GetAnswered(r) PROVE Rest
  BY <1>11, <1>a, ToldIfSent DEF GetAnswered, ToldInv, Recipients
<1>12. ASSUME Pushes PROVE Rest
  <2>1. Rest BY <1>12, <1>a, ToldIfSent DEF Pushes, ToldInv, Recipients
  <2>2. QED BY <2>1
<1>13. ASSUME UpdateFails PROVE Rest
  <2>1. Rest BY <1>13, <1>a, ToldIfQuiet DEF UpdateFails, Resolved, ToldInv, Terminal
  <2>2. QED BY <2>1
<1>14. ASSUME PollFails PROVE Rest
  <2>1. AskInv' /\ HandlerInv' /\ ServerInv' /\ revived' = revived
    BY <1>14, <1>a DEF PollFails
  <2>2. ASSUME Told PROVE Told'
    BY <1>14, <2>2 DEF PollFails, Told, Ended, Terminal
  <2>3. QED BY <2>1, <2>2 DEF ToldInv
<1>15. ASSUME BrokerSteps(AskNext) PROVE Rest
  <2>1. AskInv'
    BY <1>0, <1>15, AskInvStep DEF BrokerSteps
  <2>2. HandlerInv' /\ ServerInv' /\ UNCHANGED <<status, revived, wire, cached, result>>
    BY <1>15 DEF BrokerSteps
  <2>3. QED BY <2>1, <2>2, ToldIfQuiet DEF ToldInv
<1>16. ASSUME Cancel PROVE Rest
  <2>1. Rest BY <1>16, <1>a, ToldIfQuiet DEF Cancel, Reads, ToldInv, Terminal
  <2>2. QED BY <2>1
<1>17. ASSUME NEW how \in {"once", "until"}, GetTask(how) PROVE Rest
  BY <1>17, <1>a, ToldIfQuiet DEF GetTask, Reads, ToldInv
<1>18. ASSUME ReadsAgain PROVE Rest
  <2>1. Rest BY <1>18, <1>a, ToldIfQuiet DEF ReadsAgain, ToldInv
  <2>2. QED BY <2>1
<1>19. ASSUME UNCHANGED taskVars PROVE Rest
  <2>1. Rest BY <1>19, <1>a, ToldIfQuiet DEF taskVars, ToldInv
  <2>2. QED BY <2>1
<1>20. QED
  BY <1>t, <1>1, <1>2, <1>3, <1>4, <1>5, <1>6, <1>7, <1>8, <1>9, <1>10, <1>11, <1>12, <1>13, <1>14,
     <1>15, <1>16, <1>17, <1>18, <1>19 DEF TaskNext, ToolActs, LoopActs, Serves

LEMMA TaskInvariant == TaskSpec => []TaskInv
<1>1. TaskInit => TaskInv
  <2> SUFFICES ASSUME TaskInit PROVE TaskInv
    OBVIOUS
  <2>1. \A to \in Recipients : wire[to] = <<>> /\ DOMAIN wire[to] = {}
    BY DEF TaskInit
  <2>w. wire \in [Recipients -> Seq(Snapshots)]
    <3>1. <<>> \in Seq(Snapshots)
      OBVIOUS
    <3>2. QED BY <3>1 DEF TaskInit
  <2>2. NoTask \in Snapshots
    BY DEF NoTask, Snapshots, Statuses
  <2>3. AskInv
    BY DEF TaskInit, AskInit, AskInv, AskTypeOK, AskedFor, NothingUnapproved, Kinds, Verdicts
  <2>t. 0 \in 0 .. MaxKey
    BY TaskAssumption DEF TaskAssumption
  <2>4. TaskTypeOK
    BY <2>w, <2>2, <2>3, <2>t DEF TaskInit, TaskTypeOK, AskInv, Statuses
  <2>5. ServerInv /\ HandlerInv
    BY <2>1 DEF TaskInit, ServerInv, HandlerInv
  <2>6. Told
    BY <2>1 DEF TaskInit, Told, Terminal
  <2>7. QED BY <2>3, <2>4, <2>5, <2>6 DEF TaskInv, ToldInv
<1>2. QED BY <1>1, TaskInvStep, PTL DEF TaskSpec

\* Types, of the task and of the request at its broker.
THEOREM TaskTypeCorrect == TaskSpec => []TaskTypeOK
<1>1. TaskInv => TaskTypeOK
  BY DEF TaskInv
<1>2. QED BY <1>1, TaskInvariant, PTL

\* The result of a handle, and an end the cache shows, is how the task has ended, in whatever
\* order polls, pushes and reads are answered and whatever is lost or cancelled, for any tool
\* and any broker (client.ts:761, 841-927; connection.ts:433).
THEOREM ResultsAreTheTasks == TaskSpec => []ResultIsTheTasks
<1>1. TaskInv => ResultIsTheTasks
  BY DEF TaskInv, ToldInv, Told, ResultIsTheTasks
<1>2. QED BY <1>1, TaskInvariant, PTL

\* An input of a task is answered with what the policy, a person or a reviewed model gave.
THEOREM NothingPassesUnapproved == TaskSpec => []NothingUnapproved
<1>1. TaskInv => NothingUnapproved
  BY DEF TaskInv, AskInv
<1>2. QED BY <1>1, TaskInvariant, PTL

-----------------------------------------------------------------------------
(* Nothing the handle waits for is forgotten: what its settling rests on.  *)

\* Whether an answer is owed to `who`, by the server or on its way, once, or none is.
Free(who) == who \notin inbox /\ wire[who] = <<>>
Awaited(who) ==
  \/ who \in inbox /\ wire[who] = <<>>
  \/ who \notin inbox /\ Len(wire[who]) = 1

\* Whoever is suspended at a request (the call, the handle's loop, a reader) is owed exactly
\* one answer, by the server or on its way, and nobody else is owed one: no answer ever
\* finds the loop at another of its awaits.
NothingOwedTwice ==
  /\ IF loop = "started" THEN Awaited("call") ELSE Free("call")
  /\ IF loop = "get" THEN Awaited("loop") ELSE Free("loop")
  /\ IF reader \in {"once", "until"} THEN Awaited("reader") ELSE Free("reader")

\* The loop is suspended at a handler exactly as long as the broker is busy with its input or
\* has an outcome for it, and a handle without a result has a loop that is not over.
HandlerAnswers ==
  /\ loop = "handler" <=> at # "idle" \/ outcome # "none"
  /\ loop = "done" <=> result # "pending"

Same(who) == (Free(who) => Free(who)') /\ (Awaited(who) => Awaited(who)')

LEMMA SameIfQuiet ==
  ASSUME UNCHANGED <<wire, inbox>>, NEW who
  PROVE  Same(who)
BY DEF Same, Free, Awaited

\* A request is sent.
LEMMA AwaitedIfAsked ==
  ASSUME NEW r, inbox' = inbox \cup {r}, wire' = wire
  PROVE  (Free(r) => Awaited(r)') /\ \A who : who # r => Same(who)
BY DEF Same, Free, Awaited

\* A poll fails.
LEMMA FreeIfLost ==
  ASSUME NEW r \in inbox, inbox' = inbox \ {r}, wire' = wire
  PROVE  (Awaited(r) => Free(r)') /\ \A who : who # r => Same(who)
BY DEF Same, Free, Awaited

\* An answer, or a push, is on its way.
LEMMA SameIfSent ==
  ASSUME TaskTypeOK, NEW to \in Recipients, Sends(to),
         NEW who \in Recipients, who # to, who \in inbox <=> who \in inbox'
  PROVE  Same(who)
BY SendsTyped DEF Same, Free, Awaited

LEMMA AwaitedIfSent ==
  ASSUME TaskTypeOK, NEW to \in Recipients, Sends(to), wire[to] = <<>>, to \notin inbox'
  PROVE  Awaited(to)'
<1>1. Len(wire[to]) = 0
  OBVIOUS
<1>2. Len(wire'[to]) = Len(wire[to]) + 1
  BY SendsTyped
<1>3. Len(wire'[to]) = 1
  BY <1>1, <1>2
<1>4. QED BY <1>3 DEF Awaited

\* A snapshot arrives.
LEMMA ArrivesTo ==
  ASSUME TaskTypeOK, NEW to \in Recipients, Arrives(to)
  PROVE  /\ ~Free(to) /\ (Awaited(to) => Free(to)')
         /\ \A who \in Recipients : who # to => Same(who)
<1>1. wire[to] # <<>> /\ wire' = [wire EXCEPT ![to] = Tail(@)] /\ inbox' = inbox
  BY DEF Arrives
<1>2. ASSUME Awaited(to) PROVE Free(to)'
  <2>1. to \notin inbox /\ Len(wire[to]) = 1
    BY <1>1, <1>2 DEF Awaited
  <2>2. wire'[to] \in Seq(Snapshots) /\ Len(wire'[to]) = Len(wire[to]) - 1
    BY <1>1, HeadTyped
  <2>3. wire'[to] = <<>>
    BY <2>1, <2>2
  <2>4. QED BY <1>1, <2>1, <2>3 DEF Free
<1>3. QED BY <1>1, <1>2, HeadTyped DEF Same, Free, Awaited

OwedInv == NothingOwedTwice /\ HandlerAnswers

LEMMA OwedStep ==
  ASSUME TaskInv, OwedInv, [TaskNext]_taskVars
  PROVE  OwedInv'
<1> DEFINE Same3 == Same("call") /\ Same("loop") /\ Same("reader")
<1>t. /\ TaskTypeOK /\ inbox \subseteq {"loop", "reader"}
      /\ loop \in {"call", "started", "off", "get", "inputs", "handler", "update", "beat", "done"}
      /\ reader \in {"idle", "once", "until", "rest"}
      /\ result \in {"pending", "lost"} \cup Terminal
      /\ at # "idle" => outcome = "none"
  BY DEF TaskInv, TaskTypeOK, ToldInv, AskInv, AskedFor
<1>i. NothingOwedTwice /\ HandlerAnswers
  BY DEF OwedInv
<1>q. UNCHANGED <<wire, inbox>> => Same3
  BY SameIfQuiet
<1>1. CASE TaskStarts
  <2>1. CASE running' = TRUE /\ Sends("call") /\ loop' = "started" /\ UNCHANGED <<status, result, cached>>
    <3>1. loop = "call" /\ UNCHANGED <<askVars, inbox, reader>>
      BY <1>1 DEF TaskStarts
    <3>2. Same("loop") /\ Same("reader")
      BY <1>t, <2>1, <3>1, SameIfSent DEF Recipients
    <3>3. Awaited("call")'
      BY <1>t, <1>i, <2>1, <3>1, AwaitedIfSent DEF NothingOwedTwice, Free, Recipients
    <3>4. QED
      BY <1>i, <2>1, <3>1, <3>2, <3>3 DEF OwedInv, NothingOwedTwice, HandlerAnswers, Same, askVars
  <2>2. CASE /\ status' = "completed" /\ result' = "completed" /\ cached' = "completed" /\ loop' = "done"
             /\ UNCHANGED <<running, wire>>
    <3>1. loop = "call" /\ UNCHANGED <<askVars, inbox, reader>>
      BY <1>1 DEF TaskStarts
    <3>2. QED
      BY <1>i, <1>q, <2>2, <3>1 DEF OwedInv, NothingOwedTwice, HandlerAnswers, Same, askVars
  <2>3. QED BY <1>1, <2>1, <2>2 DEF TaskStarts
<1>2. CASE Watched \/ Beats
  <2>1. loop \in {"off", "beat"} /\ loop' = "get" /\ inbox' = inbox \cup {"loop"}
        /\ UNCHANGED <<askVars, wire, reader, result>>
    BY <1>2 DEF Watched, Beats
  <2>2. Awaited("loop")' /\ Same("call") /\ Same("reader")
    BY <1>i, <2>1, AwaitedIfAsked DEF NothingOwedTwice
  <2>3. QED
    BY <1>i, <2>1, <2>2 DEF OwedInv, NothingOwedTwice, HandlerAnswers, Same, askVars
<1>3. CASE ToolAsks \/ ToolReturns
  <2>1. UNCHANGED <<askVars, inbox, wire, loop, result, reader>>
    BY <1>3 DEF ToolAsks, ToolReturns, handle
  <2>2. QED
    BY <1>i, <1>q, <2>1 DEF OwedInv, NothingOwedTwice, HandlerAnswers, Same, askVars
<1>4. CASE NextInput
  <2>1. loop = "inputs" /\ UNCHANGED <<inbox, wire, result, reader>>
    BY <1>4 DEF NextInput
  <2>2. \/ loop' = "handler" /\ at' = "policy"
        \/ UNCHANGED <<loop, askVars>>
    BY <1>4 DEF NextInput, Handle
  <2>3. QED
    BY <1>i, <1>q, <2>1, <2>2 DEF OwedInv, NothingOwedTwice, HandlerAnswers, Same, askVars
<1>5. CASE HandlerSettles
  <2>1. /\ loop = "handler" /\ loop' = "inputs" /\ outcome # "none" /\ outcome' = "none"
        /\ UNCHANGED <<at, inbox, wire, result, reader>>
    BY <1>5 DEF HandlerSettles
  <2>2. QED
    BY <1>i, <1>t, <1>q, <2>1 DEF OwedInv, NothingOwedTwice, HandlerAnswers, Same
<1>6. CASE InputsDone \/ Updated \/ UpdateFails
  <2>1. /\ loop \in {"inputs", "update"} /\ loop' \in {"beat", "update"}
        /\ UNCHANGED <<askVars, inbox, wire, result, reader>>
    BY <1>6 DEF InputsDone, Updated, UpdateFails
  <2>2. QED
    BY <1>i, <1>q, <2>1 DEF OwedInv, NothingOwedTwice, HandlerAnswers, Same, askVars
<1>7. ASSUME NEW to \in Recipients, Arrives(to) PROVE OwedInv'
  <2>1. UNCHANGED <<askVars, inbox>>
    BY <1>7 DEF Arrives
  <2>2. /\ ~Free(to) /\ (Awaited(to) => Free(to)')
        /\ \A who \in {"call", "loop", "reader"} : who # to => Same(who)
    BY <1>t, <1>7, ArrivesTo DEF Recipients
  <2>3. CASE to = "call" /\ loop' = "off" /\ UNCHANGED <<result, reader>>
    BY <1>i, <2>1, <2>2, <2>3 DEF OwedInv, NothingOwedTwice, HandlerAnswers, Same, askVars
  <2>4. CASE to = "loop" /\ LoopReads(Head(wire[to])) /\ UNCHANGED reader
    <3>1. loop = "get"
      BY <1>i, <2>2, <2>4 DEF NothingOwedTwice
    <3>2. \/ loop' = "done" /\ result' \in Terminal
          \/ loop' \in {"inputs", "beat"} /\ UNCHANGED result
      BY <2>4 DEF LoopReads
    <3>3. QED
      BY <1>i, <2>1, <2>2, <2>4, <3>1, <3>2 DEF OwedInv, NothingOwedTwice, HandlerAnswers, Same, askVars, Terminal
  <2>5. CASE to = "reader" /\ reader' \in {"rest", "idle"} /\ UNCHANGED handle
    BY <1>i, <2>1, <2>2, <2>5 DEF OwedInv, NothingOwedTwice, HandlerAnswers, Same, askVars, handle
  <2>6. CASE to = "push" /\ UNCHANGED <<handle, reader>>
    BY <1>i, <2>1, <2>2, <2>6 DEF OwedInv, NothingOwedTwice, HandlerAnswers, Same, askVars, handle
  <2>7. QED BY <1>7, <2>3, <2>4, <2>5, <2>6 DEF Arrives
<1>8. ASSUME NEW r \in {"loop", "reader"}, GetAnswered(r) PROVE OwedInv'
  <2>1. r \in inbox /\ inbox' = inbox \ {r} /\ Sends(r) /\ UNCHANGED <<askVars, handle, reader>>
    BY <1>8 DEF GetAnswered
  <2>2. \A who \in {"call", "loop", "reader"} : who # r => Same(who)
    BY <1>t, <2>1, SameIfSent DEF Recipients
  <2>3. Awaited(r) => Awaited(r)'
    BY <1>t, <2>1, AwaitedIfSent DEF Awaited, Recipients
  <2>4. ~Free(r)
    BY <2>1 DEF Free
  <2>5. QED
    BY <1>i, <2>1, <2>2, <2>3, <2>4 DEF OwedInv, NothingOwedTwice, HandlerAnswers, Same, askVars, handle
<1>9. CASE Pushes
  <2>1. Sends("push") /\ UNCHANGED <<askVars, inbox, handle, reader>>
    BY <1>9 DEF Pushes
  <2>2. Same3
    BY <1>t, <2>1, SameIfSent DEF Recipients
  <2>3. QED
    BY <1>i, <2>1, <2>2 DEF OwedInv, NothingOwedTwice, HandlerAnswers, Same, askVars, handle
<1>10. CASE PollFails
  <2>1. /\ "loop" \in inbox /\ inbox' = inbox \ {"loop"} /\ loop' = "done" /\ result' = "lost"
        /\ UNCHANGED <<askVars, wire, reader>>
    BY <1>10 DEF PollFails
  <2>2. loop = "get"
    BY <1>i, <2>1 DEF NothingOwedTwice, Free
  <2>3. Free("loop")' /\ Same("call") /\ Same("reader")
    BY <1>i, <2>1, <2>2, FreeIfLost DEF NothingOwedTwice
  <2>4. QED
    BY <1>i, <2>1, <2>2, <2>3 DEF OwedInv, NothingOwedTwice, HandlerAnswers, Same, askVars
<1>11. CASE BrokerSteps(AskNext)
  <2>1. UNCHANGED <<inbox, wire, handle, reader>> /\ AskNext
    BY <1>11 DEF BrokerSteps
  <2>2. at # "idle" /\ (at' # "idle" \/ outcome' # "none")
    BY <1>t, <2>1 DEF AskNext, PeopleAct, BrokerActs, Decided, Approved, Denied, ModelAnswers, ModelFails,
      Reviewed, Ends, Refuses
  <2>3. QED
    BY <1>i, <1>q, <2>1, <2>2 DEF OwedInv, NothingOwedTwice, HandlerAnswers, Same, handle
<1>12. ASSUME NEW how \in {"once", "until"}, Reads(how) \/ ReadsAgain PROVE OwedInv'
  <2>1. /\ reader \in {"idle", "rest"} /\ reader' \in {"once", "until"} /\ inbox' = inbox \cup {"reader"}
        /\ UNCHANGED <<askVars, wire, handle>>
    BY <1>12 DEF Reads, ReadsAgain
  <2>2. Awaited("reader")' /\ Same("call") /\ Same("loop")
    BY <1>i, <2>1, AwaitedIfAsked DEF NothingOwedTwice
  <2>3. QED
    BY <1>i, <2>1, <2>2 DEF OwedInv, NothingOwedTwice, HandlerAnswers, Same, askVars, handle
<1>13. CASE UNCHANGED taskVars
  BY <1>i, <1>q, <1>13 DEF OwedInv, NothingOwedTwice, HandlerAnswers, Same, taskVars, askVars, handle
<1>14. QED
  BY <1>1, <1>2, <1>3, <1>4, <1>5, <1>6, <1>7, <1>8, <1>9, <1>10, <1>11, <1>12, <1>13
    DEF TaskNext, ToolActs, LoopActs, Serves, Cancel, GetTask

LEMMA OwedInvariant == TaskSpec => []OwedInv
<1>1. TaskInit => OwedInv
  <2> SUFFICES ASSUME TaskInit PROVE OwedInv
    OBVIOUS
  <2>1. inbox = {} /\ \A who \in Recipients : wire[who] = <<>>
    BY DEF TaskInit
  <2>2. \A who \in {"call", "loop", "reader"} : Free(who)
    BY <2>1 DEF Free, Recipients
  <2>3. QED
    BY <2>2 DEF TaskInit, AskInit, OwedInv, NothingOwedTwice, HandlerAnswers
<1>2. QED BY <1>1, OwedStep, TaskInvariant, PTL DEF TaskSpec

\* However polls, pushes, reads, cancellations and lost requests interleave, whoever is
\* suspended at a request of the task is owed one answer, and only one: the loop is never
\* left at its await, and no late answer restarts one that has gone on (client.ts:846-927).
THEOREM EveryPollIsAnswered == TaskSpec => []NothingOwedTwice
<1>1. OwedInv => NothingOwedTwice
  BY DEF OwedInv
<1>2. QED BY <1>1, OwedInvariant, PTL

\* The loop never waits for a handler that has nothing to answer, a handler is never called
\* while it is busy, and the handle has its result exactly when its loop is over.
THEOREM HandlersAnswerTheLoop == TaskSpec => []HandlerAnswers
<1>1. OwedInv => HandlerAnswers
  BY DEF OwedInv
<1>2. QED BY <1>1, OwedInvariant, PTL

\* A result is settled once: neither a push nor a later poll or cancellation changes it.
THEOREM ResultSettlesOnce == TaskSpec => [][result # "pending" => UNCHANGED <<result, loop>>]_taskVars
<1>1. ASSUME TaskInv, OwedInv, [TaskNext]_taskVars, result # "pending"
      PROVE  UNCHANGED <<result, loop>>
  <2>1. loop = "done" /\ Free("loop") /\ Free("call")
    BY <1>1 DEF OwedInv, NothingOwedTwice, HandlerAnswers
  <2>2. ASSUME NEW to \in Recipients, Arrives(to) PROVE UNCHANGED <<result, loop>>
    <3>1. ~Free(to)
      BY <1>1, <2>2, ArrivesTo DEF TaskInv
    <3>2. QED BY <2>1, <2>2, <3>1 DEF Arrives, handle
  <2>3. ~PollFails
    BY <2>1 DEF PollFails, Free
  <2>4. QED
    BY <1>1, <2>1, <2>2, <2>3 DEF TaskNext, ToolActs, LoopActs, Serves, TaskStarts, Watched, ToolAsks,
      ToolReturns, NextInput, HandlerSettles, InputsDone, Updated, Beats, GetAnswered, Pushes, UpdateFails,
      BrokerSteps, Cancel, GetTask, Reads, ReadsAgain, handle, taskVars
<1>2. QED BY <1>1, TaskInvariant, OwedInvariant, PTL DEF TaskSpec

\* The broker, used by one caller: what it is asked for comes one at a time, of a kind it has a
\* handler for, and an outcome is taken before the next request is put.
Asked == at = "idle" /\ outcome = "none" /\ \E k \in {"elicitation", "sampling"} : Offered(k) /\ Handle(k)
OutcomeTaken == at = "idle" /\ outcome # "none" /\ outcome' = "none" /\ UNCHANGED <<at, kind, verdict, said>>
BrokerSpec == AskInit /\ [][(Asked \/ OutcomeTaken \/ AskNext) /\ UNCHANGED setup]_<<setup, askVars>>

\* A task implements it: whatever polls, pushes, readers and a cancellation do beside, inputs
\* are put to the broker in turn, and no outcome is lost to the next input or taken twice
\* (answerInputs(), client.ts:857-896, over interactions.ts).
THEOREM InputsAskedInTurn == TaskSpec => BrokerSpec
<1>1. ASSUME TaskInv, OwedInv, [TaskNext]_taskVars
      PROVE  [(Asked \/ OutcomeTaken \/ AskNext) /\ UNCHANGED setup]_<<setup, askVars>>
  <2>0. HandlerAnswers /\ (at # "idle" => outcome = "none")
    BY <1>1 DEF OwedInv, TaskInv, AskInv, AskedFor
  <2>1. CASE NextInput
    <3>1. loop = "inputs" /\ setup' = setup
      BY <2>1 DEF NextInput
    <3>2. PICK k \in todo : (Offered(KindOf(k)) /\ Handle(KindOf(k))) \/ UNCHANGED askVars
      BY <2>1 DEF NextInput
    <3>3. PICK what : what = KindOf(k)
      OBVIOUS
    <3>4. CASE Offered(what) /\ Handle(what)
      <4>1. what \in {"elicitation", "sampling"}
        BY <3>4 DEF Offered
      <4>2. QED BY <2>0, <3>1, <3>4, <4>1 DEF Asked, HandlerAnswers
    <3>5. QED BY <3>1, <3>2, <3>3, <3>4
  <2>2. CASE HandlerSettles
    BY <2>0, <2>2 DEF HandlerSettles, OutcomeTaken
  <2>3. CASE BrokerSteps(AskNext)
    BY <2>3 DEF BrokerSteps
  <2>4. QED
    BY <1>1, <2>1, <2>2, <2>3 DEF TaskNext, ToolActs, LoopActs, Serves, TaskStarts, Watched, ToolAsks,
      ToolReturns, InputsDone, Updated, Beats, Arrives, PollFails, GetAnswered, Pushes, UpdateFails,
      Cancel, GetTask, Reads, ReadsAgain, taskVars
<1>2. TaskInit => AskInit
  BY DEF TaskInit
<1>3. QED BY <1>1, <1>2, TaskInvariant, OwedInvariant, PTL DEF TaskSpec, BrokerSpec

-----------------------------------------------------------------------------
(* The approval queue                                                      *)

RuleLists == UNION {[1 .. n -> Rules] : n \in 0 .. MaxRules}

LEMMA RuleListsAreShort ==
  ASSUME NEW s
  PROVE  s \in RuleLists <=> s \in Seq(Rules) /\ Len(s) <= MaxRules
<1>1. MaxRules \in Nat
  BY ApprovalsAssumption DEF ApprovalsAssumption
<1>2. ASSUME s \in RuleLists PROVE s \in Seq(Rules) /\ Len(s) <= MaxRules
  <2>1. PICK n \in 0 .. MaxRules : s \in [1 .. n -> Rules]
    BY <1>2 DEF RuleLists
  <2>2. n \in Nat /\ n <= MaxRules
    BY <1>1
  <2>3. s \in Seq(Rules)
    BY <2>1, <2>2, SeqDef
  <2>4. Len(s) = n
    BY <2>1, <2>2, <2>3, LenProperties
  <2>5. QED BY <2>2, <2>3, <2>4
<1>3. ASSUME s \in Seq(Rules), Len(s) <= MaxRules PROVE s \in RuleLists
  <2>1. s \in [1 .. Len(s) -> Rules] /\ Len(s) \in 0 .. MaxRules
    BY <1>1, <1>3, LenProperties
  <2>2. QED BY <2>1 DEF RuleLists
<1>4. QED BY <1>2, <1>3

LEMMA PolicyParts ==
  ASSUME NEW r, NEW f
  PROVE  [rules |-> r, fallback |-> f] \in Policies <=> r \in RuleLists /\ f \in Verdicts
BY DEF Policies, RuleLists

LEMMA DefaultIsPolicy == DefaultPolicy \in Policies
<1>1. <<>> \in Seq(Rules) /\ Len(<<>>) = 0 /\ 0 <= MaxRules
  BY ApprovalsAssumption DEF ApprovalsAssumption
<1>2. QED
  BY <1>1, RuleListsAreShort, PolicyParts DEF DefaultPolicy, Verdicts

LEMMA LoadIsPolicy ==
  ASSUME NEW p \in Policies \cup {NotStored}
  PROVE  Load(p) \in Policies /\ (p \in Policies => Load(p) = p)
<1>1. NotStored \notin Policies
  BY DEF NotStored, Policies, Verdicts
<1>2. QED BY <1>1, DefaultIsPolicy DEF Load

\* A piece of a sequence.
LEMMA CutOut ==
  ASSUME NEW S, NEW s \in Seq(S), NEW m \in Int, NEW n \in Int, 1 <= m, n <= Len(s), m <= n + 1
  PROVE  SubSeq(s, m, n) \in Seq(S) /\ Len(SubSeq(s, m, n)) = n - m + 1
<1>1. \A i \in m .. n : s[i] \in S
  <2>1. ASSUME NEW i \in m .. n PROVE s[i] \in S
    <3>1. i \in 1 .. Len(s)
      OBVIOUS
    <3>2. QED BY <3>1, ElementOfSeq
  <2>2. QED BY <2>1
<1>2. /\ SubSeq(s, m, n) \in Seq(S)
      /\ Len(SubSeq(s, m, n)) = IF m <= n THEN n - m + 1 ELSE 0
  BY <1>1, SubSeqProperties
<1>3. QED BY <1>2

\* What an edit makes of the draft is a policy.
LEMMA EditsArePolicies ==
  ASSUME draft \in Policies,
         AddRule \/ SetFallback \/ \E i \in DOMAIN draft.rules : ChangeRow(i) \/ RemoveRule(i)
  PROVE  draft' \in Policies
<1>1. /\ draft = [rules |-> draft.rules, fallback |-> draft.fallback]
      /\ draft.rules \in RuleLists /\ draft.fallback \in Verdicts
  BY DEF Policies, RuleLists
<1>2. /\ draft.rules \in Seq(Rules) /\ Len(draft.rules) <= MaxRules /\ MaxRules \in Nat
      /\ DOMAIN draft.rules = 1 .. Len(draft.rules) /\ Len(draft.rules) \in Nat
  BY <1>1, RuleListsAreShort, LenProperties, ApprovalsAssumption DEF ApprovalsAssumption
<1>3. ASSUME NEW r \in Seq(Rules), Len(r) <= MaxRules, draft' = [draft EXCEPT !.rules = r]
      PROVE  draft' \in Policies
  <2>1. r \in RuleLists
    BY <1>3, RuleListsAreShort
  <2>2. draft' = [rules |-> r, fallback |-> draft.fallback]
    BY <1>1, <1>3
  <2>3. QED BY <1>1, <2>1, <2>2, PolicyParts
<1>4. CASE AddRule
  <2>1. NewRule \in Rules
    BY DEF NewRule, Rules, RuleTypes, RuleServers, Verdicts
  <2>2. Append(draft.rules, NewRule) \in Seq(Rules) /\ Len(Append(draft.rules, NewRule)) <= MaxRules
    BY <1>2, <1>4, <2>1, AppendProperties DEF AddRule
  <2>3. draft' = [draft EXCEPT !.rules = Append(draft.rules, NewRule)]
    BY <1>4 DEF AddRule, Edits, Update
  <2>4. QED BY <1>3, <2>2, <2>3
<1>5. CASE SetFallback
  <2>1. PICK v \in Verdicts : draft' = [draft EXCEPT !.fallback = v]
    BY <1>5 DEF SetFallback, Edits, Update
  <2>2. draft' = [rules |-> draft.rules, fallback |-> v]
    BY <1>1, <2>1
  <2>3. QED BY <1>1, <2>1, <2>2, PolicyParts
<1>6. ASSUME NEW i \in DOMAIN draft.rules, ChangeRow(i) PROVE draft' \in Policies
  <2>1. draft.rules[i] \in Rules
    BY <1>2, ElementOfSeq
  <2>2. PICK rule \in Rules : draft' = [draft EXCEPT !.rules[i] = rule]
    BY <1>6, <2>1 DEF ChangeRow, ChangeRule, Edits, Update, Rules
  <2>3. draft' = [draft EXCEPT !.rules = [draft.rules EXCEPT ![i] = rule]]
    BY <1>1, <2>2
  <2>4. /\ [draft.rules EXCEPT ![i] = rule] \in Seq(Rules)
        /\ Len([draft.rules EXCEPT ![i] = rule]) = Len(draft.rules)
    BY <1>2, <2>2, ExceptSeq
  <2>5. QED BY <1>2, <1>3, <2>3, <2>4
<1>7. ASSUME NEW i \in DOMAIN draft.rules, RemoveRule(i) PROVE draft' \in Policies
  <2> DEFINE front == SubSeq(draft.rules, 1, i - 1)
             back == SubSeq(draft.rules, i + 1, Len(draft.rules))
  <2>1. i \in 1 .. Len(draft.rules) /\ i \in Int
    BY <1>2
  <2>2. front \in Seq(Rules) /\ Len(front) = i - 1
    BY <1>2, <2>1, CutOut
  <2>3. back \in Seq(Rules) /\ Len(back) = Len(draft.rules) - i
    BY <1>2, <2>1, CutOut
  <2>4. front \o back \in Seq(Rules) /\ Len(front \o back) <= MaxRules
    <3> HIDE DEF front, back
    <3>1. QED BY <1>2, <2>1, <2>2, <2>3, ConcatProperties
  <2>5. draft' = [draft EXCEPT !.rules = front \o back]
    BY <1>7 DEF RemoveRule, Edits, Update
  <2>6. QED BY <1>3, <2>4, <2>5
<1>8. QED BY <1>4, <1>5, <1>6, <1>7

\* The screens, the policy in force and the one that is stored are one; a request without
\* a person's word is still at the policy, and is of a type the preview has; and a settled
\* request has its entry.
PolicyInv ==
  /\ policy = inForce
  /\ applied => draft = inForce
  /\ ~unsaved => Load(kept) = inForce

WordInv ==
  /\ provoked # "confirm" /\ kind # "roots"
  /\ asks = 0 => at = "idle" /\ outcome = "none" /\ provoked = "none"
  /\ at = "policy" => said = {}

ApprovalsInv ==
  TheApp /\ AskInv /\ ApprovalsTypeOK /\ PolicyInv /\ WordInv /\ TrailSaysWho

LEMMA OpensFacts ==
  ASSUME ApprovalsTypeOK, PolicyInv, NEW screen \in {"queue", "audit", "policy"}, Opens(screen),
         UNCHANGED <<policy, inForce, kept, unsaved>>
  PROVE  /\ draft' \in Policies /\ applied' \in BOOLEAN /\ tab' \in {"queue", "audit", "policy"}
         /\ authored' \in BOOLEAN /\ PolicyInv'
BY DEF Opens, PolicyInv, ApprovalsTypeOK

\* What the broker's part of a step leaves, with the policy as it is.
LEMMA EditsKeep ==
  ASSUME ApprovalsInv, NEW next, Edits(next), draft' \in Policies, setup' = setup
  PROVE  ApprovalsInv'
<1>1. edits' \in 0 .. MaxEdits
  BY ApprovalsAssumption DEF Edits, ApprovalsInv, ApprovalsTypeOK, ApprovalsAssumption
<1>2. AskInv'
  BY DEF Edits, ApprovalsInv, askVars, AskInv, AskTypeOK, AskedFor, NothingUnapproved, Authored
<1>3. ApprovalsTypeOK'
  BY <1>1 DEF Edits, Update, ApprovalsInv, ApprovalsTypeOK, screenVars
<1>4. PolicyInv'
  BY DEF Edits, Update, ApprovalsInv, PolicyInv
<1>5. TheApp' /\ WordInv' /\ TrailSaysWho'
  BY DEF Edits, ApprovalsInv, TheApp, WordInv, TrailSaysWho, screenVars, askVars
<1>6. QED BY <1>2, <1>3, <1>4, <1>5 DEF ApprovalsInv

\* The entry a settling step adds says how it settled.
LEMMA RecordedKeeps ==
  ASSUME ApprovalsInv, Recorded, setup' = setup, asks' = asks,
         \/ Decided
         \/ Approved
         \/ Denied
  PROVE  /\ trail' \in Seq({"auto-allow", "auto-deny", "approved", "denied"})
         /\ TrailSaysWho' /\ AskInv' /\ (at' = "policy" => said' = {})
<1>0. setup.verdicts = Verdicts /\ trail \in Seq({"auto-allow", "auto-deny", "approved", "denied"})
  BY DEF ApprovalsInv, TheApp, ApprovalsTypeOK
<1>1. AskInv'
  BY <1>0, AskInvStep DEF ApprovalsInv, AskNext, PeopleAct, BrokerActs
<1>2. at' # "policy" \/ at' = at
  BY DEF Decided, Approved, Denied, Ends, Refuses
<1>3. at \in {"policy", "request"} /\ at' # "policy"
  BY DEF Decided, Approved, Denied, Ends, Refuses, ApprovalsInv, AskInv, AskedFor, TheApp, Authored
<1>4. CASE outcome' = "none"
  BY <1>0, <1>1, <1>3, <1>4 DEF Recorded, TrailSaysWho
<1>5. CASE outcome' # "none"
  <2>1. trail' = Append(trail, Entry)
    BY <1>5 DEF Recorded
  <2>2. Entry \in {"auto-allow", "auto-deny", "approved", "denied"}
    BY DEF Entry
  <2>3. /\ trail' \in Seq({"auto-allow", "auto-deny", "approved", "denied"})
        /\ trail' # <<>> /\ trail'[Len(trail')] = Entry
    BY <1>0, <2>1, <2>2, AppendProperties
  <2>4. Entry =
          CASE outcome' = "accept" /\ said' = {} -> "auto-allow"
            [] outcome' = "accept" /\ said' # {} -> "approved"
            [] outcome' # "accept" /\ verdict' = "deny" -> "auto-deny"
            [] OTHER -> "denied"
    <3>1. CASE at = "policy"
      <4>1. Decided /\ said' = {}
        BY <3>1 DEF Decided, Approved, Denied, ApprovalsInv, WordInv
      <4>2. outcome' # "accept" => verdict' = "deny"
        BY <1>5, <4>1 DEF Decided, ApprovalsInv, AskInv, AskedFor, Ends, Refuses
      <4>3. QED BY <3>1, <4>1, <4>2 DEF Entry
    <3>2. CASE at = "request"
      <4>1. verdict' # "deny" /\ (outcome' = "accept" => said' # {})
        BY <3>2 DEF Decided, Approved, Denied, Ends, Refuses, ApprovalsInv, AskInv, AskedFor
      <4>2. QED BY <3>2, <4>1 DEF Entry
    <3>3. QED BY <1>3, <3>1, <3>2
  <2>5. QED BY <1>1, <1>3, <2>3, <2>4 DEF TrailSaysWho
<1>6. QED BY <1>4, <1>5

LEMMA ApprovalsStep ==
  ASSUME ApprovalsInv, [ApprovalsNext /\ UNCHANGED setup]_<<setup, askVars, approvalVars>>
  PROVE  ApprovalsInv'
<1>s. setup' = setup
  OBVIOUS
<1>a. ASSUME UNCHANGED askVars
      PROVE  AskInv' /\ TheApp' /\ (at' = "policy" => said' = {})
  BY <1>s, <1>a DEF ApprovalsInv, AskInv, AskTypeOK, AskedFor, NothingUnapproved, Authored, askVars,
    TheApp, WordInv
<1>h. ASSUME NEW k \in Kinds, Handle(k)
      PROVE  AskInv' /\ TheApp' /\ said' = {} /\ outcome' = "none" /\ kind' = k
  BY <1>s, <1>h, HandleKeepsAskInv DEF ApprovalsInv, TheApp, Handle
<1>1. ASSUME NEW screen \in {"queue", "audit", "policy"}, OpenTab(screen) PROVE ApprovalsInv'
  BY <1>1, <1>a, OpensFacts
  DEF OpenTab, ApprovalsInv, ApprovalsTypeOK, WordInv, TrailSaysWho, askVars
<1>2. CASE AddRule \/ SetFallback \/ \E i \in DOMAIN draft.rules : ChangeRow(i) \/ RemoveRule(i)
  <2>1. draft' \in Policies
    BY <1>2, EditsArePolicies DEF ApprovalsInv, ApprovalsTypeOK
  <2>2. \E next : Edits(next)
    BY <1>2 DEF AddRule, SetFallback, ChangeRow, ChangeRule, RemoveRule
  <2>3. QED BY <1>s, <2>1, <2>2, EditsKeep
<1>3. CASE Apply
  <2>1. Load(draft) = draft
    BY LoadIsPolicy DEF ApprovalsInv, ApprovalsTypeOK
  <2>2. ApprovalsTypeOK' /\ PolicyInv'
    BY <1>3, <2>1 DEF Apply, ApprovalsInv, ApprovalsTypeOK, PolicyInv, screenVars
  <2>3. QED
    BY <1>3, <1>a, <2>2 DEF Apply, ApprovalsInv, WordInv, TrailSaysWho, screenVars, askVars
<1>4. CASE Reload
  <2>1. Load(kept) \in Policies
    BY LoadIsPolicy DEF ApprovalsInv, ApprovalsTypeOK
  <2>2. AskInv' /\ TheApp'
    BY <1>s, <1>4 DEF Reload, ApprovalsInv, AskInv, AskTypeOK, AskedFor, NothingUnapproved, TheApp
  <2>3. {policy', inForce', draft'} \subseteq Policies /\ PolicyInv'
    BY <1>4, <2>1 DEF Reload, PolicyInv
  <2>r. ApprovalsTypeOK'
    <3>1. UNCHANGED <<kept, connected, edits, asks>> /\ trail' = <<>>
      BY <1>4 DEF Reload
    <3>2. applied' \in BOOLEAN /\ unsaved' \in BOOLEAN /\ authored' \in BOOLEAN
          /\ tab' = "queue" /\ provoked' = "none"
      BY <1>4 DEF Reload
    <3>3. <<>> \in Seq({"auto-allow", "auto-deny", "approved", "denied"})
      OBVIOUS
    <3>4. QED BY <2>3, <3>1, <3>2, <3>3 DEF ApprovalsInv, ApprovalsTypeOK
  <2>4. QED BY <1>4, <2>2, <2>3, <2>r DEF Reload, ApprovalsInv, WordInv, TrailSaysWho
<1>5. ASSUME NEW what \in Simulations, Simulate(what) PROVE ApprovalsInv'
  <2>1. asks' \in 0 .. MaxAsks
    BY <1>5, ApprovalsAssumption DEF Simulate, ApprovalsInv, ApprovalsTypeOK, ApprovalsAssumption
  <2>2. PolicyInv' /\ ApprovalsTypeOK'
    BY <1>5, <2>1, OpensFacts DEF Simulate, ApprovalsInv, ApprovalsTypeOK
  <2>3. KindOfAsk(what) \in Kinds /\ KindOfAsk(what) # "roots"
    BY DEF KindOfAsk, Kinds, Simulations
  <2>4. AskInv' /\ TheApp' /\ WordInv'
    <3>1. asks' # 0
      BY <1>5 DEF Simulate, ApprovalsInv, ApprovalsTypeOK
    <3>2. CASE UNCHANGED askVars /\ provoked' = what /\ what # "confirm"
      BY <1>5, <1>a, <3>1, <3>2 DEF ApprovalsInv, WordInv, askVars
    <3>3. CASE Handle(KindOfAsk(what)) /\ UNCHANGED provoked
      BY <1>h, <2>3, <3>1, <3>3 DEF ApprovalsInv, WordInv
    <3>4. QED BY <1>5, <3>2, <3>3 DEF Simulate
  <2>5. TrailSaysWho'
    <3>1. asks = 0 \/ asks > 0
      BY ApprovalsAssumption DEF ApprovalsInv, ApprovalsTypeOK, ApprovalsAssumption
    <3>2. outcome' = "none" \/ (outcome' = outcome /\ asks > 0)
      BY <1>5, <3>1 DEF Simulate, Handle, ApprovalsInv, WordInv, askVars
    <3>3. QED BY <1>5, <3>2 DEF Simulate, Handle, ApprovalsInv, TrailSaysWho, askVars
  <2>6. QED BY <2>2, <2>4, <2>5 DEF ApprovalsInv
<1>6. CASE ServerAsks
  <2>p. UNCHANGED <<policyVars, tab, authored, connected, trail, edits, asks>> /\ provoked' = "none"
    BY <1>6 DEF ServerAsks
  <2>1. ApprovalsTypeOK' /\ PolicyInv'
    BY <2>p DEF policyVars, ApprovalsInv, ApprovalsTypeOK, PolicyInv
  <2>2. provoked \in Kinds /\ provoked # "roots" /\ asks # 0
    BY <1>6 DEF ServerAsks, ApprovalsInv, ApprovalsTypeOK, WordInv, Simulations, Kinds
  <2>3. CASE Handle(provoked)
    BY <1>h, <2>p, <2>1, <2>2, <2>3 DEF ApprovalsInv, WordInv, TrailSaysWho
  <2>4. CASE UNCHANGED askVars
    BY <1>a, <2>p, <2>1, <2>2, <2>4 DEF ApprovalsInv, WordInv, TrailSaysWho, askVars
  <2>5. QED BY <1>6, <2>3, <2>4 DEF ServerAsks
<1>7. CASE ConnectionChanges \/ Author \/ UNCHANGED <<setup, askVars, approvalVars>>
  <2>p. /\ UNCHANGED <<policyVars, tab, provoked, trail, edits, asks>>
        /\ connected' \in {connected, ~connected} /\ authored' \in {authored, TRUE}
    BY <1>7 DEF ConnectionChanges, Author, approvalVars, screenVars
  <2>1. ApprovalsTypeOK' /\ PolicyInv'
    BY <2>p DEF policyVars, ApprovalsInv, ApprovalsTypeOK, PolicyInv
  <2>2. UNCHANGED askVars
    BY <1>7 DEF ConnectionChanges, Author
  <2>3. QED BY <1>a, <2>p, <2>1, <2>2 DEF ApprovalsInv, WordInv, TrailSaysWho, askVars
<1>8. CASE AppDecides \/ CardApproves \/ CardDenies
  <2>1. /\ Decided \/ Approved \/ Denied
        /\ Recorded /\ UNCHANGED <<policyVars, tab, connected, provoked, edits, asks>>
        /\ authored' \in {authored, FALSE}
    BY <1>8 DEF AppDecides, CardApproves, CardDenies
  <2>2. /\ trail' \in Seq({"auto-allow", "auto-deny", "approved", "denied"})
        /\ TrailSaysWho' /\ AskInv' /\ (at' = "policy" => said' = {})
    BY <1>s, <2>1, RecordedKeeps
  <2>3. ApprovalsTypeOK' /\ PolicyInv'
    BY <2>1, <2>2 DEF policyVars, ApprovalsInv, ApprovalsTypeOK, PolicyInv
  <2>4. asks # 0
    BY <2>1 DEF Decided, Approved, Denied, ApprovalsInv, WordInv
  <2>5. kind' = kind
    BY <2>1 DEF Decided, Approved, Denied
  <2>6. QED BY <1>s, <2>1, <2>2, <2>3, <2>4, <2>5 DEF ApprovalsInv, TheApp, WordInv
<1>9. QED
  BY <1>1, <1>2, <1>3, <1>4, <1>5, <1>6, <1>7, <1>8 DEF ApprovalsNext

LEMMA ApprovalsInvariant == ApprovalsSpec => []ApprovalsInv
<1>1. TheApp /\ AskInit /\ ApprovalsInit => ApprovalsInv
  <2> SUFFICES ASSUME TheApp, AskInit, ApprovalsInit PROVE ApprovalsInv
    OBVIOUS
  <2>1. AskInv
    BY DEF AskInit, AskInv, AskTypeOK, AskedFor, NothingUnapproved, Kinds, Verdicts
  <2>2. 0 \in 0 .. MaxEdits /\ 0 \in 0 .. MaxAsks
    BY ApprovalsAssumption DEF ApprovalsAssumption
  <2>3. ApprovalsTypeOK
    <3>1. {policy, inForce, draft} \subseteq Policies /\ kept \in Policies \cup {NotStored}
      BY DefaultIsPolicy DEF ApprovalsInit
    <3>2. trail \in Seq({"auto-allow", "auto-deny", "approved", "denied"})
      BY DEF ApprovalsInit
    <3>3. QED BY <2>2, <3>1, <3>2 DEF ApprovalsInit, ApprovalsTypeOK
  <2>4. PolicyInv
    BY DEF ApprovalsInit, PolicyInv, Load
  <2>5. QED BY <2>1, <2>3, <2>4 DEF ApprovalsInv, ApprovalsInit, AskInit, WordInv, TrailSaysWho
<1>2. QED BY <1>1, ApprovalsStep, PTL DEF ApprovalsSpec

\* Every policy of the app is one, whatever rules are added, changed and removed.
THEOREM ApprovalsTypeCorrect == ApprovalsSpec => []ApprovalsTypeOK
<1>1. ApprovalsInv => ApprovalsTypeOK
  BY DEF ApprovalsInv
<1>2. QED BY <1>1, ApprovalsInvariant, PTL

\* The policy is asked for a verdict by one step only, and the one in force is asked.
LEMMA DecidedByPolicy ==
  ASSUME ApprovalsInv, [ApprovalsNext /\ UNCHANGED setup]_<<setup, askVars, approvalVars>>,
         at = "policy", at' # "policy", tab' = "policy"
  PROVE  verdict' = Evaluate(inForce, kind) /\ UNCHANGED policyVars /\ kind \in Simulations
<1>1. AppDecides
  BY DEF ApprovalsNext, OpenTab, AddRule, SetFallback, ChangeRow, ChangeRule, RemoveRule, Edits, Apply,
    Reload, Simulate, ServerAsks, ConnectionChanges, Author, CardApproves, CardDenies, Approved, Denied,
    askVars
<1>2. kind \in Simulations
  BY DEF ApprovalsInv, WordInv, AskInv, AskTypeOK, Kinds, Simulations
<1>3. QED BY <1>1, <1>2 DEF AppDecides

\* What the approval queue tells is so, whatever is edited, applied, left or loaded again: the
\* verdict of each request is the one the open editor shows for its type, unless it has an
\* edit that is not applied, and the trail has how each was settled and whether a person did
\* it (PolicyEditor.tsx:21-35, 166-190, policy.ts:67-87, broker.ts:35-42).
THEOREM TheAppMisreportsNothing == ApprovalsSpec => NothingMisreported
<1>1. ApprovalsInv => ShownIsInForce /\ TrailSaysWho
  BY DEF ApprovalsInv, PolicyInv, ShownIsInForce
<1>2. ASSUME ApprovalsInv, [ApprovalsNext /\ UNCHANGED setup]_<<setup, askVars, approvalVars>>
      PROVE  [at = "policy" /\ at' # "policy" /\ tab' = "policy" /\ (applied \/ draft = policy)'
                => verdict' = Preview(draft)'[kind]]_<<setup, askVars, approvalVars>>
  <2> SUFFICES ASSUME at = "policy", at' # "policy", tab' = "policy", applied' \/ draft' = policy'
               PROVE  verdict' = Preview(draft)'[kind]
    OBVIOUS
  <2>1. verdict' = Evaluate(inForce, kind) /\ UNCHANGED policyVars /\ kind \in Simulations
    BY <1>2, DecidedByPolicy
  <2>2. draft = inForce /\ draft' = draft
    BY <1>2, <2>1 DEF ApprovalsInv, PolicyInv, policyVars
  <2>3. Preview(draft)'[kind] = Evaluate(draft', kind)
    BY <2>1 DEF Preview
  <2>4. QED BY <2>1, <2>2, <2>3
<1>3. QED
  BY <1>1, <1>2, ApprovalsInvariant, PTL DEF ApprovalsSpec, NothingMisreported, DecidedAsShown
=============================================================================
