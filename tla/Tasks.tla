-------------------------------- MODULE Tasks --------------------------------
(***************************************************************************)
(* One task of the tasks extension: callToolTask() and the TaskHandle it   *)
(* returns, getTask(), getTaskResult() and cancelTask() of class MCPClient *)
(* (mcp-query/src/core/client.ts), whose handle has inputs answered by the *)
(* broker (Interactions), against the one task server of this repository,  *)
(* that of mcp-query/src/testing/mockServer.ts.                            *)
(*                                                                         *)
(* The tool of the task asks for its inputs in rounds, setup.rounds; an   *)
(* input is its position in its round, and so is its key: the server names *)
(* an input after the number of those that are pending.  Each request has  *)
(* a response of its own and pushes have a stream of theirs, so wire keeps *)
(* the snapshots on their way apart by whom they go to: each is in order,  *)
(* and any of them may overtake another.                                   *)
(* The ghost revived says that a cancelled task has asked for input again. *)
(* Bounds: setup.maxFaults lost requests, setup.maxPushes notifications, *)
(* setup.maxReads calls of cancel(), getTask() and getTaskResult().       *)
(***************************************************************************)
EXTENDS Interactions, Sequences

CONSTANTS Setups, MaxKey

\* rounds: the inputs the tool asks for; roots: the host has a roots handler.
SetupType ==
  [rounds : Seq(Seq(Kinds)), roots : BOOLEAN, broker : BOOLEAN, model : BOOLEAN,
   manual : BOOLEAN, review : BOOLEAN, verdicts : SUBSET Verdicts,
   maxFaults : Nat, maxPushes : Nat, maxReads : Nat]

ASSUME TaskAssumption ==
  /\ MaxKey \in Nat
  /\ Setups \subseteq SetupType
  /\ \A c \in Setups : \A r \in DOMAIN c.rounds : Len(c.rounds[r]) <= MaxKey

Keys == 1 .. MaxKey
Terminal == {"completed", "failed", "cancelled"}
Statuses == {"working", "input_required"} \cup Terminal
Snapshots == [status : Statuses, round : Nat, requests : SUBSET Keys]
Recipients == {"call", "loop", "reader", "push"}
NoTask == [status |-> "working", round |-> 0, requests |-> {}]

VARIABLES
  status, round, pending, running, revived,  \* the task, and whether its tool still runs
  inbox,      \* tasks/get requests the server has not answered
  wire,       \* the snapshots on their way, by recipient
  loop,       \* the await of the handle's loop; "call" before there is a handle
  task,       \* the snapshot the loop works on
  todo, atHandler, responses, answered,  \* its inputs: to come, at the handler, to send, done
  result,     \* of the handle
  cached,     \* the status of the cache entry
  reader,     \* getTask() ("once"), getTaskResult() ("until", resting "rest")
  taskFaults, pushes, reads

server == <<status, round, pending, running, revived>>
handle == <<loop, task, todo, atHandler, responses, answered, result>>
bounds == <<taskFaults, pushes, reads>>
taskVars == <<setup, askVars, server, inbox, wire, handle, cached, reader, bounds>>

TaskInit ==
  /\ setup \in Setups
  /\ AskInit
  /\ status = "working" /\ round = 0 /\ pending = {} /\ running = FALSE /\ revived = FALSE
  /\ inbox = {} /\ wire = [to \in Recipients |-> <<>>]
  /\ loop = "call" /\ task = NoTask /\ todo = {} /\ atHandler = 0 /\ responses = {}
  /\ answered = {} /\ result = "pending"
  /\ cached = "none" /\ reader = "idle"
  /\ taskFaults = 0 /\ pushes = 0 /\ reads = 0

TaskTypeOK ==
  /\ setup \in Setups
  /\ AskTypeOK
  /\ status \in Statuses /\ round \in Nat /\ pending \subseteq Keys
  /\ running \in BOOLEAN /\ revived \in BOOLEAN
  /\ inbox \subseteq {"loop", "reader"}
  /\ wire \in [Recipients -> Seq(Snapshots)]
  /\ loop \in {"call", "started", "off", "get", "inputs", "handler", "update", "beat", "done"}
  /\ task \in Snapshots
  /\ todo \subseteq Keys /\ atHandler \in 0 .. MaxKey
  /\ responses \subseteq Keys /\ answered \subseteq Keys
  /\ result \in {"pending", "lost"} \cup Terminal
  /\ cached \in {"none"} \cup Statuses
  /\ reader \in {"idle", "once", "until", "rest"}
  /\ taskFaults \in Nat /\ pushes \in Nat /\ reads \in Nat

-----------------------------------------------------------------------------
(* The server                                                              *)

Round == IF round \in DOMAIN setup.rounds THEN setup.rounds[round] ELSE <<>>

\* detailedTask(): the task as it is, with the inputs it waits for.
Snapshot ==
  [status |-> status, round |-> round,
   requests |-> IF status = "input_required" THEN pending ELSE {}]

Sends(to) == wire' = [wire EXCEPT ![to] = Append(@, Snapshot)]

\* tools/call, execCallToolTask(): the server starts a task, or answers at once.
TaskStarts ==
  /\ loop = "call"
  /\ \/ /\ running' = TRUE /\ Sends("call") /\ loop' = "started"
        /\ UNCHANGED <<status, result, cached>>
     \/ /\ status' = "completed" /\ result' = "completed" /\ cached' = "completed"
        /\ loop' = "done"
        /\ UNCHANGED <<running, wire>>
  /\ UNCHANGED <<setup, askVars, round, pending, revived, inbox, task, todo, atHandler, responses,
                 answered, reader, bounds>>

\* awaitTaskInput(): the tool asks for the inputs of its next round, whatever the status.
ToolAsks ==
  /\ running /\ pending = {}
  /\ round < Len(setup.rounds)
  /\ round' = round + 1
  /\ pending' = 1 .. Len(setup.rounds[round + 1])
  /\ status' = "input_required"
  /\ revived' = (revived \/ status = "cancelled")
  /\ UNCHANGED <<setup, askVars, running, inbox, wire, handle, cached, reader, bounds>>

\* Mutant: what a cancelled task returns still completes it.
ToolReturns_Anyway ==
  /\ running /\ pending = {} /\ round = Len(setup.rounds)
  /\ running' = FALSE
  /\ status' \in {"completed", "failed"}
  /\ UNCHANGED <<setup, askVars, round, pending, revived, inbox, wire, handle, cached, reader,
                 bounds>>

\* startTask(): the tool has returned or thrown; a cancelled task keeps its status.
ToolReturns ==
  /\ running /\ pending = {} /\ round = Len(setup.rounds)
  /\ running' = FALSE
  /\ IF status = "cancelled" THEN UNCHANGED status ELSE status' \in {"completed", "failed"}
  /\ UNCHANGED <<setup, askVars, round, pending, revived, inbox, wire, handle, cached, reader,
                 bounds>>

\* tasks/get
GetAnswered(r) ==
  /\ r \in inbox
  /\ inbox' = inbox \ {r}
  /\ Sends(r)
  /\ UNCHANGED <<setup, askVars, server, handle, cached, reader, bounds>>

\* notifyTaskStatus()
Pushes ==
  /\ loop # "call" /\ (running \/ status \in Terminal)
  /\ pushes < setup.maxPushes
  /\ pushes' = pushes + 1
  /\ Sends("push")
  /\ UNCHANGED <<setup, askVars, server, inbox, handle, cached, reader, taskFaults, reads>>

\* tasks/update: the inputs are resolved, keys that are not pending are ignored.
Resolved(keys) ==
  /\ pending' = pending \ keys
  /\ status' = IF pending \ keys = {} /\ pending \cap keys # {} /\ status = "input_required"
               THEN "working" ELSE status
  /\ UNCHANGED <<round, running, revived>>

-----------------------------------------------------------------------------
(* The handle                                                              *)

\* ensureLoop(): somebody subscribes or awaits the result.
Watched ==
  /\ loop = "off"
  /\ loop' = "get" /\ inbox' = inbox \cup {"loop"}
  /\ UNCHANGED <<setup, askVars, server, wire, task, todo, atHandler, responses, answered, result,
                 cached, reader, bounds>>

\* Mutant: inputs are answered before the task is seen to have ended.
LoopReads_InputsFirst(snap) ==
  /\ task' = snap /\ responses' = {} /\ todo' = snap.requests \ answered
  /\ loop' = IF snap.status = "input_required" THEN "inputs" ELSE "beat"
  /\ UNCHANGED <<result, answered, atHandler>>

\* settle(), then answerInputs() if the task waits for some.
LoopReads(snap) ==
  /\ IF snap.status \in Terminal
     THEN /\ result' = snap.status /\ loop' = "done"
          /\ UNCHANGED <<task, todo, responses>>
     ELSE /\ task' = snap /\ responses' = {} /\ todo' = snap.requests \ answered
          /\ loop' = IF snap.status = "input_required" THEN "inputs" ELSE "beat"
          /\ UNCHANGED result
  /\ UNCHANGED <<answered, atHandler>>

\* The next snapshot to one of them arrives and is written to the cache, whatever is there.
Arrives(to) ==
  /\ wire[to] # <<>>
  /\ wire' = [wire EXCEPT ![to] = Tail(@)]
  /\ LET snap == Head(wire[to]) IN
       /\ cached' = snap.status
       /\ \/ to = "call" /\ loop' = "off"
             /\ UNCHANGED <<task, todo, atHandler, responses, answered, result, reader>>
          \/ to = "loop" /\ LoopReads(snap) /\ UNCHANGED reader
          \/ /\ to = "reader"
             /\ reader' = IF reader = "until" /\ snap.status \notin Terminal THEN "rest" ELSE "idle"
             /\ UNCHANGED handle
          \/ to = "push" /\ UNCHANGED <<handle, reader>>
  /\ UNCHANGED <<setup, askVars, server, inbox, bounds>>

KindOf(k) == setup.rounds[task.round][k]

\* answerInputs(): the next input goes to its handler, is answered at once, or is left.
NextInput ==
  /\ loop = "inputs"
  /\ \E k \in todo :
       /\ todo' = todo \ {k}
       /\ \/ /\ Offered(KindOf(k))
             /\ loop' = "handler" /\ atHandler' = k /\ Handle(KindOf(k))
             /\ UNCHANGED <<responses, answered>>
          \/ /\ ~Offered(KindOf(k))
             /\ IF KindOf(k) = "elicitation" \/ (KindOf(k) = "roots" /\ setup.roots)
                THEN responses' = responses \cup {k} /\ answered' = answered \cup {k}
                ELSE UNCHANGED <<responses, answered>>
             /\ UNCHANGED <<loop, atHandler, askVars>>
  /\ UNCHANGED <<setup, server, inbox, wire, task, result, cached, reader, bounds>>

\* The handler settles; what throws is left for a later poll.
HandlerSettles ==
  /\ loop = "handler" /\ outcome # "none"
  /\ loop' = "inputs" /\ atHandler' = 0 /\ outcome' = "none"
  /\ IF outcome = "throw" THEN UNCHANGED <<responses, answered>>
                          ELSE /\ responses' = responses \cup {atHandler}
                               /\ answered' = answered \cup {atHandler}
  /\ UNCHANGED <<setup, at, kind, verdict, said, server, inbox, wire, task, todo, result, cached,
                 reader, bounds>>

\* All inputs are seen to: what was answered is sent.
InputsDone ==
  /\ loop = "inputs" /\ todo = {}
  /\ loop' = IF responses = {} THEN "beat" ELSE "update"
  /\ UNCHANGED <<setup, askVars, server, inbox, wire, task, todo, atHandler, responses, answered,
                 result, cached, reader, bounds>>

Updated ==
  /\ loop = "update"
  /\ Resolved(responses)
  /\ loop' = "beat" /\ responses' = {}
  /\ UNCHANGED <<setup, askVars, inbox, wire, task, todo, atHandler, answered, result, cached,
                 reader, bounds>>

\* Mutant: answers that were not delivered stay marked as answered.
UpdateFails_StaysMarked ==
  /\ loop = "update" /\ taskFaults < setup.maxFaults
  /\ taskFaults' = taskFaults + 1
  /\ UNCHANGED <<server, answered>>
  /\ loop' = "beat" /\ responses' = {}
  /\ UNCHANGED <<setup, askVars, inbox, wire, task, todo, atHandler, result, cached, reader,
                 pushes, reads>>

\* The request or its answer is lost: the keys are un-marked.
UpdateFails ==
  /\ loop = "update" /\ taskFaults < setup.maxFaults
  /\ taskFaults' = taskFaults + 1
  /\ Resolved(responses) \/ UNCHANGED server
  /\ answered' = answered \ responses
  /\ loop' = "beat" /\ responses' = {}
  /\ UNCHANGED <<setup, askVars, inbox, wire, task, todo, atHandler, result, cached, reader,
                 pushes, reads>>

\* Mutant: the loop ends while inputs are left to a later poll.
Beats_UnlessLeft ==
  /\ loop = "beat"
  /\ IF task.requests \subseteq answered THEN loop' = "get" /\ inbox' = inbox \cup {"loop"}
                                         ELSE loop' = "done" /\ UNCHANGED inbox
  /\ UNCHANGED <<setup, askVars, server, wire, task, todo, atHandler, responses, answered, result,
                 cached, reader, bounds>>

\* The poll interval is over.
Beats ==
  /\ loop = "beat"
  /\ loop' = "get" /\ inbox' = inbox \cup {"loop"}
  /\ UNCHANGED <<setup, askVars, server, wire, task, todo, atHandler, responses, answered, result,
                 cached, reader, bounds>>

\* tasks/get fails: the result is rejected, and nobody polls again.
PollFails ==
  /\ "loop" \in inbox /\ taskFaults < setup.maxFaults
  /\ taskFaults' = taskFaults + 1
  /\ inbox' = inbox \ {"loop"}
  /\ loop' = "done" /\ result' = "lost"
  /\ UNCHANGED <<setup, askVars, server, wire, task, todo, atHandler, responses, answered, cached,
                 reader, pushes, reads>>

-----------------------------------------------------------------------------
(* The other calls                                                         *)

Reads(how) ==
  /\ reader = "idle" /\ loop \notin {"call", "started"} /\ (running \/ status \in Terminal)
  /\ reads < setup.maxReads
  /\ reads' = reads + 1
  /\ reader' = how /\ inbox' = inbox \cup {"reader"}
  /\ UNCHANGED <<setup, askVars, wire, handle, cached, taskFaults, pushes>>

\* Mutant: a task that has ended can be cancelled.
Cancel_Anytime == Reads("once") /\ status' = "cancelled" /\ UNCHANGED <<round, pending, running, revived>>

\* cancelTask(): tasks/cancel, then getTask().
Cancel ==
  /\ Reads("once")
  /\ status' = IF status \in Terminal THEN status ELSE "cancelled"
  /\ UNCHANGED <<round, pending, running, revived>>

\* getTask(), getTaskResult()
GetTask(how) == Reads(how) /\ UNCHANGED server

\* getTaskResult() polls again.
ReadsAgain ==
  /\ reader = "rest"
  /\ reader' = "until" /\ inbox' = inbox \cup {"reader"}
  /\ UNCHANGED <<setup, askVars, server, wire, handle, cached, bounds>>

-----------------------------------------------------------------------------
ToolActs == ToolAsks \/ ToolReturns
LoopActs == NextInput \/ HandlerSettles \/ InputsDone \/ Updated \/ Beats
Serves == (\E to \in Recipients : Arrives(to)) \/ \E r \in {"loop", "reader"} : GetAnswered(r)
BrokerSteps(A) == A /\ UNCHANGED <<setup, server, inbox, wire, handle, cached, reader, bounds>>

TaskNext ==
  \/ TaskStarts \/ Watched
  \/ ToolActs \/ LoopActs \/ Serves \/ Pushes
  \/ UpdateFails \/ PollFails
  \/ BrokerSteps(AskNext)
  \/ Cancel \/ (\E how \in {"once", "until"} : GetTask(how)) \/ ReadsAgain

\* The tool returns in the end and the server answers; the loop goes on by itself.
TaskFairness ==
  /\ WF_taskVars(ToolActs) /\ WF_taskVars(LoopActs)
  /\ \A to \in Recipients : WF_taskVars(Arrives(to))
  /\ \A r \in {"loop", "reader"} : WF_taskVars(GetAnswered(r))
  /\ WF_taskVars(BrokerSteps(BrokerActs)) /\ WF_taskVars(ReadsAgain)

TaskSpec == TaskInit /\ [][TaskNext]_taskVars /\ TaskFairness

-----------------------------------------------------------------------------
(* Properties                                                              *)

\* The result of a handle, and an end the cache shows, is how the task has ended at the
\* server, in whatever order the snapshots come, unless the tool of a cancelled task asked
\* for input again, which revives it (client.ts:761, 841; connection.ts:433;
\* mockServer.ts:522).
ResultIsTheTasks == \A end \in {result, cached} \cap Terminal : status = end \/ revived

\* "The cache snapshot converges on a terminal status (via the handle's polling)"
\* (test/tasks.test.ts:62): once the handle has the end of the task and nothing is on its
\* way, the cache has it too, and task() is the "latest known" one (client.ts:212).
Quiet == inbox = {} /\ reader = "idle" /\ \A to \in Recipients : wire[to] = <<>>

CacheConverges == result \in Terminal /\ Quiet /\ ~revived => cached = result

\* Inputs that are pending although the handle takes them for answered: a server that uses
\* a key again.
Forgotten == (pending \cap answered) \ responses

\* An input that waits is one the handle will look at in its next poll: none is left pending
\* for ever as answered (client.ts:885-888, the un-marking of what was not delivered).
NoInputForgotten == loop = "beat" => Forgotten = {}

\* ... nor because its answer was lost: a key taken for answered is one whose answer the
\* server has, of this round or of an earlier one.
OnlyReusedKeys == loop = "beat" /\ round <= 1 => Forgotten = {}

\* A key that an earlier round had too: the handle takes it for answered.
Reused == {k \in Forgotten : \E r \in 1 .. round - 1 : k \in DOMAIN setup.rounds[r]}

\* An input nobody can answer is waited for.
Left ==
  \E k \in pending :
    LET what == setup.rounds[round][k] IN
    what # "elicitation" /\ ~Offered(what) /\ ~(what = "roots" /\ setup.roots)

\* A handle that is watched settles, though requests are lost, handlers throw and answers do
\* not arrive: its polls go on until the task has ended or a poll has failed, unless
\* somebody has to approve an input and does not, handlers never stop throwing, nobody can
\* answer an input, or its key was used again (client.ts:885-927).
HandleSettles ==
  \/ []<>(outcome = "throw")
  \/ loop = "get" ~> (result # "pending" \/ at \in {"request", "response"} \/ Left \/ Reused # {})
=============================================================================
