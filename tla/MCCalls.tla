------------------------------ MODULE MCCalls ------------------------------
(***************************************************************************)
(* What the client makes of a call: a read or query that others join, a    *)
(* task, and the requests that reach the approval queue.  They do not act  *)
(* on one another; a behaviour is a behaviour of the one that focus names, *)
(* and the others stay in an initial state.                                *)
(***************************************************************************)
EXTENDS QueryCoalescing, Tasks, Approvals

CONSTANTS c1, c2, c3

VARIABLE focus

-----------------------------------------------------------------------------
(* Queries *)

\* One starts the request, one joins it, one comes when it has been cancelled.
MCCallers == {c1, c2, c3}

Query == [kind |-> "query", store |-> FALSE, observed |-> FALSE, signals |-> TRUE,
          retry |-> 0, maxFaults |-> 0]
MCConfigs == {Query,
              [Query EXCEPT !.store = TRUE],
              [Query EXCEPT !.observed = TRUE, !.maxFaults = 1],
              [Query EXCEPT !.kind = "read", !.store = TRUE, !.observed = TRUE],
              [Query EXCEPT !.kind = "read", !.observed = TRUE, !.retry = 1, !.maxFaults = 2]}

-----------------------------------------------------------------------------
(* Tasks *)

\* Two inputs in one round: one is answered while the other is refused.  A push changes
\* nothing but the cache, so that not every setup needs one.
Both == [rounds |-> << <<"elicitation", "sampling">> >>, roots |-> FALSE, broker |-> TRUE,
         model |-> TRUE, manual |-> FALSE, review |-> TRUE, verdicts |-> Verdicts,
         maxFaults |-> 2, maxPushes |-> 0, maxReads |-> 1]
\* The approvals app: a person is the model, and its own policy decides.
Queue == [Both EXCEPT !.manual = TRUE, !.model = FALSE]
TaskSetups == {[Both EXCEPT !.maxFaults = 1],
               [Both EXCEPT !.manual = TRUE, !.verdicts = {"allow"}, !.maxFaults = 1],
               [Both EXCEPT !.rounds = << <<"elicitation">>, <<"roots", "sampling">> >>,
                            !.roots = TRUE, !.broker = FALSE, !.maxPushes = 1],
               [Both EXCEPT !.rounds = << <<"elicitation">>, <<"elicitation">> >>,
                            !.verdicts = {"ask"}],
               [Both EXCEPT !.rounds = << >>, !.maxReads = 2, !.maxPushes = 2]}
MCSetups == TaskSetups \cup {Queue}

-----------------------------------------------------------------------------
MCInit ==
  /\ focus \in {"query", "task", "queue"}
  /\ Init /\ (focus # "query" => config = Query)
  /\ TaskInit
  /\ IF focus = "task" THEN setup \in TaskSetups ELSE setup = Queue
  /\ ApprovalsInit

QueryStep == focus = "query" /\ Next /\ UNCHANGED <<focus, taskVars, approvalVars>>

TaskStep == focus = "task" /\ TaskNext /\ UNCHANGED <<focus, vars, approvalVars>>

QueueStep ==
  /\ focus = "queue"
  /\ ApprovalsNext
  /\ UNCHANGED <<focus, vars, setup, server, inbox, wire, handle, cached, reader, bounds>>

MCNext == QueryStep \/ TaskStep \/ QueueStep

MCSpec ==
  /\ MCInit /\ [][MCNext]_<<focus, vars, taskVars, approvalVars>>
  /\ Fairness /\ TaskFairness
=============================================================================
