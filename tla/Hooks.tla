------------------------------- MODULE Hooks -------------------------------
(***************************************************************************)
(* What three React hooks show of calls that overlap: useTool()            *)
(* (mcp-query/src/react/useTool.ts), useToolTask() (useTask.ts) and        *)
(* usePrompt() (capabilities.ts).  Call i of a hook is its i-th; the order *)
(* in which calls settle is anybody's.                                     *)
(* Bound: MaxCalls calls of the hook.                                      *)
(***************************************************************************)
EXTENDS Naturals

CONSTANT MaxCalls

ASSUME HooksAssumption == MaxCalls \in Nat \ {0}

Calls == 1 .. MaxCalls
Nothing == 0

VARIABLES
  hook,        \* which hook it is
  calls,       \* calls made so far
  call,        \* what has become of each
  isPending,   \* useTool: the state
  own,         \* useTool: calls that carry a signal of their own
  data,        \* the call whose answer is shown
  task,        \* useToolTask: the task that is observed
  live         \* usePrompt: the effect whose cleanup has not run

hookVars == <<hook, calls, call, isPending, own, data, task, live>>

HooksInit ==
  /\ hook \in {"useTool", "useToolTask", "usePrompt"}
  /\ calls = 0
  /\ call = [i \in Calls |-> "none"]
  /\ isPending = FALSE /\ own = {}
  /\ data = Nothing /\ task = Nothing /\ live = Nothing

HooksTypeOK ==
  /\ hook \in {"useTool", "useToolTask", "usePrompt"}
  /\ calls \in 0 .. MaxCalls
  /\ call \in [Calls -> {"none", "starting", "running", "aborted", "settled"}]
  /\ isPending \in BOOLEAN /\ own \subseteq Calls
  /\ data \in 0 .. MaxCalls /\ task \in 0 .. MaxCalls /\ live \in 0 .. MaxCalls

-----------------------------------------------------------------------------
(* useTool()                                                               *)

\* The last controller is aborted, which cancels its call unless that has another signal.
Abort == [i \in Calls |-> IF i = calls /\ i \notin own /\ call[i] = "running"
                          THEN "aborted" ELSE call[i]]

Invoke ==
  /\ hook = "useTool" /\ calls < MaxCalls
  /\ calls' = calls + 1
  /\ call' = [Abort EXCEPT ![calls + 1] = "running"]
  /\ own' \in {own, own \cup {calls + 1}}
  /\ isPending' = TRUE
  /\ UNCHANGED <<hook, data, task, live>>

Cancel ==
  /\ hook = "useTool" /\ calls > 0
  /\ call' = Abort
  /\ UNCHANGED <<hook, calls, isPending, own, data, task, live>>

Reset ==
  /\ hook = "useTool"
  /\ isPending' = FALSE /\ data' = Nothing
  /\ UNCHANGED <<hook, calls, call, own, task, live>>

\* Mutant: a call that was aborted leaves the state alone.
Shows_UnlessAborted(i, ok) ==
  IF call[i] = "aborted" THEN UNCHANGED <<isPending, data>>
  ELSE isPending' = FALSE /\ data' = IF ok THEN i ELSE Nothing

\* Either setState() of a call that has settled, whichever call is the last one.
Shows(i, ok) == isPending' = FALSE /\ data' = IF ok THEN i ELSE Nothing

InvokeSettles(i) ==
  /\ hook = "useTool" /\ call[i] \in {"running", "aborted"}
  /\ \E ok \in BOOLEAN : (ok => call[i] = "running") /\ Shows(i, ok)
  /\ call' = [call EXCEPT ![i] = "settled"]
  /\ UNCHANGED <<hook, calls, own, task, live>>

-----------------------------------------------------------------------------
(* useToolTask()                                                           *)

StartTask ==
  /\ hook = "useToolTask" /\ calls < MaxCalls
  /\ calls' = calls + 1
  /\ call' = [call EXCEPT ![calls + 1] = "starting"]
  /\ data' = Nothing
  /\ UNCHANGED <<hook, isPending, own, task, live>>

\* callToolTask() answers with a handle, or throws.
HandleArrives(i) ==
  /\ hook = "useToolTask" /\ call[i] = "starting"
  /\ \/ call' = [call EXCEPT ![i] = "running"] /\ task' = i
     \/ call' = [call EXCEPT ![i] = "settled"] /\ UNCHANGED task
  /\ UNCHANGED <<hook, calls, isPending, own, data, live>>

\* Its result is shown whichever task is observed by now.
TaskSettles(i) ==
  /\ hook = "useToolTask" /\ call[i] = "running"
  /\ call' = [call EXCEPT ![i] = "settled"]
  /\ data' \in {i, data}
  /\ UNCHANGED <<hook, calls, isPending, own, task, live>>

-----------------------------------------------------------------------------
(* usePrompt()                                                             *)

\* The inputs change, or the component goes: the cleanup of the last effect runs first.
PromptEffect ==
  /\ hook = "usePrompt"
  /\ \/ live # Nothing /\ live' = Nothing /\ UNCHANGED <<calls, call>>
     \/ /\ calls < MaxCalls
        /\ calls' = calls + 1 /\ live' = calls + 1
        /\ call' = [call EXCEPT ![calls + 1] = "running"]
  /\ UNCHANGED <<hook, isPending, own, data, task>>

\* Mutant: the answer is shown whether or not its effect is live.
PromptData_Any(i) == i

PromptData(i) == IF live = i THEN i ELSE data

\* A rejection is nobody's: the data stays.
PromptSettles(i) ==
  /\ hook = "usePrompt" /\ call[i] = "running"
  /\ call' = [call EXCEPT ![i] = "settled"]
  /\ data' \in {PromptData(i), data}
  /\ UNCHANGED <<hook, calls, isPending, own, task, live>>

HooksNext ==
  \/ Invoke \/ Cancel \/ Reset \/ StartTask \/ PromptEffect
  \/ \E i \in Calls : InvokeSettles(i) \/ HandleArrives(i) \/ TaskSettles(i) \/ PromptSettles(i)

HooksSpec == HooksInit /\ [][HooksNext]_hookVars

-----------------------------------------------------------------------------
(* Properties                                                              *)

\* useTool(): once every call has settled, whichever were aborted and in whatever order they
\* came back, nothing is shown as pending (useTool.ts:61-72).
QuietIsNotPending ==
  (\A i \in Calls : call[i] \in {"none", "settled"}) => ~isPending

\* usePrompt(): the prompt that is shown never goes back to the answer of earlier inputs,
\* however late that answer comes (capabilities.ts:54-60).
NeverGoesBack == [][(hook = "usePrompt") => data' >= data]_hookVars

\* useToolTask(): the data that is shown beside a task is the data of that task.
DataOfTheTask == hook = "useToolTask" /\ data # Nothing => data = task
=============================================================================
