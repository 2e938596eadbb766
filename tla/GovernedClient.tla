--------------------------- MODULE GovernedClient ---------------------------
(***************************************************************************)
(* Operations on their way through a governed client: MCPClient.run() and  *)
(* drain() of packages/mcp-query/src/core/client.ts, with the interceptors *)
(* of mcp-gate's buildGateClient() in their order: authorize (and the      *)
(* approval it may wait for), circuit breaker, rate limit.                 *)
(*                                                                         *)
(* Between two awaits an operation runs alone: authorize's next(op), the   *)
(* breaker's check and the limiter's acquire() are one step.  The slot is  *)
(* released before the breaker learns the outcome, an await later.         *)
(* External: the InteractionBroker (an approval is answered or times out,  *)
(* whichever is first) and the SDK client (a request on an open upstream   *)
(* is answered or fails, one on a closed upstream fails).                  *)
(***************************************************************************)
EXTENDS RateLimit, CircuitBreaker

CONSTANT Configs    \* the gate configurations and environments considered

\* verdict: what the policy says of each operation.  timeoutMs: approvals time out.
\* removal: the upstream may be removed; drains: the client may be drained; maxFaults:
\* how many requests the upstream fails while it is there.
ConfigType == [verdict : [Ops -> {"allow", "deny", "approve"}], timeoutMs : BOOLEAN,
               removal : BOOLEAN, drains : BOOLEAN, maxFaults : Nat]

ASSUME GateAssumption == Configs \subseteq ConfigType

VARIABLES
  config,    \* chosen once
  stage,     \* per operation: the await it is suspended at
  result,    \* per operation: how its request ended, on the way to the breaker
  drain,     \* drain(): not called, awaiting the operations in flight, done
  awaited,   \* the operations drain() found in flight that have not settled
  upstream,  \* the connection: up, closed under removal, removed
  faults     \* failed requests so far

vars == <<config, stage, result, drain, awaited, upstream, faults, limitVars, breakerVars>>

Init ==
  /\ config \in Configs
  /\ stage = [o \in Ops |-> "idle"]
  /\ result = [o \in Ops |-> "none"]
  /\ drain = "off" /\ awaited = {}
  /\ upstream = "up"
  /\ faults = 0
  /\ LimitInit
  /\ BreakerInit

Moves(o, from, to) ==
  /\ stage[o] = from
  /\ stage' = [stage EXCEPT ![o] = to]

\* The promise of operation o settles: it leaves inFlight.
Settles(o, from) ==
  /\ Moves(o, from, "idle")
  /\ awaited' = awaited \ {o}

Call_WhileDraining(o) ==             \* mutant: run() does not look at `draining`
  /\ upstream # "gone"
  /\ Moves(o, "idle", "policy")
  /\ UNCHANGED <<config, result, drain, awaited, upstream, faults, limitVars, breakerVars>>

\* run(): refused while draining; an unknown upstream is refused before run().
Call(o) ==
  /\ drain = "off"
  /\ upstream # "gone"
  /\ Moves(o, "idle", "policy")
  /\ UNCHANGED <<config, result, drain, awaited, upstream, faults, limitVars, breakerVars>>

Ask_HoldingSlot(o) ==                \* mutant: the limiter in front of the approval
  /\ config.verdict[o] = "approve"
  /\ Moves(o, "policy", "asking")
  /\ Acquire(o)
  /\ UNCHANGED <<config, result, drain, awaited, upstream, faults, breakerVars>>

\* The policy's verdict: deny throws, approve waits for a decision, allow goes on.
Denies(o) ==
  /\ config.verdict[o] = "deny"
  /\ Settles(o, "policy")
  /\ UNCHANGED <<config, result, drain, upstream, faults, limitVars, breakerVars>>

Ask(o) ==
  /\ config.verdict[o] = "approve"
  /\ Moves(o, "policy", "asking")
  /\ UNCHANGED <<config, result, drain, awaited, upstream, faults, limitVars, breakerVars>>

\* next(op) behind authorize: the breaker refuses, or the operation reaches the limiter.
Enters(o, from) ==
  /\ \/ /\ Refuses(o)
        /\ Settles(o, from)
        /\ UNCHANGED <<limitVars, breakerVars>>
     \/ /\ Admit(o)
        /\ Acquire(o)
        /\ Moves(o, from, "limited")
        /\ UNCHANGED awaited
  /\ UNCHANGED <<config, result, drain, upstream, faults>>

Allows(o) == config.verdict[o] = "allow" /\ Enters(o, "policy")
Approves(o) == Enters(o, "asking")

\* A human refuses.
Rejects(o) ==
  /\ Settles(o, "asking")
  /\ UNCHANGED <<config, result, drain, upstream, faults, limitVars, breakerVars>>

\* The approval times out: it fails closed.
TimesOut(o) == config.timeoutMs /\ Rejects(o)

\* The request of a slot holder ends: its slot is released on the way out.
Ends(o, r) ==
  /\ Moves(o, "limited", "recording")
  /\ Release(o)
  /\ result' = [result EXCEPT ![o] = r]
  /\ UNCHANGED <<config, drain, awaited, upstream, breakerVars>>

Answered(o) == upstream = "up" /\ Ends(o, "ok") /\ UNCHANGED faults

Fails(o) ==
  /\ Ends(o, "error")
  /\ \/ upstream # "up" /\ UNCHANGED faults
     \/ upstream = "up" /\ faults < config.maxFaults /\ faults' = faults + 1

\* The breaker learns the outcome, and the operation settles.
Records(o) ==
  /\ Settles(o, "recording")
  /\ IF result[o] = "ok" THEN Succeed(o) ELSE Fail(o)
  /\ result' = [result EXCEPT ![o] = "none"]
  /\ UNCHANGED <<config, drain, upstream, faults, limitVars>>

CooldownEnds(k) ==
  /\ CoolsDown(k)
  /\ UNCHANGED <<config, stage, result, drain, awaited, upstream, faults, limitVars>>

\* removeUpstream(): close the connection, whose requests then fail, ...
RemoveCalled ==
  /\ config.removal
  /\ upstream = "up"
  /\ upstream' = "closed"
  /\ UNCHANGED <<config, stage, result, drain, awaited, faults, limitVars, breakerVars>>

\* ... and drop the limiter's and the breaker's state for it.
RemoveDrops ==
  /\ upstream = "closed"
  /\ upstream' = "gone"
  /\ DropKeys(Keys)
  /\ ForgetKeys(Keys)
  /\ UNCHANGED <<config, stage, result, drain, awaited, faults>>

\* drain(): refuse new operations, await those in flight, then close.
DrainCalled ==
  /\ config.drains
  /\ drain = "off"
  /\ drain' = "waiting"
  /\ awaited' = {o \in Ops : stage[o] # "idle"}
  /\ UNCHANGED <<config, stage, result, upstream, faults, limitVars, breakerVars>>

DrainReturns ==
  /\ drain = "waiting"
  /\ awaited = {}
  /\ drain' = "done"
  /\ UNCHANGED <<config, stage, result, awaited, upstream, faults, limitVars, breakerVars>>

OpStep(o) ==
  \/ Denies(o) \/ Ask(o) \/ Allows(o) \/ TimesOut(o)
  \/ Answered(o) \/ Fails(o) \/ Records(o)

Next ==
  \/ \E o \in Ops : Call(o) \/ OpStep(o) \/ Approves(o) \/ Rejects(o)
  \/ \E k \in Keys : CooldownEnds(k)
  \/ RemoveCalled \/ RemoveDrops
  \/ DrainCalled \/ DrainReturns

\* Suspended operations resume when what they await is settled, approvals time out when
\* they have a timeout, cooldowns pass.  Nobody has to call, answer an approval, remove
\* the upstream or drain.
Fairness ==
  /\ \A o \in Ops : WF_vars(OpStep(o))
  /\ \A k \in Keys : WF_vars(CooldownEnds(k))
  /\ WF_vars(RemoveDrops)
  /\ WF_vars(DrainReturns)

Spec == Init /\ [][Next]_vars /\ Fairness

-----------------------------------------------------------------------------
(* Properties                                                              *)

\* Every variable keeps its type.
TypeOK ==
  /\ config \in Configs
  /\ stage \in [Ops -> {"idle", "policy", "asking", "limited", "recording"}]
  /\ result \in [Ops -> {"none", "ok", "error"}]
  /\ drain \in {"off", "waiting", "done"}
  /\ awaited \subseteq Ops
  /\ upstream \in {"up", "closed", "gone"}
  /\ faults \in 0 .. config.maxFaults
  /\ LimitTypeOK
  /\ BreakerTypeOK

\* "cap in-flight operations per key": the count the limiter keeps is the number of
\* operations in flight and never exceeds the cap; whoever waits is queued once.  (Removal
\* forgets the count while operations are in flight.)
CapHeldUnlessRemoved == ~config.removal => CapHeld /\ WaitersQueued

\* "a human wait doesn't hold a rate-limit slot or feed the breaker".
AskingHoldsNothing == \A o \in Ops : stage[o] = "asking" => slot[o] = "out" /\ o \notin through

\* A slot is for a request: however approvals are answered, refused or time out while others
\* are at the upstream, the cap is kept, and no wait for a person counts against it.
SlotsAreForRequests == CapHeldUnlessRemoved /\ AskingHoldsNothing

\* "refuse new ops, await in-flight, then close": once drain() goes on to close, nothing is
\* in flight, at any of the interceptors.
DrainedIsQuiet == drain = "done" => \A o \in Ops : stage[o] = "idle"

\* An operation whose own waits are bounded.
Bounded(o) == config.verdict[o] = "approve" => config.timeoutMs

\* Every operation settles: no interleaving of refusals, failures, cooldowns and hand-overs
\* of slots leaves one behind, as long as the upstream is not removed.
CallsSettle ==
  \A o \in Ops : (stage[o] # "idle" /\ ~config.removal /\ \A p \in Ops : Bounded(p)) ~> stage[o] = "idle"

\* Therefore drain() returns.
DrainReturned ==
  (drain = "waiting" /\ ~config.removal /\ \A o \in Ops : Bounded(o)) ~> drain = "done"

\* "opens -> fast-fails -> half-opens -> recovers": once the upstream stops failing, a
\* breaker that calls keep arriving at is closed for good, with its count reset.
Recovers ==
  \A o \in Ops :
    ([]<><<Call(o)>>_vars /\ [](config.verdict[o] = "allow"))
      => <>[](circuit[keyOf[o]] = "closed" /\ failures[keyOf[o]] = 0)

\* What the code does not keep (nor OneTrial, of CircuitBreaker).

\* "Graceful shutdown: refuse new ops, await in-flight, then close all connections":
\* drain() returns, also when an upstream has been removed.
DrainReturnsAnyway ==
  (drain = "waiting" /\ \A o \in Ops : Bounded(o)) ~> drain = "done"

=============================================================================
