------------------------------- MODULE MCGate -------------------------------
(***************************************************************************)
(* The two machines of mcp-gate: what the gateway lists and where it sends *)
(* a request, and how the calls of a gate's client go through approval,    *)
(* breaker and limiter.  A behaviour is a behaviour of the one that focus  *)
(* names; the other stays in an initial state.                             *)
(***************************************************************************)
EXTENDS Gateway, GovernedClient, TLC

CONSTANTS o1, o2, o3, k1

VARIABLE focus

-----------------------------------------------------------------------------
(* Gateways                                                                *)

MCServers == {"a", "b"}

Offer(t, r, p) == [tool |-> t, resource |-> r, prompt |-> p]
MCCatalogs ==
  {Offer({<<"read">>}, {<<"u">>}, {<<"ask">>}),
   Offer({<<"read">>, <<"git", "push">>}, {}, {<<"a", "ask">>})}

AllOpen == [function |-> FALSE, hasAllow |-> FALSE, allow |-> {}, deny |-> {}, approve |-> {},
         denyDestructive |-> FALSE, emptyAllow |-> "deny",
         scope |-> [s \in MCServers |-> "qualified"]]
PlainGate == [policy |-> AllOpen, approval |-> [configured |-> FALSE, discovery |-> "visible"],
          namespace |-> TRUE, catalogs |-> MCCatalogs, destructive |-> {<<"git", "push">>}]
Approver(d) == [configured |-> TRUE, discovery |-> d]

MCGates ==
  {PlainGate,
   [PlainGate EXCEPT !.policy.function = TRUE],
   [PlainGate EXCEPT !.policy.deny = {<<"b", "*">>}, !.policy.denyDestructive = TRUE],
   [PlainGate EXCEPT !.policy.hasAllow = TRUE, !.policy.allow = {<<"*", "push">>, <<"a", "*">>},
                 !.policy.approve = {<<"b", "read">>, <<"a", "git", "*">>},
                 !.policy.deny = {<<"*", "read">>}, !.approval = Approver("annotated")],
   [PlainGate EXCEPT !.policy.approve = {<<"git", "*">>, <<"u">>},
                 !.policy.scope["a"] = "tool", !.approval = Approver("hidden")],
   [PlainGate EXCEPT !.policy.hasAllow = TRUE, !.policy.emptyAllow = "ignore",
                 !.policy.approve = {<<"*">>}]}
MCBare == {[PlainGate EXCEPT !.namespace = FALSE]}

-----------------------------------------------------------------------------
(* Governed clients                                                        *)

MCOps == {o1, o2, o3}
MCKeys == {k1}

\* Three calls of one tenant to one upstream: they share a bucket.
OneTenant == [o \in MCOps |-> k1]

Base == [verdict |-> [o \in MCOps |-> "allow"], timeoutMs |-> FALSE, removal |-> FALSE,
         drains |-> FALSE, maxFaults |-> 3]

\* Everything allowed over a failing upstream; verdicts of every kind, with drain(); the
\* same with an approval that may never be answered; and removal of the upstream.
Mixed == (o1 :> "approve") @@ (o2 :> "allow") @@ (o3 :> "deny")
MCConfigs == {
  Base,
  [Base EXCEPT !.verdict = Mixed, !.timeoutMs = TRUE, !.drains = TRUE],
  [Base EXCEPT !.verdict = [Mixed EXCEPT ![o3] = "allow"], !.drains = TRUE, !.maxFaults = 1],
  [Base EXCEPT !.removal = TRUE, !.maxFaults = 1]}

FailingConfigs == {Base}
RemovalConfigs == {[Base EXCEPT !.removal = TRUE, !.drains = TRUE, !.maxFaults = 0]}

-----------------------------------------------------------------------------
MCInit ==
  /\ focus \in {"gateway", "calls"}
  /\ GateInit
  /\ focus = "calls" => /\ gate = PlainGate /\ up = SetToSeq(Servers)
                        /\ \A s \in Servers : offers[s] = CHOOSE c \in MCCatalogs : TRUE
  /\ Init /\ (focus = "gateway" => config = Base)

GatewayStep == focus = "gateway" /\ GateNext /\ UNCHANGED <<focus, vars>>

CallsStep == focus = "calls" /\ Next /\ UNCHANGED <<focus, gateVars>>

MCNext == GatewayStep \/ CallsStep

MCSpec == MCInit /\ [][MCNext]_<<focus, gateVars, vars>> /\ Fairness
=============================================================================
