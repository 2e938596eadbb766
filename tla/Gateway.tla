------------------------------- MODULE Gateway -------------------------------
(***************************************************************************)
(* What an agent sees of a gate and what its calls reach: createGateway()  *)
(* (mcp-query/src/server/gateway.ts) over the router of the client         *)
(* (core/router.ts), with the declarative policy of mcp-gate (config.ts,   *)
(* validate.ts, index.ts) in front of every call.                          *)
(*                                                                         *)
(* A name is a sequence of segments, the code's string split at ".", and a *)
(* glob one with "*" for one segment or more.  The name of a server is one *)
(* segment.  The agent remembers what it was listed; servers come and go   *)
(* and change what they offer before it calls.  What happens to a call     *)
(* that is let through is GovernedClient.                                  *)
(***************************************************************************)
EXTENDS Naturals, Sequences, SequencesExt, FiniteSets

CONSTANTS Servers, Gates

Kinds == {"tool", "resource", "prompt"}
NameType == Seq(STRING) \ {<<>>}
CatalogType == [Kinds -> SUBSET NameType]

\* GatePolicyRules with PolicyOptions; function: the policy is a function, so anything.
PolicyType ==
  [function : BOOLEAN, hasAllow : BOOLEAN, allow : SUBSET NameType, deny : SUBSET NameType,
   approve : SUBSET NameType, denyDestructive : BOOLEAN,
   emptyAllow : {"deny", "ignore"}, scope : [Servers -> {"qualified", "tool"}]]

\* ApprovalConfig; configured: there is one.
ApprovalType == [configured : BOOLEAN, discovery : {"visible", "annotated", "hidden"}]

\* The rest of a GateConfig, and what the servers may offer.
GateType ==
  [policy : PolicyType, approval : ApprovalType, namespace : BOOLEAN,
   catalogs : SUBSET CatalogType, destructive : SUBSET NameType]

ASSUME GatewayAssumption == IsFiniteSet(Servers) /\ Gates \subseteq GateType

\* validateGateConfig(), past the types.
Valid(g) == g.policy.approve # {} /\ ~g.policy.function => g.approval.configured

VARIABLES
  gate,      \* the configuration
  up,        \* the names of the connected servers, in the order of the map
  offers,    \* the catalog of each server
  shown,     \* the last listing the agent was given
  last       \* the last operation and what became of it

gateVars == <<gate, up, offers, shown, last>>

NoOperation == [kind |-> "none", name |-> <<>>, server |-> "", target |-> <<>>, outcome |-> "none"]

GateInit ==
  /\ gate \in {g \in Gates : Valid(g)}
  /\ up \in SetToSeqs(Servers)
  /\ offers \in [Servers -> gate.catalogs]
  /\ shown = {} /\ last = NoOperation

Up == ToSet(up)

-----------------------------------------------------------------------------
(* The policy                                                              *)

\* globToRe(): which segments of the id each segment of the glob stands for.
Matches(glob, id) ==
  \E f \in [DOMAIN id -> DOMAIN glob] :
    /\ {f[i] : i \in DOMAIN id} = DOMAIN glob
    /\ \A i, j \in DOMAIN id : i < j => f[i] <= f[j] /\ (f[i] = f[j] => glob[f[i]] = "*")
    /\ \A i \in DOMAIN id : glob[f[i]] \in {"*", id[i]}

AnyMatches(globs, id) == \E g \in globs : Matches(g, id)

\* idFor()
Id(s, name) == IF gate.policy.scope[s] = "tool" THEN name ELSE <<s>> \o name

\* compileAllow(): is there an allow list?
AllowList == gate.policy.hasAllow /\ ~(gate.policy.allow = {} /\ gate.policy.emptyAllow = "ignore")

Approve(s, name) == AnyMatches(gate.policy.approve, Id(s, name))

\* Mutant: an approval overrides what the name rules say.
Decisions_ApproveFirst(s, name) ==
  IF gate.policy.function THEN {"allow", "deny", "approve"}
  ELSE IF Approve(s, name) THEN {"approve"}
  ELSE IF \/ AnyMatches(gate.policy.deny, Id(s, name))
          \/ gate.policy.denyDestructive /\ name \in gate.destructive
          \/ AllowList /\ ~AnyMatches(gate.policy.allow, Id(s, name)) THEN {"deny"}
  ELSE {"allow"}

\* explainPolicy(): deny, then the destructive hint, then the allow list, then approve.
Decisions(s, name) ==
  IF gate.policy.function THEN {"allow", "deny", "approve"}
  ELSE IF \/ AnyMatches(gate.policy.deny, Id(s, name))
          \/ gate.policy.denyDestructive /\ name \in gate.destructive
          \/ AllowList /\ ~AnyMatches(gate.policy.allow, Id(s, name)) THEN {"deny"}
  ELSE IF Approve(s, name) THEN {"approve"} ELSE {"allow"}

\* policyListFilter()
Keep(s, name) ==
  gate.policy.function \/
    /\ ~AnyMatches(gate.policy.deny, Id(s, name))
    /\ AllowList => AnyMatches(gate.policy.allow, Id(s, name))
    /\ gate.approval.discovery = "hidden" => ~Approve(s, name)

\* policyListAnnotator()
Flagged(s, name) ==
  gate.approval.discovery = "annotated" /\ ~gate.policy.function /\ Approve(s, name)

-----------------------------------------------------------------------------
(* Discovery                                                               *)

\* qualify(); the uri of a resource is global.
Qualify(k, s, name) == IF gate.namespace /\ k # "resource" THEN <<s>> \o name ELSE name

Item(k, s, n) ==
  [kind |-> k, name |-> Qualify(k, s, n), server |-> s, target |-> n, flagged |-> Flagged(s, n)]

\* tools/list, resources/list, prompts/list
Listing ==
  UNION {{Item(k, s, n) : n \in {m \in offers[s][k] : Keep(s, m)}} : k \in Kinds, s \in Up}

Lists ==
  /\ shown' = Listing
  /\ UNCHANGED <<gate, up, offers, last>>

-----------------------------------------------------------------------------
(* Calls                                                                   *)

Nowhere == [server |-> "", target |-> <<>>]

\* Mutant: the last segment is the name of the tool.
Split_LastSegment(name) ==
  IF gate.namespace /\ Len(name) > 1 /\ Head(name) \in Up
  THEN [server |-> Head(name), target |-> <<Last(name)>>]
  ELSE IF up = <<>> THEN Nowhere ELSE [server |-> Head(up), target |-> name]

\* split(): what is not the name of a server and a dot goes to the first server.
Split(name) ==
  IF gate.namespace /\ Len(name) > 1 /\ Head(name) \in Up
  THEN [server |-> Head(name), target |-> Tail(name)]
  ELSE IF up = <<>> THEN Nowhere ELSE [server |-> Head(up), target |-> name]

Offering(k, name) == {s \in Up : name \in offers[s][k]}

\* Mutant: a tool its server does not offer is looked for elsewhere.
ResolveTool_Elsewhere(to) ==
  IF to.server \in Up /\ to.target \in offers[to.server]["tool"] THEN to
  ELSE IF \E s \in Up : Offering("tool", to.target) = {s}
  THEN [to EXCEPT !.server = CHOOSE s \in Offering("tool", to.target) : TRUE] ELSE Nowhere

\* Router.resolveTool() of server.tool
ResolveTool(to) ==
  IF to.server \in Up /\ to.target \in offers[to.server]["tool"] THEN to ELSE Nowhere

\* Router.resolveResource() without a server: the only one that offers it.
ResolveResource(uri) ==
  IF \E s \in Up : Offering("resource", uri) = {s}
  THEN [server |-> CHOOSE s \in Offering("resource", uri) : TRUE, target |-> uri] ELSE Nowhere

\* getPrompt() asks the server it is told, which knows its prompts.
ResolvePrompt(to) ==
  IF to.server \in Up /\ to.target \in offers[to.server]["prompt"] THEN to ELSE Nowhere

Destination(k, name) ==
  CASE k = "tool" -> ResolveTool(Split(name))
    [] k = "prompt" -> ResolvePrompt(Split(name))
    [] k = "resource" -> ResolveResource(name)

\* authorize(); prompts are not operations of the interceptor chain, so no policy sees them.
Outcomes(k, to) ==
  IF to = Nowhere THEN {"unknown"}
  ELSE IF k = "prompt" THEN {"runs"}
  ELSE {CASE d = "allow" -> "runs"
          [] d = "deny" -> "denied"
          [] d = "approve" -> IF gate.approval.configured THEN "asks" ELSE "unapprovable"
         : d \in Decisions(to.server, to.target)}

\* Names an agent may come up with: those it was listed and those it knows.
Names(k) ==
  {item.name : item \in {i \in shown : i.kind = k}} \cup
    {Qualify(k, s, n) : s \in Servers, n \in UNION {c[k] : c \in gate.catalogs}}

\* tools/call, resources/read, prompts/get
Operates(k, name) ==
  /\ name \in Names(k)
  /\ LET to == Destination(k, name) IN
     \E o \in Outcomes(k, to) :
       last' = [kind |-> k, name |-> name, server |-> to.server, target |-> to.target,
                outcome |-> o]
  /\ UNCHANGED <<gate, up, offers, shown>>

-----------------------------------------------------------------------------
(* The servers                                                             *)

\* The first list of a server that has connected, and list_changed.
OffersChange(s) ==
  /\ s \in Up
  /\ \E c \in gate.catalogs : offers' = [offers EXCEPT ![s] = c]
  /\ UNCHANGED <<gate, up, shown, last>>

\* addServer(): in the map before it has connected.
Joins(s) ==
  /\ s \notin Up
  /\ up' = Append(up, s)
  /\ offers' = [offers EXCEPT ![s] = [k \in Kinds |-> {}]]
  /\ UNCHANGED <<gate, shown, last>>

\* removeServer()
Leaves(s) ==
  /\ \E i \in DOMAIN up : up[i] = s /\ up' = RemoveAt(up, i)
  /\ UNCHANGED <<gate, offers, shown, last>>

GateNext ==
  \/ Lists
  \/ \E k \in Kinds : \E name \in Names(k) : Operates(k, name)
  \/ \E s \in Servers : OffersChange(s) \/ Joins(s) \/ Leaves(s)

GateSpec == GateInit /\ [][GateNext]_gateVars

-----------------------------------------------------------------------------
(* Properties                                                              *)

GateTypeOK ==
  /\ gate \in Gates
  /\ up \in Seq(Servers) /\ IsInjective(up)
  /\ offers \in [Servers -> gate.catalogs \cup {[k \in Kinds |-> {}]}]
  /\ \A item \in shown : item.server \in Servers
  /\ last.outcome \in {"none", "unknown", "runs", "asks", "denied", "unapprovable"}

\* What is listed can be used under the name it is listed by, and reaches the server and the
\* item it was listed for, where names have the server's name in front; a uri must be one
\* server's.  Only a function and the destructive hint refuse what the listing shows
\* (gateway.ts:121-171, config.ts:272-295).
ListedIsReachable ==
  gate.namespace =>
    \A item \in Listing :
      LET to == Destination(item.kind, item.name) IN
      \/ item.kind = "resource" /\ \A s \in Up : Offering("resource", item.target) # {s}
      \/ /\ to = [server |-> item.server, target |-> item.target]
         /\ "denied" \in Outcomes(item.kind, to) =>
              \/ gate.policy.function
              \/ gate.policy.denyDestructive /\ item.target \in gate.destructive

\* What the policy keeps from the listing by its name is refused when it is used all the
\* same, except that a prompt is not and that what is only hidden for its approval asks for
\* it (config.ts:80-88, index.ts:46 of mcp-gate).
HiddenIsRefused ==
  \A s \in Up, k \in {"tool", "resource"} :
    \A n \in offers[s][k] :
      ~Keep(s, n) =>
        Outcomes(k, [server |-> s, target |-> n]) \subseteq
          {"denied"} \cup (IF gate.approval.discovery = "hidden" /\ Approve(s, n)
                           THEN {"asks"} ELSE {})

\* The listing and the enforcement read one policy in two places and agree: what is listed can
\* be used, what is kept back is refused.
DiscoveryIsEnforced == ListedIsReachable /\ HiddenIsRefused

\* However the servers and their catalogs have changed since the agent was listed a tool, its
\* name never reaches another server's tool or another tool while its server is there; when that
\* has left, only what the first server itself offers under the whole name (gateway.ts:232-240,
\* router.ts:30-36).
NeverMisrouted ==
  [][\A item \in shown :
       (gate.namespace /\ last' # last /\ last'.kind = item.kind /\ last'.name = item.name
          /\ item.kind # "resource" /\ last'.outcome # "unknown")
         => \/ last'.server = item.server /\ last'.target = item.target
            \/ /\ item.server \notin Up
               /\ last'.server = Head(up) /\ last'.target = item.name]_gateVars

\* Without name prefixes, a tool that one server offers is found there (gateway.ts:238: "not
\* namespaced (or single server): find the unique owner").
UniqueOwnerFound ==
  ~gate.namespace =>
    \A n \in UNION {offers[s]["tool"] : s \in Up} :
      \A s \in Up :
        Offering("tool", n) = {s} => Destination("tool", n) = [server |-> s, target |-> n]
=============================================================================
