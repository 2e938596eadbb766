----------------------------- MODULE Approvals -----------------------------
(***************************************************************************)
(* The Agent Approval Queue (apps/approvals/src): the broker of            *)
(* Interactions under a trust policy that is edited while it is in force   *)
(* (policy.ts, broker.ts, components/PolicyEditor.tsx), the cards at which *)
(* a person answers (InteractionCard.tsx), the requests the app provokes   *)
(* (simulate.ts) and the trail it shows (Audit.tsx).                       *)
(*                                                                         *)
(* One request is on its way at a time.  The screens are mounted one at a  *)
(* time, so that what they keep by themselves (the editor's draft, what is *)
(* typed on a card) goes when another is opened.  The ghost unsaved says   *)
(* that the browser has refused the last save.                             *)
(* Bounds: MaxRules rules, MaxEdits edits, MaxAsks simulated requests.     *)
(***************************************************************************)
EXTENDS Interactions, Sequences, FiniteSetsExt

CONSTANTS MaxRules, MaxEdits, MaxAsks

ASSUME ApprovalsAssumption == {MaxRules, MaxEdits, MaxAsks} \subseteq Nat

Simulations == {"sampling", "elicitation", "confirm"}
RuleTypes == Simulations \cup {"*"}
Everything == "everything"        \* EVERYTHING_SERVER
RuleServers == {"*", Everything, "another"}

DefaultPolicy == [rules |-> <<>>, fallback |-> "ask"]
NewRule == [type |-> "*", server |-> "*", verdict |-> "ask"]
NotStored == [rules |-> <<>>, fallback |-> "none"]
Rules == [type : RuleTypes, server : RuleServers, verdict : Verdicts]
Policies == [rules : UNION {[1 .. n -> Rules] : n \in 0 .. MaxRules}, fallback : Verdicts]

VARIABLES
  policy,     \* what the App hands to the editor
  inForce,    \* policyConfig of broker.ts
  kept,     \* localStorage
  draft, applied,  \* of the editor: what it shows, and whether its button says so
  tab,
  authored,   \* the card has the reply of a person
  connected, provoked,  \* the server, and the tool of it that was called
  trail,      \* the outcomes in the audit log
  edits, asks, unsaved

policyVars == <<policy, inForce, kept, draft, applied, unsaved>>
screenVars == <<tab, authored, connected, provoked, trail>>
approvalVars == <<policyVars, screenVars, edits, asks>>

ApprovalsInit ==
  /\ policy = DefaultPolicy /\ inForce = DefaultPolicy /\ kept = NotStored
  /\ draft = DefaultPolicy /\ applied = FALSE /\ unsaved = FALSE
  /\ tab = "queue" /\ authored = FALSE
  /\ connected = TRUE /\ provoked = "none" /\ trail = <<>>
  /\ edits = 0 /\ asks = 0

ApprovalsTypeOK ==
  /\ {policy, inForce, draft} \subseteq Policies /\ kept \in Policies \cup {NotStored}
  /\ applied \in BOOLEAN /\ unsaved \in BOOLEAN
  /\ tab \in {"queue", "audit", "policy"} /\ authored \in BOOLEAN
  /\ connected \in BOOLEAN /\ provoked \in Simulations \cup {"none"}
  /\ trail \in Seq({"auto-allow", "auto-deny", "approved", "denied"})
  /\ edits \in 0 .. MaxEdits /\ asks \in 0 .. MaxAsks

-----------------------------------------------------------------------------
(* The policy                                                              *)

Matches(pattern, value) == pattern = "*" \/ pattern = value

RuleMatches(rule, type, server) == Matches(rule.type, type) /\ Matches(rule.server, server)

\* evaluatePolicy(): the first rule that matches, or the fallback.
Evaluate(config, type) ==
  LET hits == {i \in DOMAIN config.rules : RuleMatches(config.rules[i], type, Everything)}
  IN IF hits = {} THEN config.fallback ELSE config.rules[Min(hits)].verdict

\* PolicyPreview
Preview(config) == [type \in Simulations |-> Evaluate(config, type)]

Load(saved) == IF saved = NotStored THEN DefaultPolicy ELSE saved

\* Another screen is opened: the editor starts from what the App hands it, a card from nothing.
Opens(screen) ==
  /\ tab' = screen
  /\ authored' = (authored /\ tab = screen)
  /\ IF screen = "policy" /\ tab = "policy" THEN UNCHANGED <<draft, applied>>
     ELSE draft' = policy /\ applied' = FALSE

OpenTab(screen) ==
  /\ Opens(screen)
  /\ UNCHANGED <<askVars, policy, inForce, kept, unsaved, connected, provoked, trail, edits, asks>>

\* Mutant: the button goes on to say that the draft is applied.
Update_KeepsSaid(next) == draft' = next /\ UNCHANGED applied

\* update()
Update(next) == draft' = next /\ applied' = FALSE

Edits(next) ==
  /\ tab = "policy" /\ edits < MaxEdits
  /\ edits' = edits + 1
  /\ Update(next)
  /\ UNCHANGED <<askVars, policy, inForce, kept, unsaved, screenVars, asks>>

AddRule ==
  /\ Len(draft.rules) < MaxRules
  /\ Edits([draft EXCEPT !.rules = Append(@, NewRule)])

ChangeRule(i, rule) == Edits([draft EXCEPT !.rules[i] = rule])

\* One field of a row is set.
ChangeRow(i) ==
  LET rule == draft.rules[i]
  IN \/ \E type \in RuleTypes : ChangeRule(i, [rule EXCEPT !.type = type])
     \/ \E server \in RuleServers : ChangeRule(i, [rule EXCEPT !.server = server])
     \/ \E verdict_ \in Verdicts : ChangeRule(i, [rule EXCEPT !.verdict = verdict_])

RemoveRule(i) ==
  Edits([draft EXCEPT !.rules = SubSeq(@, 1, i - 1) \o SubSeq(@, i + 1, Len(@))])

SetFallback == \E verdict_ \in Verdicts : Edits([draft EXCEPT !.fallback = verdict_])

\* apply(): the draft is in force at once; the browser may not keep it.
Apply ==
  /\ tab = "policy"
  /\ inForce' = draft /\ policy' = draft /\ applied' = TRUE
  /\ \/ kept' = draft /\ unsaved' = FALSE
     \/ UNCHANGED kept /\ unsaved' = TRUE
  /\ UNCHANGED <<askVars, draft, screenVars, edits, asks>>

\* The page is loaded again: all that is not stored goes, the request that waits too.
Reload ==
  /\ inForce' = Load(kept) /\ policy' = Load(kept) /\ draft' = Load(kept)
  /\ applied' = FALSE /\ unsaved' = FALSE
  /\ tab' = "queue" /\ authored' = FALSE /\ provoked' = "none" /\ trail' = <<>>
  /\ at' = "idle" /\ outcome' = "none" /\ said' = {}
  /\ UNCHANGED <<kind, verdict, kept, connected, edits, asks>>

-----------------------------------------------------------------------------
(* The requests                                                            *)

\* A confirm is an elicitation without fields.
KindOfAsk(what) == IF what = "confirm" THEN "elicitation" ELSE what

\* The buttons: the tool of the server that asks, or the broker's entry itself.
Simulate(what) ==
  /\ at = "idle" /\ asks < MaxAsks
  /\ connected \/ what = "confirm"
  /\ asks' = asks + 1
  /\ Opens("queue")
  /\ \/ /\ what # "confirm" /\ provoked = "none"
        /\ provoked' = what
        /\ UNCHANGED askVars
     \/ /\ Handle(KindOfAsk(what))
        /\ UNCHANGED provoked
  /\ UNCHANGED <<policy, inForce, kept, unsaved, connected, trail, edits>>

\* The server sends the request its tool was called for, or the call fails and is left at that.
ServerAsks ==
  /\ provoked # "none"
  /\ provoked' = "none"
  /\ \/ at = "idle" /\ connected /\ Handle(provoked)
     \/ UNCHANGED askVars
  /\ UNCHANGED <<policyVars, tab, authored, connected, trail, edits, asks>>

ConnectionChanges ==
  /\ connected' = ~connected
  /\ UNCHANGED <<askVars, policyVars, tab, authored, provoked, trail, edits, asks>>

\* record()
Entry ==
  IF at = "policy" THEN IF outcome' = "accept" THEN "auto-allow" ELSE "auto-deny"
  ELSE IF outcome' = "accept" THEN "approved" ELSE "denied"

Recorded == trail' = IF outcome' = "none" THEN trail ELSE Append(trail, Entry)

\* decide(), with the policy of this app.
AppDecides ==
  /\ Decided
  /\ verdict' = Evaluate(inForce, kind)
  /\ Recorded
  /\ UNCHANGED <<policyVars, tab, authored, connected, provoked, edits, asks>>

Author ==
  /\ tab = "queue" /\ at = "request" /\ Authored /\ ~authored
  /\ authored' = TRUE
  /\ UNCHANGED <<askVars, policyVars, tab, connected, provoked, trail, edits, asks>>

\* The button of a card is disabled until its reply is written, so that it has a result.
CardApproves ==
  /\ tab = "queue"
  /\ Authored => authored
  /\ Approved /\ outcome' # "throw"
  /\ authored' = FALSE
  /\ Recorded
  /\ UNCHANGED <<policyVars, tab, connected, provoked, edits, asks>>

CardDenies ==
  /\ tab = "queue"
  /\ Denied
  /\ authored' = FALSE
  /\ Recorded
  /\ UNCHANGED <<policyVars, tab, connected, provoked, edits, asks>>

ApprovalsNext ==
  \/ \E screen \in {"queue", "audit", "policy"} : OpenTab(screen)
  \/ AddRule \/ SetFallback \/ Apply \/ Reload
  \/ \E i \in DOMAIN draft.rules : ChangeRow(i) \/ RemoveRule(i)
  \/ \E what \in Simulations : Simulate(what)
  \/ ServerAsks \/ ConnectionChanges
  \/ AppDecides \/ Author \/ CardApproves \/ CardDenies

\* The broker of this app: a person is its model, and any verdict may be asked of its policy.
TheApp == setup.broker /\ setup.manual /\ ~setup.model /\ setup.verdicts = Verdicts

ApprovalsSpec ==
  /\ TheApp /\ AskInit /\ ApprovalsInit
  /\ [][ApprovalsNext /\ UNCHANGED setup]_<<setup, askVars, approvalVars>>

-----------------------------------------------------------------------------
(* Properties                                                              *)

\* The editor starts from the policy in force, and a reload brings that one back unless the
\* browser refused to keep it (PolicyEditor.tsx:21-35, policy.ts:67-87).
ShownIsInForce == policy = inForce /\ (~unsaved => Load(kept) = inForce)

\* A request that is decided while the editor is open gets the verdict that its preview shows
\* for that type of request, if the editor says "Applied" or nothing was edited, whatever was
\* edited, left, applied or loaded again before (PolicyEditor.tsx:25-35, 48, 166-190).  The
\* preview's row for `confirm` speaks of no request: a confirm is sent as an elicitation
\* (simulate.ts:108-118), and is decided as the row of that type shows.
DecidedAsShown ==
  [][at = "policy" /\ at' # "policy" /\ tab' = "policy" /\ (applied \/ draft = policy)'
       => verdict' = Preview(draft)'[kind]]_<<setup, askVars, approvalVars>>

\* The trail says how the request that is settled was settled, and whether a person did it
\* (a request the app has asked for: the broker of another host keeps its own).
TrailSaysWho ==
  (asks > 0 /\ outcome # "none") =>
    trail # <<>> /\ trail[Len(trail)] =
      CASE outcome = "accept" /\ said = {} -> "auto-allow"
        [] outcome = "accept" /\ said # {} -> "approved"
        [] outcome # "accept" /\ verdict = "deny" -> "auto-deny"
        [] OTHER -> "denied"

\* Together: what the editor and the trail say is so.
NothingMisreported == [](ShownIsInForce /\ TrailSaysWho) /\ DecidedAsShown
=============================================================================
