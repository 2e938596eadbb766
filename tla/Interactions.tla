---------------------------- MODULE Interactions ----------------------------
(***************************************************************************)
(* Class InteractionBroker, mcp-query/src/core/interactions.ts: one        *)
(* request of a server for sampling or elicitation on its way past the     *)
(* policy, the people who approve it, the model and the people who review  *)
(* what it said.  The queue of the base class is external: enqueue() hands *)
(* the request to somebody, who approves or denies it, or never looks.     *)
(*                                                                         *)
(* at is the await of the handler, outcome what its promise settled with   *)
(* until the caller takes it; said is a ghost, what people approved.       *)
(***************************************************************************)
EXTENDS Naturals

VARIABLES setup, at, kind, verdict, said, outcome

askVars == <<at, kind, verdict, said, outcome>>

Kinds == {"elicitation", "sampling", "roots"}
Verdicts == {"allow", "deny", "ask"}

AskInit ==
  /\ at = "idle" /\ kind = "elicitation" /\ verdict = "ask" /\ said = {} /\ outcome = "none"

AskTypeOK ==
  /\ at \in {"idle", "policy", "request", "model", "response"}
  /\ kind \in Kinds
  /\ verdict \in Verdicts
  /\ said \subseteq {"request", "response"}
  /\ outcome \in {"none", "accept", "decline", "throw"}

\* handlersFor(): what the broker installs; without a broker the host has no handlers.
Offered(k) ==
  setup.broker /\ (k = "elicitation" \/ (k = "sampling" /\ (setup.model \/ setup.manual)))

\* A person authors what is sampled.
Authored == kind = "sampling" /\ setup.manual

Ends(o) == at' = "idle" /\ outcome' = o

\* A refused elicitation is declined, a refused sampling throws.
Refuses == Ends(IF kind = "elicitation" THEN "decline" ELSE "throw")

\* handleSampling(), handleElicitation() are called.
Handle(k) ==
  /\ at' = "policy" /\ kind' = k /\ said' = {} /\ outcome' = "none"
  /\ UNCHANGED verdict

\* Mutant: the policy that allows sampling saves the person who is to author it.
Decided_AllowSkips ==
  /\ at = "policy"
  /\ \E v \in setup.verdicts :
       /\ verdict' = v
       /\ \/ v = "deny" /\ Refuses
          \/ v = "ask" /\ at' = "request" /\ UNCHANGED outcome
          \/ v = "allow" /\ kind = "sampling" /\ setup.model /\ at' = "model" /\ UNCHANGED outcome
          \/ v = "allow" /\ (kind = "elicitation" \/ ~setup.model) /\ Ends("accept")
  /\ UNCHANGED <<kind, said>>

\* decide(): the policy has answered.
Decided ==
  /\ at = "policy"
  /\ \E v \in setup.verdicts :
       /\ verdict' = v
       /\ \/ v = "deny" /\ Refuses
          \/ /\ v = "ask" \/ (v = "allow" /\ Authored)
             /\ at' = "request" /\ UNCHANGED outcome
          \/ v = "allow" /\ kind = "elicitation" /\ Ends("accept")
          \/ v = "allow" /\ kind = "sampling" /\ ~Authored /\ at' = "model" /\ UNCHANGED outcome
  /\ UNCHANGED <<kind, said>>

\* Somebody approves the request; sampling then needs a result, theirs or the model's.
Approved ==
  /\ at = "request"
  /\ said' = said \cup {"request"}
  /\ \/ kind = "elicitation" /\ Ends("accept")
     \/ Authored /\ \E o \in {"accept", "throw"} : Ends(o)
     \/ kind = "sampling" /\ ~Authored /\ at' = "model" /\ UNCHANGED outcome
  /\ UNCHANGED <<kind, verdict>>

Denied ==
  /\ at \in {"request", "response"}
  /\ Refuses
  /\ UNCHANGED <<kind, verdict, said>>

\* Mutant: responses are reviewed only where the policy allows the request by itself.
ModelAnswers_ReviewsWrong ==
  /\ at = "model"
  /\ IF setup.review /\ verdict = "allow" THEN at' = "response" /\ UNCHANGED outcome
                                           ELSE Ends("accept")
  /\ UNCHANGED <<kind, verdict, said>>

\* The model has answered; what somebody was asked for is reviewed.
ModelAnswers ==
  /\ at = "model"
  /\ IF setup.review /\ verdict = "ask" THEN at' = "response" /\ UNCHANGED outcome
                                         ELSE Ends("accept")
  /\ UNCHANGED <<kind, verdict, said>>

ModelFails ==
  /\ at = "model"
  /\ Ends("throw")
  /\ UNCHANGED <<kind, verdict, said>>

Reviewed ==
  /\ at = "response"
  /\ said' = said \cup {"response"}
  /\ Ends("accept")
  /\ UNCHANGED <<kind, verdict>>

\* What people do, and what settles by itself.
PeopleAct == Approved \/ Denied \/ Reviewed
BrokerActs == Decided \/ ModelAnswers \/ ModelFails
AskNext == PeopleAct \/ BrokerActs

\* What a server is given was allowed by the policy or approved by a person, who has also
\* seen what the model said if responses are reviewed; a person authored what a person is
\* to author, whatever the policy allows (interactions.ts:107-160, 162-179).
NothingUnapproved ==
  outcome = "accept" =>
    \/ verdict = "allow" /\ ~Authored
    \/ /\ "request" \in said
       /\ kind = "sampling" /\ setup.review /\ ~Authored => "response" \in said

\* What the code does not keep.

\* "When true, every human-approved sampling result also gets a response-review step."
EveryApprovedIsReviewed ==
  (outcome = "accept" /\ kind = "sampling" /\ setup.review /\ "request" \in said)
    => "response" \in said
=============================================================================
