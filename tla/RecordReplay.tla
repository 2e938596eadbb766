---------------------------- MODULE RecordReplay ----------------------------
(***************************************************************************)
(* A session is recorded by recordTransport() (mcp-record/src/record.ts)   *)
(* into the interactions of a Cassette (cassette.ts), and replayServer()   *)
(* (replay.ts) answers the same requests, in the order of the recording,   *)
(* from its queues.  Request i is the i-th of the client and has the id i; *)
(* a request is its key (method and canonical parameters), and the server  *)
(* answers the n-th time with the result n.  JSON-RPC ids of the server's  *)
(* own requests are its own, and may equal the client's.                   *)
(*                                                                         *)
(* Ghosts: liveAnswer, what the client was answered; crossed, two requests of a  *)
(* key were pending at a time; collided, a request of the server had a     *)
(* pending id.                                                             *)
(* Bound: MaxRequests requests.                                            *)
(***************************************************************************)
EXTENDS Naturals, Sequences, FiniteSets

CONSTANTS Keys, MaxRequests

ASSUME RecordAssumption == MaxRequests \in Nat \ {0}

Ids == 1 .. MaxRequests
Failed == MaxRequests + 1      \* an answer with an error
Undefined == MaxRequests + 2   \* result: undefined
Unmatched == MaxRequests + 3   \* lookup() throws
Results == 1 .. Unmatched

VARIABLES
  phase,         \* recording or replaying
  requests,      \* the keys the client has asked for, in order
  unanswered,    \* requests the server has not answered
  pending,       \* the map of recordTransport()
  interactions,  \* the cassette
  answers,       \* results the server has given
  liveAnswer,          \* what the client was answered
  queues,        \* the queue of each key of replayServer()
  replayed,      \* what the requests were answered from the queues
  crossed, collided

recordVars == <<phase, requests, unanswered, pending, interactions, answers, liveAnswer, queues,
                replayed, crossed, collided>>

RecordInit ==
  /\ phase = "recording" /\ requests = <<>>
  /\ unanswered = {} /\ pending = {}
  /\ interactions = <<>> /\ answers = 0
  /\ liveAnswer = [i \in Ids |-> 0]
  /\ queues = [k \in Keys |-> <<>>]
  /\ replayed = <<>>
  /\ crossed = FALSE /\ collided = FALSE

InteractionType == [key : Keys, result : Results]

RecordTypeOK ==
  /\ phase \in {"recording", "replaying"}
  /\ requests \in Seq(Keys) /\ Len(requests) <= MaxRequests
  /\ unanswered \subseteq Ids /\ pending \subseteq Ids
  /\ interactions \in Seq(InteractionType)
  /\ answers \in 0 .. MaxRequests
  /\ liveAnswer \in [Ids -> 0 .. Failed]
  /\ queues \in [Keys -> Seq(Results)]
  /\ replayed \in Seq(Results)
  /\ crossed \in BOOLEAN /\ collided \in BOOLEAN

-----------------------------------------------------------------------------
(* Recording                                                               *)

Requested(k) ==
  /\ phase = "recording" /\ Len(requests) < MaxRequests
  /\ requests' = Append(requests, k)
  /\ unanswered' = unanswered \cup {Len(requests) + 1}
  /\ pending' = pending \cup {Len(requests) + 1}
  /\ crossed' = (crossed \/ \E i \in unanswered : requests[i] = k)
  /\ UNCHANGED <<phase, interactions, answers, liveAnswer, queues, replayed, collided>>

\* onTraffic() of what comes in with an id: it is the answer to the request pending under it.
Records(id, result) ==
  IF id \in pending
  THEN /\ pending' = pending \ {id}
       /\ interactions' = Append(interactions, [key |-> requests[id], result |-> result])
  ELSE UNCHANGED <<pending, interactions>>

AnswerComes(i) ==
  /\ i \in unanswered
  /\ unanswered' = unanswered \ {i}
  /\ answers' = answers + 1
  /\ \E result \in {answers + 1, Failed} :
       liveAnswer' = [liveAnswer EXCEPT ![i] = result] /\ Records(i, result)
  /\ UNCHANGED <<phase, requests, queues, replayed, crossed, collided>>

\* Sampling, elicitation, roots or a ping, which carries no result.
ServerAsks(id) ==
  /\ phase = "recording"
  /\ Records(id, Undefined)
  /\ collided' = (collided \/ id \in pending)
  /\ UNCHANGED <<phase, requests, unanswered, answers, liveAnswer, queues, replayed, crossed>>

-----------------------------------------------------------------------------
(* Replaying                                                               *)

\* How many of the first n keys of a sequence are k.
CountOf(k, keys, n) == Cardinality({m \in 1 .. n : keys[m] = k})
KeysOf(its) == [m \in DOMAIN its |-> its[m].key]
CountIn(k) == CountOf(k, KeysOf(interactions), Len(interactions))

\* What is pushed for the n-th interaction of a key: an error has no result.
Pushed(k, n) ==
  LET m == CHOOSE i \in DOMAIN interactions :
             interactions[i].key = k /\ CountOf(k, KeysOf(interactions), i) = n
  IN IF interactions[m].result = Failed THEN Undefined ELSE interactions[m].result

\* Mutant: the queue of a key gets the newest first.
Queue_Reversed(k) == [n \in 1 .. CountIn(k) |-> Pushed(k, CountIn(k) + 1 - n)]

\* The queue of a key.
Queue(k) == [n \in 1 .. CountIn(k) |-> Pushed(k, n)]

\* The session ends and the cassette is saved and loaded.
Replays ==
  /\ phase = "recording" /\ unanswered = {}
  /\ phase' = "replaying"
  /\ queues' = [k \in Keys |-> Queue(k)]
  /\ UNCHANGED <<requests, unanswered, pending, interactions, answers, liveAnswer, replayed,
                 crossed, collided>>

\* lookup(): the head of the queue, of which the last result sticks.
Lookup(k) == IF queues[k] = <<>> THEN Unmatched ELSE Head(queues[k])

ReplayRequest ==
  /\ phase = "replaying" /\ Len(replayed) < Len(requests)
  /\ LET k == requests[Len(replayed) + 1] IN
       /\ replayed' = Append(replayed, Lookup(k))
       /\ queues' = [queues EXCEPT ![k] = IF Len(@) > 1 THEN Tail(@) ELSE @]
  /\ UNCHANGED <<phase, requests, unanswered, pending, interactions, answers, liveAnswer,
                 crossed, collided>>

RecordNext ==
  \/ \E k \in Keys : Requested(k)
  \/ \E i \in Ids : AnswerComes(i) \/ ServerAsks(i)
  \/ Replays \/ ReplayRequest

RecordSpec == RecordInit /\ [][RecordNext]_recordVars

-----------------------------------------------------------------------------
(* Properties                                                              *)

\* Replay is faithful: each request is given what it was given when it was recorded, unless
\* two of its kind were pending at a time (they are recorded in the order of the answers), a
\* request of the server used a pending id, or the answer was an error (replay.ts:1-7,19-38).
ReplayIsFaithful ==
  (~crossed /\ ~collided) =>
    \A i \in DOMAIN replayed : liveAnswer[i] # Failed => replayed[i] = liveAnswer[i]
=============================================================================
