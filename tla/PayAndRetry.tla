---------------------------- MODULE PayAndRetry ----------------------------
(***************************************************************************)
(* One operation that a server answers with HTTP 402, on its way through   *)
(* run() and the chain of interceptors: the x402 interceptor               *)
(* (mcp-query/src/server/x402Interceptor.ts) around execCall, execQuery or *)
(* execRead and their withRetry() (mcp-query/src/core/client.ts), and      *)
(* around them an interceptor of the host's that runs the rest of the      *)
(* chain again when it throws.                                             *)
(* Bounds: RetryCount is the client's retry, MaxChains how often the host  *)
(* runs the chain.                                                         *)
(***************************************************************************)
EXTENDS Naturals

CONSTANTS RetryCount, MaxChains

ASSUME PayAssumption == RetryCount \in Nat /\ MaxChains \in Nat \ {0}

OperationType == [kind : {"call", "query", "read"}, readOnly : BOOLEAN, enabled : BOOLEAN,
                  gate : BOOLEAN]

\* What a next() throws: a 402 with a challenge or with another body, as MCPError or as the
\* SDK threw it, the interceptor's own error, or another failure.
Errors == {"challenge", "other402", "raw402", "refused", "failure"}

VARIABLES
  operation,   \* the operation and the interceptor it meets
  at,          \* where it is
  err,         \* what is being thrown
  attempt,     \* the attempt of withRetry()
  x402Retried, \* op.state.x402Retried
  again,       \* the next() under way is the one of the paid retry
  chains,      \* how often the host has run the chain
  sent         \* requests the server has been sent

payVars == <<operation, at, err, attempt, x402Retried, again, chains, sent>>

PayInit ==
  /\ operation \in OperationType
  /\ at = "sending" /\ err = "failure"
  /\ attempt = 0 /\ x402Retried = FALSE /\ again = FALSE
  /\ chains = 1 /\ sent = 0

PayTypeOK ==
  /\ operation \in OperationType
  /\ at \in {"sending", "caught", "gate", "thrown", "done"}
  /\ err \in Errors
  /\ attempt \in 0 .. RetryCount
  /\ x402Retried \in BOOLEAN /\ again \in BOOLEAN
  /\ chains \in 1 .. MaxChains
  /\ sent \in 0 .. 2 * MaxChains * (RetryCount + 1)

\* execCall() throws what toError() makes of it; execQuery() and execRead() what they caught.
Thrown(e) == IF operation.kind # "call" /\ e # "failure" THEN "raw402" ELSE e

Retries == operation.kind # "call" /\ attempt < RetryCount

\* Mutant: whatever the gate will pay for is sent again.
IsIdempotent_Always(o) == TRUE

IsIdempotent(o) == o.kind = "read" \/ o.readOnly

Throw(e) == at' = "thrown" /\ err' = e

\* The request is sent and answered; withRetry() tries a read or a query again at once.
Answered ==
  /\ at = "sending"
  /\ sent' = sent + 1
  /\ \/ at' = "done" /\ UNCHANGED <<err, attempt>>
     \/ \E e \in {"challenge", "other402", "failure"} :
          IF Retries
          THEN attempt' = attempt + 1 /\ UNCHANGED <<at, err>>
          ELSE at' = "caught" /\ err' = Thrown(e) /\ UNCHANGED attempt
  /\ UNCHANGED <<operation, x402Retried, again, chains>>

\* The first catch of the interceptor, up to the await of the gate.
Caught ==
  /\ at = "caught" /\ ~again
  /\ IF operation.enabled /\ err = "challenge"
     THEN IF operation.gate THEN at' = "gate" /\ UNCHANGED err ELSE Throw("refused")
     ELSE Throw(err)
  /\ UNCHANGED <<operation, attempt, x402Retried, again, chains, sent>>

\* The gate's verdict.
Verdict ==
  /\ at = "gate"
  /\ \/ Throw("refused") /\ UNCHANGED <<attempt, x402Retried, again>>
     \/ /\ IsIdempotent(operation) /\ ~x402Retried
        /\ x402Retried' = TRUE /\ again' = TRUE
        /\ at' = "sending" /\ attempt' = 0
        /\ UNCHANGED err
  /\ UNCHANGED <<operation, chains, sent>>

\* The catch of the paid retry.
CaughtAgain ==
  /\ at = "caught" /\ again
  /\ again' = FALSE
  /\ Throw(IF err \in {"challenge", "other402"} THEN "refused" ELSE err)
  /\ UNCHANGED <<operation, attempt, x402Retried, chains, sent>>

HostRunsAgain ==
  /\ at = "thrown" /\ chains < MaxChains
  /\ chains' = chains + 1
  /\ at' = "sending" /\ attempt' = 0
  /\ UNCHANGED <<operation, err, x402Retried, again, sent>>

PayNext == Answered \/ Caught \/ Verdict \/ CaughtAgain \/ HostRunsAgain
PaySpec == PayInit /\ [][PayNext]_payVars

-----------------------------------------------------------------------------
(* Properties                                                              *)

\* A tool call reaches the server once for each time the host runs the chain, and once more
\* in all if it is read-only: a payment neither replays a side effect nor is made twice
\* because the chain was run again (x402Interceptor.ts:77-81).
NothingPaidTwice ==
  operation.kind = "call" => sent <= chains + (IF operation.readOnly THEN 1 ELSE 0)
=============================================================================
