--------------------------- MODULE CircuitBreaker ---------------------------
(***************************************************************************)
(* The circuit breaker, after circuitBreaker() of                          *)
(* packages/mcp-query/src/server/circuitBreaker.ts.                        *)
(*                                                                         *)
(* The interceptor reads the record of its key when an operation enters    *)
(* and writes it when the operation ends: between the two the operation    *)
(* keeps the count it has read (seen).  openedAt is modelled by what it    *)
(* decides: "closed" (undefined), "open" (cooldown running), "cooled"      *)
(* (cooldown over).  Failures are counted up to Threshold: only whether    *)
(* they reach it is ever asked.                                            *)
(***************************************************************************)
EXTENDS Naturals, Buckets

CONSTANT Threshold   \* opts.threshold

ASSUME BreakerAssumption == Threshold \in Nat \ {0}

VARIABLES
  failures,  \* per key: consecutive failures, as recorded
  circuit,   \* per key: closed, open or cooled
  seen,      \* per operation: the failures it read when it entered
  through    \* operations between next(op) and its outcome

breakerVars == <<failures, circuit, seen, through>>

BreakerInit ==
  /\ failures = [k \in Keys |-> 0]
  /\ circuit = [k \in Keys |-> "closed"]
  /\ seen = [o \in Ops |-> 0]
  /\ through = {}

Refuses(o) == circuit[keyOf[o]] = "open"

\* An operation passes: if the breaker was cooled, openedAt is cleared for everybody.
Admit(o) ==
  /\ o \notin through
  /\ ~Refuses(o)
  /\ circuit' = [circuit EXCEPT ![keyOf[o]] = "closed"]
  /\ seen' = [seen EXCEPT ![o] = failures[keyOf[o]]]
  /\ through' = through \cup {o}
  /\ UNCHANGED failures

Succeed_KeepsCount(o) ==             \* mutant: a success does not reset the count
  /\ o \in through
  /\ circuit' = [circuit EXCEPT ![keyOf[o]] = "closed"]
  /\ through' = through \ {o}
  /\ UNCHANGED <<failures, seen>>

Succeed(o) ==
  /\ o \in through
  /\ failures' = [failures EXCEPT ![keyOf[o]] = 0]
  /\ circuit' = [circuit EXCEPT ![keyOf[o]] = "closed"]
  /\ through' = through \ {o}
  /\ seen' = [seen EXCEPT ![o] = 0]

Counted(n) == IF n < Threshold THEN n + 1 ELSE Threshold

Fail_OffByOne(o) ==                  \* mutant: opens one failure early
  /\ o \in through
  /\ failures' = [failures EXCEPT ![keyOf[o]] = Counted(seen[o])]
  /\ circuit' = [circuit EXCEPT ![keyOf[o]] = IF seen[o] + 2 >= Threshold THEN "open" ELSE "closed"]
  /\ through' = through \ {o}
  /\ seen' = [seen EXCEPT ![o] = 0]

\* A failure adds one to the count the operation read when it entered.
Fail(o) ==
  /\ o \in through
  /\ failures' = [failures EXCEPT ![keyOf[o]] = Counted(seen[o])]
  /\ circuit' = [circuit EXCEPT ![keyOf[o]] = IF seen[o] + 1 >= Threshold THEN "open" ELSE "closed"]
  /\ through' = through \ {o}
  /\ seen' = [seen EXCEPT ![o] = 0]

\* cooldownMs have passed since openedAt.
CoolsDown(k) ==
  /\ circuit[k] = "open"
  /\ circuit' = [circuit EXCEPT ![k] = "cooled"]
  /\ UNCHANGED <<failures, seen, through>>

\* dropServer(): forget the keys ks, whatever is on its way through.
ForgetKeys(ks) ==
  /\ failures' = [k \in Keys |-> IF k \in ks THEN 0 ELSE failures[k]]
  /\ circuit' = [k \in Keys |-> IF k \in ks THEN "closed" ELSE circuit[k]]
  /\ UNCHANGED <<seen, through>>

BreakerNext ==
  \/ \E o \in Ops : Admit(o) \/ Succeed(o) \/ Fail(o)
  \/ \E k \in Keys : CoolsDown(k)
  \/ \E ks \in SUBSET Keys : ForgetKeys(ks)

BreakerSpec == BreakerInit /\ [][BreakerNext]_breakerVars

-----------------------------------------------------------------------------

BreakerTypeOK ==
  /\ failures \in [Keys -> 0 .. Threshold]
  /\ circuit \in [Keys -> {"closed", "open", "cooled"}]
  /\ seen \in [Ops -> 0 .. Threshold]
  /\ through \subseteq Ops

\* The breaker refuses calls only after the failures it was configured for.
OpenMeansTripped == \A k \in Keys : circuit[k] # "closed" => failures[k] = Threshold

\* "half-open: allow one trial through" (line 57): an operation that enters a tripped
\* breaker is a trial, and there is one at a time.
Trials(k) == {o \in through : keyOf[o] = k /\ seen[o] = Threshold}
OneTrial == \A k \in Keys : \A o, p \in Trials(k) : o = p

=============================================================================
