----------------------------- MODULE RateLimit -----------------------------
(***************************************************************************)
(* The concurrency limiter, after rateLimit() of                           *)
(* packages/mcp-query/src/server/rateLimit.ts.                             *)
(*                                                                         *)
(* acquire() and release() run without interruption, so each is one        *)
(* action.  The code counts slots in `active` and never looks at who holds *)
(* them; slot[o] is where operation o is, which only its suspended call    *)
(* knows.  An operation past its interceptor may enter again.              *)
(***************************************************************************)
EXTENDS Naturals, SequencesExt, Buckets

CONSTANT Concurrency   \* opts.concurrency

ASSUME LimitAssumption == Concurrency \in Nat \ {0}

VARIABLES
  active,   \* per key: slots the limiter believes are taken
  queues,   \* per key: resolvers of the operations waiting for a slot
  slot      \* per operation: outside, waiting for a slot, or holding one

limitVars == <<active, queues, slot>>

LimitInit ==
  /\ active = [k \in Keys |-> 0]
  /\ queues = [k \in Keys |-> <<>>]
  /\ slot = [o \in Ops |-> "out"]

Acquire_OffByOne(o) ==               \* mutant: `n <= max`
  LET k == keyOf[o] IN
    /\ slot[o] = "out"
    /\ \/ /\ active[k] <= Concurrency
          /\ active' = [active EXCEPT ![k] = @ + 1]
          /\ slot' = [slot EXCEPT ![o] = "held"]
          /\ UNCHANGED queues
       \/ /\ active[k] > Concurrency
          /\ queues' = [queues EXCEPT ![k] = Append(@, o)]
          /\ slot' = [slot EXCEPT ![o] = "waiting"]
          /\ UNCHANGED active

\* acquire(): take a slot, or queue behind those who wait for one.
Acquire(o) ==
  LET k == keyOf[o] IN
    /\ slot[o] = "out"
    /\ \/ /\ active[k] < Concurrency
          /\ active' = [active EXCEPT ![k] = @ + 1]
          /\ slot' = [slot EXCEPT ![o] = "held"]
          /\ UNCHANGED queues
       \/ /\ active[k] >= Concurrency
          /\ queues' = [queues EXCEPT ![k] = Append(@, o)]
          /\ slot' = [slot EXCEPT ![o] = "waiting"]
          /\ UNCHANGED active

Release_Forgets(o) ==                \* mutant: free the slot without waking a waiter
  LET k == keyOf[o] IN
    /\ slot[o] = "held"
    /\ active' = [active EXCEPT ![k] = IF @ = 0 THEN 0 ELSE @ - 1]
    /\ slot' = [slot EXCEPT ![o] = "out"]
    /\ UNCHANGED queues

Release_Twice(o) ==                  \* mutant: hand the slot over and free it as well
  LET k == keyOf[o] IN
    /\ slot[o] = "held"
    /\ active' = [active EXCEPT ![k] = IF @ = 0 THEN 0 ELSE @ - 1]
    /\ IF queues[k] = <<>>
       THEN slot' = [slot EXCEPT ![o] = "out"] /\ UNCHANGED queues
       ELSE /\ queues' = [queues EXCEPT ![k] = Tail(@)]
            /\ slot' = [slot EXCEPT ![o] = "out", ![Head(queues[k])] = "held"]

\* release(): hand the slot to the next waiter, or free it.  (After dropServer the count
\* may be 0 already: Math.max.)
Release(o) ==
  LET k == keyOf[o] IN
    /\ slot[o] = "held"
    /\ \/ /\ queues[k] # <<>>
          /\ queues' = [queues EXCEPT ![k] = Tail(@)]
          /\ slot' = [slot EXCEPT ![o] = "out", ![Head(queues[k])] = "held"]
          /\ UNCHANGED active
       \/ /\ queues[k] = <<>>
          /\ active' = [active EXCEPT ![k] = IF @ = 0 THEN 0 ELSE @ - 1]
          /\ slot' = [slot EXCEPT ![o] = "out"]
          /\ UNCHANGED queues

\* dropServer(): forget the keys ks of a server, whoever holds or awaits their slots.
DropKeys(ks) ==
  /\ active' = [k \in Keys |-> IF k \in ks THEN 0 ELSE active[k]]
  /\ queues' = [k \in Keys |-> IF k \in ks THEN <<>> ELSE queues[k]]
  /\ UNCHANGED slot

Inside(k) == {o \in Ops : keyOf[o] = k /\ slot[o] # "out"}

\* A limiter whose servers are removed only when no operation is on its way through.
LimitNext ==
  \/ \E o \in Ops : Acquire(o) \/ Release(o)
  \/ \E ks \in SUBSET Keys : (\A k \in ks : Inside(k) = {}) /\ DropKeys(ks)

LimitFairness == \A o \in Ops : WF_limitVars(Release(o))

LimitSpec == LimitInit /\ [][LimitNext]_limitVars /\ LimitFairness

-----------------------------------------------------------------------------

LimitTypeOK ==
  /\ active \in [Keys -> 0 .. Concurrency]
  /\ queues \in [Keys -> Seq(Ops)]
  /\ slot \in [Ops -> {"out", "waiting", "held"}]

Holders(k) == {o \in Ops : keyOf[o] = k /\ slot[o] = "held"}
Waiters(k) == {o \in Ops : keyOf[o] = k /\ slot[o] = "waiting"}

\* "cap in-flight operations per key": the count the limiter keeps is the number of
\* operations in flight, which never exceeds the cap.
CapHeld == \A k \in Keys : active[k] = Cardinality(Holders(k)) /\ active[k] <= Concurrency

\* Nobody waits while a slot is free, so a newcomer never overtakes the queue; and whoever
\* waits is in the queue, once.
NoIdleSlot == \A k \in Keys : queues[k] # <<>> => active[k] = Concurrency
WaitersQueued == \A k \in Keys : ToSet(queues[k]) = Waiters(k) /\ IsInjective(queues[k])

\* Every waiter gets a slot, when those who hold one finish.
WaitersServed == \A o \in Ops : slot[o] = "waiting" ~> slot[o] = "held"

=============================================================================
