------------------------ MODULE GovernedClientProofs ------------------------
(***************************************************************************)
(* Theorems about the limiter (RateLimit) and about the governed client   *)
(* that it is a part of (GovernedClient), for every set of operations and  *)
(* keys, every cap and threshold, and every set of configurations.         *)
(***************************************************************************)
EXTENDS GovernedClient, FiniteSetTheorems, TLAPS

-----------------------------------------------------------------------------
(* The limiter                                                             *)

LEMMA LimitTypeInit == LimitInit => LimitTypeOK
<1> SUFFICES ASSUME LimitInit PROVE LimitTypeOK
  OBVIOUS
<1>1. 0 \in 0 .. Concurrency /\ <<>> \in Seq(Ops)
  BY LimitAssumption, BucketAssumption DEF LimitAssumption, BucketAssumption
<1>2. QED
  BY <1>1 DEF LimitInit, LimitTypeOK

LEMMA LimitFacts ==
  Concurrency \in Nat \ {0} /\ IsFiniteSet(Ops) /\ \A o \in Ops : keyOf[o] \in Keys
BY LimitAssumption, BucketAssumption DEF LimitAssumption, BucketAssumption

LEMMA AcquireType ==
  ASSUME LimitTypeOK, NEW o \in Ops, Acquire(o)
  PROVE  LimitTypeOK'
<1> DEFINE k == keyOf[o]
<1>0. k \in Keys /\ active[k] \in 0 .. Concurrency /\ queues[k] \in Seq(Ops)
  BY LimitFacts DEF LimitTypeOK
<1>1. CASE /\ active[k] < Concurrency
           /\ active' = [active EXCEPT ![k] = @ + 1]
           /\ slot' = [slot EXCEPT ![o] = "held"]
           /\ UNCHANGED queues
  <2>1. active[k] + 1 \in 0 .. Concurrency
    BY <1>0, <1>1, LimitFacts
  <2>2. QED
    BY <1>1, <2>1 DEF LimitTypeOK
<1>2. CASE /\ queues' = [queues EXCEPT ![k] = Append(@, o)]
           /\ slot' = [slot EXCEPT ![o] = "waiting"]
           /\ UNCHANGED active
  <2>1. Append(queues[k], o) \in Seq(Ops)
    BY <1>0
  <2>2. QED
    BY <1>2, <2>1 DEF LimitTypeOK
<1>3. QED
  BY <1>1, <1>2 DEF Acquire

LEMMA ReleaseType ==
  ASSUME LimitTypeOK, NEW o \in Ops, Release(o)
  PROVE  LimitTypeOK'
<1> DEFINE k == keyOf[o]
<1>0. k \in Keys /\ active[k] \in 0 .. Concurrency /\ queues[k] \in Seq(Ops)
  BY LimitFacts DEF LimitTypeOK
<1>1. CASE /\ queues[k] # <<>>
           /\ queues' = [queues EXCEPT ![k] = Tail(@)]
           /\ slot' = [slot EXCEPT ![o] = "out", ![Head(queues[k])] = "held"]
           /\ UNCHANGED active
  <2>1. Tail(queues[k]) \in Seq(Ops) /\ Head(queues[k]) \in Ops
    BY <1>0, <1>1
  <2>2. QED
    BY <1>1, <2>1 DEF LimitTypeOK
<1>2. CASE /\ active' = [active EXCEPT ![k] = IF @ = 0 THEN 0 ELSE @ - 1]
           /\ slot' = [slot EXCEPT ![o] = "out"]
           /\ UNCHANGED queues
  <2>1. (IF active[k] = 0 THEN 0 ELSE active[k] - 1) \in 0 .. Concurrency
    BY <1>0, LimitFacts
  <2>2. QED
    BY <1>2, <2>1 DEF LimitTypeOK
<1>3. QED
  BY <1>1, <1>2 DEF Release

LEMMA DropType ==
  ASSUME LimitTypeOK, NEW ks, DropKeys(ks)
  PROVE  LimitTypeOK'
<1>1. 0 \in 0 .. Concurrency /\ <<>> \in Seq(Ops)
  BY LimitFacts
<1>2. QED
  BY <1>1 DEF LimitTypeOK, DropKeys

LEMMA LimitTypeNext == LimitTypeOK /\ [LimitNext]_limitVars => LimitTypeOK'
<1> SUFFICES ASSUME LimitTypeOK, [LimitNext]_limitVars PROVE LimitTypeOK'
  OBVIOUS
<1>1. CASE UNCHANGED limitVars
  BY <1>1 DEF limitVars, LimitTypeOK
<1>2. QED
  BY <1>1, AcquireType, ReleaseType, DropType DEF LimitNext

\* Counts, queues and slots keep their types; no count exceeds the cap.
THEOREM LimitTypeCorrect == LimitSpec => []LimitTypeOK
BY LimitTypeInit, LimitTypeNext, PTL DEF LimitSpec

-----------------------------------------------------------------------------
(* What queueing and handing over do to the set of waiters.                *)

LEMMA AppendFacts ==
  ASSUME NEW S, NEW q \in Seq(S), NEW x \in S
  PROVE  /\ Len(q) \in Nat /\ DOMAIN q = 1 .. Len(q) /\ DOMAIN Append(q, x) = 1 .. (Len(q) + 1)
         /\ \A i \in 1 .. Len(q) : i \in 1 .. (Len(q) + 1) /\ Append(q, x)[i] = q[i]
         /\ Append(q, x)[Len(q) + 1] = x /\ Len(q) + 1 \in 1 .. (Len(q) + 1)
         /\ \A i \in 1 .. (Len(q) + 1) : i \in 1 .. Len(q) \/ i = Len(q) + 1
OBVIOUS

LEMMA AppendSet ==
  ASSUME NEW S, NEW q \in Seq(S), NEW x \in S
  PROVE  ToSet(Append(q, x)) = ToSet(q) \cup {x}
<1>1. ToSet(Append(q, x)) \subseteq ToSet(q) \cup {x}
  BY AppendFacts DEF ToSet
<1>2. ToSet(q) \cup {x} \subseteq ToSet(Append(q, x))
  BY AppendFacts DEF ToSet
<1>3. QED
  BY <1>1, <1>2

LEMMA InjectiveAfterAppend ==
  ASSUME NEW S, NEW q \in Seq(S), NEW x \in S, IsInjective(q), \A i \in DOMAIN q : q[i] # x
  PROVE  IsInjective(Append(q, x))
<1>1. \A i \in 1 .. Len(q) : q[i] # x
  BY AppendFacts
<1>2. \A i, j \in 1 .. Len(q) : q[i] = q[j] => i = j
  BY AppendFacts DEF IsInjective
<1>3. \A i, j \in 1 .. (Len(q) + 1) : Append(q, x)[i] = Append(q, x)[j] => i = j
  BY <1>1, <1>2, AppendFacts
<1>4. QED
  BY <1>3, AppendFacts DEF IsInjective

LEMMA TailInjective ==
  ASSUME NEW S, NEW q \in Seq(S), q # <<>>, IsInjective(q)
  PROVE  /\ Head(q) \in ToSet(q)
         /\ ToSet(Tail(q)) = ToSet(q) \ {Head(q)} /\ IsInjective(Tail(q))
<1>1. /\ Len(q) \in Nat \ {0} /\ DOMAIN q = 1 .. Len(q) /\ Head(q) = q[1]
      /\ DOMAIN Tail(q) = 1 .. (Len(q) - 1)
      /\ \A i \in 1 .. (Len(q) - 1) : Tail(q)[i] = q[i + 1]
  OBVIOUS
<1>2. ToSet(Tail(q)) \subseteq ToSet(q) \ {Head(q)}
  BY <1>1 DEF ToSet, IsInjective
<1>3. ASSUME NEW x \in ToSet(q), x # Head(q) PROVE x \in ToSet(Tail(q))
  <2>1. PICK i \in 1 .. Len(q) : x = q[i]
    BY <1>1 DEF ToSet
  <2>2. i - 1 \in 1 .. (Len(q) - 1) /\ Tail(q)[i - 1] = q[i]
    BY <1>1, <1>3, <2>1
  <2>3. QED
    BY <1>1, <2>1, <2>2 DEF ToSet
<1>4. IsInjective(Tail(q))
  <2>1. \A i \in 1 .. (Len(q) - 1) : i + 1 \in 1 .. Len(q)
    BY <1>1
  <2>2. \A i, j \in 1 .. (Len(q) - 1) : i + 1 = j + 1 => i = j
    BY <1>1
  <2>3. QED
    BY <1>1, <2>1, <2>2 DEF IsInjective
<1>5. Head(q) \in ToSet(q)
  BY <1>1 DEF ToSet
<1>6. QED
  BY <1>2, <1>3, <1>4, <1>5

\* The inductive invariant: the count is the number of holders, and the queue is the
\* waiters, which there are only when no slot is free.
LimitInv == CapHeld /\ NoIdleSlot /\ WaitersQueued

LEMMA LimitInvInit == LimitInit => LimitInv
<1> SUFFICES ASSUME LimitInit PROVE LimitInv
  OBVIOUS
<1>1. \A k \in Keys : Holders(k) = {} /\ Waiters(k) = {} /\ queues[k] = <<>> /\ active[k] = 0
  BY DEF LimitInit, Holders, Waiters
<1>2. Cardinality({}) = 0
  BY FS_EmptySet
<1>3. ToSet(<<>>) = {} /\ IsInjective(<<>>)
  BY DEF ToSet, IsInjective
<1>4. CapHeld
  <2>1. 0 <= Concurrency
    BY LimitAssumption DEF LimitAssumption
  <2>2. \A k \in Keys : Cardinality(Holders(k)) = 0
    BY <1>1, <1>2
  <2>3. QED
    BY <1>1, <2>1, <2>2 DEF CapHeld
<1>5. NoIdleSlot /\ WaitersQueued
  BY <1>1, <1>3 DEF NoIdleSlot, WaitersQueued
<1>6. QED
  BY <1>4, <1>5 DEF LimitInv

LEMMA HoldersFinite == \A k : IsFiniteSet(Holders(k)) /\ IsFiniteSet(Holders(k)')
<1> TAKE k
<1>1. Holders(k) \subseteq Ops /\ Holders(k)' \subseteq Ops
  BY DEF Holders
<1>2. QED
  BY <1>1, FS_Subset, LimitAssumption, BucketAssumption DEF LimitAssumption, BucketAssumption

LEMMA AcquireKeeps ==
  ASSUME LimitTypeOK, LimitInv, NEW o \in Ops, Acquire(o)
  PROVE  LimitInv'
<1> DEFINE k == keyOf[o]
<1>0. /\ k \in Keys /\ active[k] \in 0 .. Concurrency /\ Concurrency \in Nat \ {0}
      /\ queues[k] \in Seq(Ops) /\ slot \in [Ops -> {"out", "waiting", "held"}]
      /\ active \in [Keys -> 0 .. Concurrency] /\ queues \in [Keys -> Seq(Ops)] /\ slot[o] = "out"
  BY LimitAssumption, BucketAssumption DEF LimitTypeOK, LimitAssumption, BucketAssumption, Acquire
<1>1. CASE /\ active[k] < Concurrency
           /\ active' = [active EXCEPT ![k] = @ + 1]
           /\ slot' = [slot EXCEPT ![o] = "held"]
           /\ UNCHANGED queues
  <2>1. /\ Holders(k)' = Holders(k) \cup {o} /\ o \notin Holders(k)
        /\ \A l \in Keys \ {k} : Holders(l)' = Holders(l)
        /\ \A l \in Keys : Waiters(l)' = Waiters(l)
    BY <1>0, <1>1 DEF Holders, Waiters
  <2>2. Cardinality(Holders(k)') = Cardinality(Holders(k)) + 1
    BY <2>1, HoldersFinite, FS_AddElement, ZenonT(30)
  <2>3. CapHeld'
    <3>1. active'[k] = Cardinality(Holders(k)') /\ active'[k] <= Concurrency
      BY <1>0, <1>1, <2>2 DEF LimitInv, CapHeld
    <3>2. \A l \in Keys \ {k} : active'[l] = active[l] /\ Cardinality(Holders(l)') = Cardinality(Holders(l))
      BY <1>0, <1>1, <2>1
    <3>3. \A l \in Keys : active'[l] = Cardinality(Holders(l)') /\ active'[l] <= Concurrency
      BY <3>1, <3>2 DEF LimitInv, CapHeld
    <3>4. QED
      BY <3>3 DEF CapHeld
  <2>4. queues[k] = <<>>
    BY <1>0, <1>1 DEF LimitInv, NoIdleSlot
  <2>5. NoIdleSlot'
    BY <1>0, <1>1, <2>4 DEF LimitInv, NoIdleSlot
  <2>6. WaitersQueued'
    BY <1>1, <2>1 DEF LimitInv, WaitersQueued
  <2>7. QED
    BY <2>3, <2>5, <2>6 DEF LimitInv
<1>2. CASE /\ active[k] >= Concurrency
           /\ queues' = [queues EXCEPT ![k] = Append(@, o)]
           /\ slot' = [slot EXCEPT ![o] = "waiting"]
           /\ UNCHANGED active
  <2>1. /\ Waiters(k)' = Waiters(k) \cup {o} /\ o \notin Waiters(k)
        /\ \A l \in Keys \ {k} : Waiters(l)' = Waiters(l)
        /\ \A l \in Keys : Holders(l)' = Holders(l)
    BY <1>0, <1>2 DEF Holders, Waiters
  <2>2. CapHeld'
    BY <1>2, <2>1 DEF LimitInv, CapHeld
  <2>3. NoIdleSlot'
    BY <1>0, <1>2 DEF LimitInv, NoIdleSlot
  <2>4. ToSet(queues[k]) = Waiters(k) /\ IsInjective(queues[k])
    BY <1>0 DEF LimitInv, WaitersQueued
  <2>5. ToSet(queues'[k]) = Waiters(k)' /\ IsInjective(queues'[k])
    <3>1. queues'[k] = Append(queues[k], o)
      BY <1>0, <1>2
    <3>2. ToSet(Append(queues[k], o)) = ToSet(queues[k]) \cup {o}
      BY <1>0, AppendSet
    <3>3. IsInjective(Append(queues[k], o))
      <4>1. \A i \in DOMAIN queues[k] : queues[k][i] # o
        BY <2>1, <2>4 DEF ToSet
      <4>2. QED
        BY <1>0, <2>4, <4>1, InjectiveAfterAppend
    <3>4. QED
      BY <2>1, <2>4, <3>1, <3>2, <3>3
  <2>6. WaitersQueued'
    BY <1>0, <1>2, <2>1, <2>5 DEF LimitInv, WaitersQueued
  <2>7. QED
    BY <2>2, <2>3, <2>6 DEF LimitInv
<1>3. QED
  BY <1>1, <1>2 DEF Acquire

LEMMA ReleaseKeeps ==
  ASSUME LimitTypeOK, LimitInv, NEW o \in Ops, Release(o)
  PROVE  LimitInv'
<1> DEFINE k == keyOf[o]
<1>0. /\ k \in Keys /\ active[k] \in 0 .. Concurrency /\ Concurrency \in Nat \ {0}
      /\ queues[k] \in Seq(Ops) /\ slot \in [Ops -> {"out", "waiting", "held"}]
      /\ active \in [Keys -> 0 .. Concurrency] /\ queues \in [Keys -> Seq(Ops)] /\ slot[o] = "held"
      /\ o \in Holders(k)
  BY LimitAssumption, BucketAssumption DEF LimitTypeOK, LimitAssumption, BucketAssumption, Release, Holders
<1>1. ToSet(queues[k]) = Waiters(k) /\ IsInjective(queues[k])
  BY <1>0 DEF LimitInv, WaitersQueued
<1>2. CASE /\ queues[k] # <<>>
           /\ queues' = [queues EXCEPT ![k] = Tail(@)]
           /\ slot' = [slot EXCEPT ![o] = "out", ![Head(queues[k])] = "held"]
           /\ UNCHANGED active
  <2> DEFINE h == Head(queues[k])
  <2>1. h \in Waiters(k) /\ ToSet(Tail(queues[k])) = Waiters(k) \ {h} /\ IsInjective(Tail(queues[k]))
    BY <1>0, <1>1, <1>2, TailInjective
  <2>2. h \in Ops /\ keyOf[h] = k /\ slot[h] = "waiting" /\ h # o
    BY <1>0, <2>1 DEF Waiters
  <2>3. /\ Holders(k)' = (Holders(k) \ {o}) \cup {h} /\ h \notin Holders(k)
        /\ Waiters(k)' = Waiters(k) \ {h}
        /\ \A l \in Keys \ {k} : Holders(l)' = Holders(l) /\ Waiters(l)' = Waiters(l)
    BY <1>0, <1>2, <2>2 DEF Holders, Waiters
  <2>4. Cardinality(Holders(k)') = Cardinality(Holders(k))
    <3>1. IsFiniteSet(Holders(k)) /\ IsFiniteSet(Holders(k) \ {o})
      BY HoldersFinite, FS_Difference, FS_Singleton
    <3>2. Cardinality(Holders(k) \ {o}) = Cardinality(Holders(k)) - 1
      BY <1>0, <3>1, FS_RemoveElement
    <3>3. Cardinality((Holders(k) \ {o}) \cup {h}) = Cardinality(Holders(k) \ {o}) + 1
      BY <2>3, <3>1, FS_AddElement
    <3>4. Cardinality(Holders(k)) \in Nat
      BY <3>1, FS_CardinalityType
    <3>5. QED
      BY <2>3, <3>2, <3>3, <3>4
  <2>5. CapHeld'
    BY <1>2, <2>3, <2>4 DEF LimitInv, CapHeld
  <2>6. NoIdleSlot'
    BY <1>0, <1>2 DEF LimitInv, NoIdleSlot
  <2>7. WaitersQueued'
    BY <1>0, <1>2, <2>1, <2>3 DEF LimitInv, WaitersQueued
  <2>8. QED
    BY <2>5, <2>6, <2>7 DEF LimitInv
<1>3. CASE /\ queues[k] = <<>>
           /\ active' = [active EXCEPT ![k] = IF @ = 0 THEN 0 ELSE @ - 1]
           /\ slot' = [slot EXCEPT ![o] = "out"]
           /\ UNCHANGED queues
  <2>1. /\ Holders(k)' = Holders(k) \ {o}
        /\ \A l \in Keys \ {k} : Holders(l)' = Holders(l)
        /\ \A l \in Keys : Waiters(l)' = Waiters(l)
    BY <1>0, <1>3 DEF Holders, Waiters
  <2>2. Cardinality(Holders(k)') = Cardinality(Holders(k)) - 1 /\ Cardinality(Holders(k)) \in Nat
    BY <1>0, <2>1, HoldersFinite, FS_RemoveElement, FS_CardinalityType
  <2>3. active[k] # 0
    <3>1. Cardinality(Holders(k)) # 0
      BY <1>0, HoldersFinite, FS_EmptySet
    <3>2. QED
      BY <1>0, <3>1 DEF LimitInv, CapHeld
  <2>4. CapHeld'
    <3>1. active'[k] = active[k] - 1
      BY <1>0, <1>3, <2>3
    <3>2. active'[k] = Cardinality(Holders(k)') /\ active'[k] <= Concurrency
      BY <1>0, <2>2, <3>1 DEF LimitInv, CapHeld
    <3>3. \A l \in Keys \ {k} : active'[l] = active[l] /\ Cardinality(Holders(l)') = Cardinality(Holders(l))
      BY <1>0, <1>3, <2>1
    <3>4. \A l \in Keys : active'[l] = Cardinality(Holders(l)') /\ active'[l] <= Concurrency
      BY <3>2, <3>3 DEF LimitInv, CapHeld
    <3>5. QED
      BY <3>4 DEF CapHeld
  <2>5. NoIdleSlot'
    BY <1>0, <1>3 DEF LimitInv, NoIdleSlot
  <2>6. WaitersQueued'
    BY <1>3, <2>1 DEF LimitInv, WaitersQueued
  <2>7. QED
    BY <2>4, <2>5, <2>6 DEF LimitInv
<1>4. QED
  BY <1>2, <1>3 DEF Release

LEMMA DropKeeps ==
  ASSUME LimitTypeOK, LimitInv, NEW ks \in SUBSET Keys, \A k \in ks : Inside(k) = {}, DropKeys(ks)
  PROVE  LimitInv'
<1>1. \A k \in Keys : Holders(k)' = Holders(k) /\ Waiters(k)' = Waiters(k)
  BY DEF DropKeys, Holders, Waiters
<1>2. \A k \in ks : Holders(k) = {} /\ Waiters(k) = {}
  BY DEF Inside, Holders, Waiters
<1>3. Cardinality({}) = 0 /\ ToSet(<<>>) = {} /\ IsInjective(<<>>)
  BY FS_EmptySet DEF ToSet, IsInjective
<1>4. CapHeld'
  BY <1>1, <1>2, <1>3, LimitAssumption DEF DropKeys, LimitInv, CapHeld, LimitAssumption
<1>5. NoIdleSlot'
  BY DEF DropKeys, LimitInv, NoIdleSlot
<1>6. WaitersQueued'
  BY <1>1, <1>2, <1>3 DEF DropKeys, LimitInv, WaitersQueued
<1>7. QED
  BY <1>4, <1>5, <1>6 DEF LimitInv

LEMMA LimitInvariant == LimitSpec => []LimitInv
<1>1. LimitTypeOK /\ LimitInv /\ [LimitNext]_limitVars => LimitInv'
  <2> SUFFICES ASSUME LimitTypeOK, LimitInv, [LimitNext]_limitVars PROVE LimitInv'
    OBVIOUS
  <2>1. CASE UNCHANGED limitVars
    BY <2>1 DEF limitVars, LimitInv, CapHeld, NoIdleSlot, WaitersQueued, Holders, Waiters
  <2>2. QED
    BY <2>1, AcquireKeeps, ReleaseKeeps, DropKeeps DEF LimitNext
<1>2. QED
  BY <1>1, LimitInvInit, LimitTypeCorrect, PTL DEF LimitSpec

\* "cap in-flight operations per key and queue the rest": whatever the interleaving of
\* arrivals, endings and removals of idle servers, the limiter's count is the number of
\* operations in flight, and it stays within the cap.
THEOREM CapIsHeld == LimitSpec => []CapHeld
<1>1. LimitInv => CapHeld
  BY DEF LimitInv
<1>2. QED
  BY <1>1, LimitInvariant, PTL

\* No slot idles while an operation waits for it, so no newcomer overtakes the queue.
THEOREM NoSlotIdles == LimitSpec => []NoIdleSlot
<1>1. LimitInv => NoIdleSlot
  BY DEF LimitInv
<1>2. QED
  BY <1>1, LimitInvariant, PTL

\* Whoever waits is in the queue of its key, once: no waiter is lost or served twice.
THEOREM NoWaiterLost == LimitSpec => []WaitersQueued
<1>1. LimitInv => WaitersQueued
  BY DEF LimitInv
<1>2. QED
  BY <1>1, LimitInvariant, PTL

-----------------------------------------------------------------------------
(* The governed client                                                     *)

OwnTypeOK ==
  /\ config \in Configs
  /\ stage \in [Ops -> {"idle", "policy", "asking", "limited", "recording"}]
  /\ result \in [Ops -> {"none", "ok", "error"}]
  /\ drain \in {"off", "waiting", "done"}
  /\ awaited \subseteq Ops
  /\ upstream \in {"up", "closed", "gone"}
  /\ faults \in 0 .. config.maxFaults

LEMMA TypeParts == TypeOK <=> OwnTypeOK /\ LimitTypeOK /\ BreakerTypeOK
BY DEF TypeOK, OwnTypeOK

LEMMA TypeJoins == OwnTypeOK' /\ LimitTypeOK' /\ BreakerTypeOK' => TypeOK'
BY DEF TypeOK, OwnTypeOK

LEMMA BreakerFacts == Threshold \in Nat \ {0}
BY BreakerAssumption DEF BreakerAssumption

LEMMA InitType == Init => TypeOK
<1> SUFFICES ASSUME Init PROVE TypeOK
  OBVIOUS
<1>1. OwnTypeOK
  <2>1. config.maxFaults \in Nat
    BY GateAssumption DEF Init, GateAssumption, ConfigType
  <2>2. 0 \in 0 .. config.maxFaults
    BY <2>1
  <2>3. QED
    BY <2>2 DEF Init, OwnTypeOK
<1>2. LimitTypeOK
  BY LimitTypeInit DEF Init
<1>3. BreakerTypeOK
  <2>1. 0 \in 0 .. Threshold
    BY BreakerFacts
  <2>2. QED
    BY <2>1 DEF Init, BreakerInit, BreakerTypeOK
<1>4. QED
  BY <1>1, <1>2, <1>3, TypeParts

-----------------------------------------------------------------------------
(* The breaker.                                                            *)

BreakerInv == BreakerTypeOK /\ OpenMeansTripped

LEMMA AdmitKeeps ==
  ASSUME BreakerInv, NEW o \in Ops, Admit(o)
  PROVE  BreakerInv'
BY BucketAssumption DEF BucketAssumption, BreakerInv, BreakerTypeOK, OpenMeansTripped, Admit

LEMMA SucceedKeeps ==
  ASSUME BreakerInv, NEW o \in Ops, Succeed(o)
  PROVE  BreakerInv'
<1>1. 0 \in 0 .. Threshold
  BY BreakerFacts
<1>2. QED
  BY <1>1 DEF BreakerInv, BreakerTypeOK, OpenMeansTripped, Succeed

LEMMA FailKeeps ==
  ASSUME BreakerInv, NEW o \in Ops, Fail(o)
  PROVE  BreakerInv'
<1>1. Threshold \in Nat \ {0} /\ 0 \in 0 .. Threshold /\ seen[o] \in 0 .. Threshold
  BY BreakerFacts DEF BreakerInv, BreakerTypeOK
<1>2. Counted(seen[o]) \in 0 .. Threshold /\ (seen[o] + 1 >= Threshold => Counted(seen[o]) = Threshold)
  BY <1>1 DEF Counted
<1>3. BreakerTypeOK'
  BY <1>1, <1>2 DEF BreakerInv, BreakerTypeOK, Fail
<1>4. OpenMeansTripped'
  <2> SUFFICES ASSUME NEW k \in Keys, circuit'[k] # "closed" PROVE failures'[k] = Threshold
    BY DEF OpenMeansTripped
  <2>1. CASE k = keyOf[o]
    BY <1>2, <2>1 DEF BreakerInv, BreakerTypeOK, Fail
  <2>2. CASE k # keyOf[o]
    BY <2>2 DEF BreakerInv, BreakerTypeOK, OpenMeansTripped, Fail
  <2>3. QED
    BY <2>1, <2>2
<1>5. QED
  BY <1>3, <1>4 DEF BreakerInv

LEMMA CoolsDownKeeps ==
  ASSUME BreakerInv, NEW k \in Keys, CoolsDown(k)
  PROVE  BreakerInv'
BY DEF BreakerInv, BreakerTypeOK, OpenMeansTripped, CoolsDown

LEMMA ForgetKeeps ==
  ASSUME BreakerInv, NEW ks, ForgetKeys(ks)
  PROVE  BreakerInv'
<1>1. 0 \in 0 .. Threshold
  BY BreakerFacts
<1>2. QED
  BY <1>1 DEF BreakerInv, BreakerTypeOK, OpenMeansTripped, ForgetKeys

LEMMA BreakerStutters == BreakerInv /\ UNCHANGED breakerVars => BreakerInv'
BY DEF BreakerInv, BreakerTypeOK, OpenMeansTripped, breakerVars

LEMMA LimitStutters == LimitTypeOK /\ UNCHANGED limitVars => LimitTypeOK'
BY DEF LimitTypeOK, limitVars

-----------------------------------------------------------------------------
(* Every variable keeps its type.                                          *)

LEMMA MovesType ==
  ASSUME OwnTypeOK, NEW o \in Ops, NEW from,
         NEW to \in {"idle", "policy", "asking", "limited", "recording"}, Moves(o, from, to)
  PROVE  stage' \in [Ops -> {"idle", "policy", "asking", "limited", "recording"}]
BY DEF OwnTypeOK, Moves

LEMMA SettlesType ==
  ASSUME OwnTypeOK, NEW o \in Ops, NEW from, Settles(o, from)
  PROVE  /\ stage' \in [Ops -> {"idle", "policy", "asking", "limited", "recording"}]
         /\ awaited' \subseteq Ops
BY MovesType DEF OwnTypeOK, Settles

\* The steps that touch neither the limiter nor the breaker.
LEMMA PlainType ==
  ASSUME TypeOK, BreakerInv, NEW o \in Ops,
         Call(o) \/ Denies(o) \/ Ask(o) \/ Rejects(o) \/ TimesOut(o)
  PROVE  TypeOK' /\ BreakerInv'
<1>1. OwnTypeOK'
  BY TypeParts, MovesType, SettlesType DEF OwnTypeOK, Call, Denies, Ask, Rejects, TimesOut
<1>2. UNCHANGED limitVars /\ UNCHANGED breakerVars
  BY DEF Call, Denies, Ask, Rejects, TimesOut
<1>3. QED
  BY <1>1, <1>2, TypeParts, TypeJoins, LimitStutters, BreakerStutters DEF BreakerInv

LEMMA EntersType ==
  ASSUME TypeOK, BreakerInv, NEW o \in Ops, NEW from, Enters(o, from)
  PROVE  TypeOK' /\ BreakerInv'
<1>1. OwnTypeOK'
  BY TypeParts, MovesType, SettlesType DEF OwnTypeOK, Enters
<1>2. LimitTypeOK'
  BY TypeParts, AcquireType, LimitStutters DEF Enters
<1>3. BreakerInv'
  BY AdmitKeeps, BreakerStutters DEF Enters
<1>4. QED
  BY <1>1, <1>2, <1>3, TypeParts, TypeJoins DEF BreakerInv

LEMMA EndsType ==
  ASSUME TypeOK, BreakerInv, NEW o \in Ops, Answered(o) \/ Fails(o)
  PROVE  TypeOK' /\ BreakerInv'
<1>1. PICK r \in {"ok", "error"} : Ends(o, r)
  BY DEF Answered, Fails
<1>2. faults' \in 0 .. config.maxFaults
  <2>1. config.maxFaults \in Nat /\ faults \in 0 .. config.maxFaults
    BY TypeParts, GateAssumption DEF OwnTypeOK, GateAssumption, ConfigType
  <2>2. faults' = faults \/ (faults < config.maxFaults /\ faults' = faults + 1)
    BY DEF Answered, Fails
  <2>3. QED
    BY <2>1, <2>2
<1>3. OwnTypeOK'
  BY <1>1, <1>2, TypeParts, MovesType DEF OwnTypeOK, Ends
<1>4. LimitTypeOK'
  BY <1>1, TypeParts, ReleaseType DEF Ends
<1>5. BreakerInv'
  BY <1>1, BreakerStutters DEF Ends
<1>6. QED
  BY <1>3, <1>4, <1>5, TypeParts, TypeJoins DEF BreakerInv

LEMMA RecordsType ==
  ASSUME TypeOK, BreakerInv, NEW o \in Ops, Records(o)
  PROVE  TypeOK' /\ BreakerInv'
<1>1. OwnTypeOK'
  BY TypeParts, SettlesType DEF OwnTypeOK, Records
<1>2. LimitTypeOK'
  BY TypeParts, LimitStutters DEF Records
<1>3. BreakerInv'
  BY SucceedKeeps, FailKeeps DEF Records
<1>4. QED
  BY <1>1, <1>2, <1>3, TypeParts, TypeJoins DEF BreakerInv

LEMMA NextType == TypeOK /\ BreakerInv /\ [Next]_vars => TypeOK' /\ BreakerInv'
<1> SUFFICES ASSUME TypeOK, BreakerInv, [Next]_vars PROVE TypeOK' /\ BreakerInv'
  OBVIOUS
<1>1. ASSUME NEW o \in Ops, Call(o) \/ OpStep(o) \/ Approves(o) \/ Rejects(o)
      PROVE  TypeOK' /\ BreakerInv'
  BY <1>1, PlainType, EntersType, EndsType, RecordsType DEF OpStep, Allows, Approves
<1>2. ASSUME NEW k \in Keys, CooldownEnds(k) PROVE TypeOK' /\ BreakerInv'
  <2>1. OwnTypeOK' /\ LimitTypeOK'
    BY <1>2, TypeParts, LimitStutters DEF OwnTypeOK, CooldownEnds
  <2>2. QED
    BY <1>2, <2>1, TypeParts, TypeJoins, CoolsDownKeeps DEF CooldownEnds, BreakerInv
<1>3. CASE RemoveCalled \/ DrainCalled \/ DrainReturns
  <2>1. OwnTypeOK'
    BY <1>3, TypeParts DEF OwnTypeOK, RemoveCalled, DrainCalled, DrainReturns
  <2>2. UNCHANGED limitVars /\ UNCHANGED breakerVars
    BY <1>3 DEF RemoveCalled, DrainCalled, DrainReturns
  <2>3. QED
    BY <2>1, <2>2, TypeParts, TypeJoins, LimitStutters, BreakerStutters DEF BreakerInv
<1>4. CASE RemoveDrops
  <2>1. OwnTypeOK'
    BY <1>4, TypeParts DEF OwnTypeOK, RemoveDrops
  <2>2. QED
    BY <1>4, <2>1, TypeParts, TypeJoins, DropType, ForgetKeeps DEF RemoveDrops, BreakerInv
<1>5. CASE UNCHANGED vars
  BY <1>5, TypeParts, TypeJoins, LimitStutters, BreakerStutters DEF vars, OwnTypeOK, BreakerInv
<1>6. QED
  BY <1>1, <1>2, <1>3, <1>4, <1>5 DEF Next

LEMMA TypeInvariant == Spec => [](TypeOK /\ BreakerInv)
<1>1. Init => BreakerInv
  <2>1. Init => OpenMeansTripped
    BY DEF Init, BreakerInit, OpenMeansTripped
  <2>2. QED
    BY <2>1, InitType, TypeParts DEF BreakerInv
<1>2. QED
  BY <1>1, InitType, NextType, PTL DEF Spec

\* Every variable keeps its type: whatever the interceptors do to each other, the limiter's
\* count stays within the cap and the breaker's within the threshold.
THEOREM TypeCorrect == Spec => []TypeOK
BY TypeInvariant, PTL

\* The breaker refuses calls only with the configured number of failures on record, also
\* when operations that read older counts end late, and when the upstream is removed.
THEOREM BreakerHonest == Spec => []OpenMeansTripped
<1>1. BreakerInv => OpenMeansTripped
  BY DEF BreakerInv
<1>2. QED
  BY <1>1, TypeInvariant, PTL

-----------------------------------------------------------------------------
(* What drain() has found in flight.                                       *)

DrainFacts ==
  /\ drain # "off" => awaited = {o \in Ops : stage[o] # "idle"}
  /\ drain = "off" => awaited = {}
  /\ drain = "done" => awaited = {}

LEMMA MovesDrain ==
  ASSUME TypeOK, DrainFacts, NEW o \in Ops, NEW from \in {"policy", "asking", "limited"},
         NEW to \in {"asking", "limited", "recording"}, Moves(o, from, to),
         UNCHANGED <<drain, awaited>>
  PROVE  DrainFacts'
BY DEF TypeOK, DrainFacts, Moves

LEMMA SettlesDrain ==
  ASSUME TypeOK, DrainFacts, NEW o \in Ops, NEW from, Settles(o, from), UNCHANGED drain
  PROVE  DrainFacts'
BY DEF TypeOK, DrainFacts, Settles, Moves

LEMMA NextDrain == TypeOK /\ DrainFacts /\ [Next]_vars => DrainFacts'
<1> SUFFICES ASSUME TypeOK, DrainFacts, [Next]_vars PROVE DrainFacts'
  OBVIOUS
<1>1. ASSUME NEW o \in Ops, Call(o) PROVE DrainFacts'
  BY <1>1 DEF Call, DrainFacts
<1>2. ASSUME NEW o \in Ops, Denies(o) \/ Rejects(o) \/ TimesOut(o) \/ Records(o) PROVE DrainFacts'
  BY <1>2, SettlesDrain DEF Denies, Rejects, TimesOut, Records
<1>3. ASSUME NEW o \in Ops, Ask(o) \/ Answered(o) \/ Fails(o) PROVE DrainFacts'
  BY <1>3, MovesDrain DEF Ask, Answered, Fails, Ends
<1>4. ASSUME NEW o \in Ops, Allows(o) \/ Approves(o) PROVE DrainFacts'
  BY <1>4, MovesDrain, SettlesDrain DEF Allows, Approves, Enters
<1>5. CASE DrainCalled \/ DrainReturns
  BY <1>5 DEF DrainCalled, DrainReturns, DrainFacts
<1>6. CASE (\E k \in Keys : CooldownEnds(k)) \/ RemoveCalled \/ RemoveDrops \/ UNCHANGED vars
  BY <1>6 DEF CooldownEnds, RemoveCalled, RemoveDrops, vars, DrainFacts
<1>7. QED
  BY <1>1, <1>2, <1>3, <1>4, <1>5, <1>6 DEF Next, OpStep

\* "refuse new ops, await in-flight, then close": when drain() goes on to close the
\* connections, no operation is in flight, at whichever interceptor it was suspended.
THEOREM DrainIsQuiet == Spec => []DrainedIsQuiet
<1>1. Init => DrainFacts
  BY DEF Init, DrainFacts
<1>2. TypeOK /\ DrainFacts => DrainedIsQuiet
  BY DEF DrainFacts, DrainedIsQuiet
<1>3. QED
  BY <1>1, <1>2, NextDrain, TypeCorrect, PTL DEF Spec

-----------------------------------------------------------------------------
(* Where an operation is: in the stages of its call, in the limiter, and   *)
(* in the breaker.                                                         *)

\* An operation is at the limiter only while its call is suspended there, and counts for
\* the breaker from there on; a queue holds operations of its key that wait, each once.
StageFacts ==
  /\ \A o \in Ops : stage[o] \in {"idle", "policy", "asking"} => slot[o] = "out" /\ o \notin through
  /\ \A o \in Ops : stage[o] = "recording" => slot[o] = "out"
QueueFacts ==
  \A k \in Keys :
    /\ \A i \in DOMAIN queues[k] : slot[queues[k][i]] = "waiting" /\ keyOf[queues[k][i]] = k
    /\ IsInjective(queues[k])
PlaceInv == StageFacts /\ QueueFacts

LEMMA AcquireQueues ==
  ASSUME LimitTypeOK, QueueFacts, NEW o \in Ops, Acquire(o)
  PROVE  QueueFacts' /\ \A p \in Ops : p # o => slot'[p] = slot[p]
<1> DEFINE k == keyOf[o]
<1>0. k \in Keys /\ queues[k] \in Seq(Ops)
  BY LimitFacts DEF LimitTypeOK
<1>1. \A p \in Ops : p # o => slot'[p] = slot[p]
  BY DEF LimitTypeOK, Acquire
<1>2. \A l \in Keys : \A i \in DOMAIN queues[l] : queues[l][i] \in Ops /\ queues[l][i] # o
  BY DEF LimitTypeOK, QueueFacts, Acquire
<1>3. CASE UNCHANGED queues
  BY <1>1, <1>2, <1>3 DEF QueueFacts
<1>4. CASE queues' = [queues EXCEPT ![k] = Append(@, o)] /\ slot' = [slot EXCEPT ![o] = "waiting"]
  <2>1. queues'[k] = Append(queues[k], o) /\ slot'[o] = "waiting"
    BY <1>0, <1>4 DEF LimitTypeOK
  <2>2. ASSUME NEW i \in DOMAIN Append(queues[k], o)
        PROVE  Append(queues[k], o)[i] = o \/ (i \in DOMAIN queues[k] /\ Append(queues[k], o)[i] = queues[k][i])
    BY <1>0, AppendFacts
  <2>3. \A i \in DOMAIN queues'[k] : slot'[queues'[k][i]] = "waiting" /\ keyOf[queues'[k][i]] = k
    BY <1>0, <1>1, <1>2, <2>1, <2>2 DEF QueueFacts
  <2>4. IsInjective(queues'[k])
    BY <1>0, <1>2, <2>1, InjectiveAfterAppend DEF QueueFacts
  <2>5. \A l \in Keys \ {k} : queues'[l] = queues[l]
    BY <1>4 DEF LimitTypeOK
  <2>6. ASSUME NEW l \in Keys
        PROVE  /\ \A i \in DOMAIN queues'[l] : slot'[queues'[l][i]] = "waiting" /\ keyOf[queues'[l][i]] = l
               /\ IsInjective(queues'[l])
    BY <1>1, <1>2, <2>3, <2>4, <2>5 DEF QueueFacts
  <2>7. QED
    BY <1>1, <2>6 DEF QueueFacts
<1>5. QED
  BY <1>1, <1>3, <1>4 DEF Acquire

LEMMA ReleaseQueues ==
  ASSUME LimitTypeOK, QueueFacts, NEW o \in Ops, Release(o)
  PROVE  /\ QueueFacts' /\ slot'[o] = "out"
         /\ \A p \in Ops : slot[p] = "out" => slot'[p] = "out"
<1> DEFINE k == keyOf[o]
           h == Head(queues[k])
<1>0. k \in Keys /\ queues[k] \in Seq(Ops) /\ slot \in [Ops -> {"out", "waiting", "held"}]
  BY LimitFacts DEF LimitTypeOK
<1>1. \A l \in Keys : \A i \in DOMAIN queues[l] : queues[l][i] \in Ops /\ queues[l][i] # o
  BY DEF LimitTypeOK, QueueFacts, Release
<1>2. CASE /\ queues[k] # <<>>
           /\ queues' = [queues EXCEPT ![k] = Tail(@)]
           /\ slot' = [slot EXCEPT ![o] = "out", ![h] = "held"]
  <2>1. 1 \in DOMAIN queues[k] /\ h = queues[k][1]
    BY <1>0, <1>2
  <2>2. h \in Ops /\ h # o /\ slot[h] = "waiting" /\ keyOf[h] = k
    BY <1>0, <1>1, <2>1 DEF QueueFacts
  <2>3. slot'[o] = "out" /\ \A p \in Ops : p # o /\ p # h => slot'[p] = slot[p]
    BY <1>0, <1>2, <2>2
  <2>4. queues'[k] = Tail(queues[k]) /\ \A l \in Keys \ {k} : queues'[l] = queues[l]
    BY <1>0, <1>2 DEF LimitTypeOK
  <2>5. IsInjective(Tail(queues[k])) /\ ToSet(Tail(queues[k])) = ToSet(queues[k]) \ {h}
    BY <1>0, <1>2, TailInjective DEF QueueFacts
  <2>6. ASSUME NEW i \in DOMAIN Tail(queues[k])
        PROVE  Tail(queues[k])[i] # h /\ \E j \in DOMAIN queues[k] : Tail(queues[k])[i] = queues[k][j]
    BY <2>5 DEF ToSet
  <2>7. ASSUME NEW l \in Keys
        PROVE  /\ \A i \in DOMAIN queues'[l] : slot'[queues'[l][i]] = "waiting" /\ keyOf[queues'[l][i]] = l
               /\ IsInjective(queues'[l])
    <3>1. CASE l = k
      <4>1. ASSUME NEW i \in DOMAIN Tail(queues[k])
            PROVE  slot'[Tail(queues[k])[i]] = "waiting" /\ keyOf[Tail(queues[k])[i]] = k
        <5>1. PICK j \in DOMAIN queues[k] : Tail(queues[k])[i] = queues[k][j]
          BY <2>6
        <5>2. queues[k][j] # h /\ queues[k][j] # o /\ queues[k][j] \in Ops
          BY <1>0, <1>1, <2>6, <5>1
        <5>3. slot[queues[k][j]] = "waiting" /\ keyOf[queues[k][j]] = k
          BY <1>0 DEF QueueFacts
        <5>4. QED
          BY <2>3, <5>1, <5>2, <5>3
      <4>2. QED
        BY <2>4, <2>5, <3>1, <4>1
    <3>2. CASE l # k
      <4>1. \A i \in DOMAIN queues[l] : queues[l][i] # h
        BY <2>2, <3>2 DEF QueueFacts
      <4>2. QED
        BY <1>1, <2>3, <2>4, <3>2, <4>1 DEF QueueFacts
    <3>3. QED
      BY <3>1, <3>2
  <2>8. QED
    BY <2>2, <2>3, <2>7 DEF QueueFacts
<1>3. CASE slot' = [slot EXCEPT ![o] = "out"] /\ UNCHANGED queues
  <2>1. slot'[o] = "out" /\ \A p \in Ops : p # o => slot'[p] = slot[p]
    BY <1>0, <1>3
  <2>2. QED
    BY <1>1, <1>3, <2>1 DEF QueueFacts
<1>4. QED
  BY <1>2, <1>3 DEF Release

LEMMA NextPlaces == TypeOK /\ PlaceInv /\ [Next]_vars => PlaceInv'
<1> SUFFICES ASSUME TypeOK, PlaceInv, [Next]_vars PROVE PlaceInv'
  OBVIOUS
<1>0. stage \in [Ops -> {"idle", "policy", "asking", "limited", "recording"}] /\ LimitTypeOK
  BY DEF TypeOK
<1>1. ASSUME NEW o \in Ops, Call(o) \/ Denies(o) \/ Ask(o) \/ Rejects(o) \/ TimesOut(o) PROVE PlaceInv'
  <2>1. PICK from \in {"idle", "policy", "asking"}, to \in {"idle", "policy", "asking"} : Moves(o, from, to)
    BY <1>1 DEF Call, Denies, Ask, Rejects, TimesOut, Settles
  <2>2. UNCHANGED <<queues, slot, through>>
    BY <1>1 DEF Call, Denies, Ask, Rejects, TimesOut, limitVars, breakerVars
  <2>3. QED
    BY <1>0, <2>1, <2>2 DEF PlaceInv, StageFacts, QueueFacts, Moves
<1>2. ASSUME NEW o \in Ops, NEW from \in {"policy", "asking"}, Enters(o, from) PROVE PlaceInv'
  <2>1. CASE Settles(o, from) /\ UNCHANGED <<limitVars, breakerVars>>
    BY <1>0, <2>1 DEF PlaceInv, StageFacts, QueueFacts, Settles, Moves, limitVars, breakerVars
  <2>2. CASE Admit(o) /\ Acquire(o) /\ Moves(o, from, "limited")
    <3>1. QueueFacts' /\ \A p \in Ops : p # o => slot'[p] = slot[p]
      BY <1>0, <2>2, AcquireQueues DEF PlaceInv
    <3>2. StageFacts'
      BY <1>0, <2>2, <3>1 DEF PlaceInv, StageFacts, Admit, Moves
    <3>3. QED
      BY <3>1, <3>2 DEF PlaceInv
  <2>3. QED
    BY <1>2, <2>1, <2>2 DEF Enters
<1>3. ASSUME NEW o \in Ops, NEW r, Ends(o, r) PROVE PlaceInv'
  <2>1. QueueFacts' /\ slot'[o] = "out" /\ \A p \in Ops : slot[p] = "out" => slot'[p] = "out"
    BY <1>0, <1>3, ReleaseQueues DEF PlaceInv, Ends
  <2>2. StageFacts'
    BY <1>0, <1>3, <2>1 DEF PlaceInv, StageFacts, Ends, Moves, breakerVars
  <2>3. QED
    BY <2>1, <2>2 DEF PlaceInv
<1>4. ASSUME NEW o \in Ops, Records(o) PROVE PlaceInv'
  <2>1. through' = through \ {o} /\ UNCHANGED <<queues, slot>> /\ Moves(o, "recording", "idle")
    BY <1>4 DEF Records, Succeed, Fail, Settles, limitVars
  <2>2. QED
    BY <1>0, <2>1 DEF PlaceInv, StageFacts, QueueFacts, Moves
<1>5. CASE RemoveDrops
  <2>1. UNCHANGED <<stage, slot, through>> /\ queues' = [k \in Keys |-> <<>>]
    BY <1>5 DEF RemoveDrops, DropKeys, ForgetKeys
  <2>2. IsInjective(<<>>)
    BY DEF IsInjective
  <2>3. QED
    BY <2>1, <2>2 DEF PlaceInv, StageFacts, QueueFacts
<1>6. CASE \/ \E k \in Keys : CooldownEnds(k)
           \/ RemoveCalled \/ DrainCalled \/ DrainReturns \/ UNCHANGED vars
  <2>1. UNCHANGED <<stage, slot, queues, through>>
    BY <1>6 DEF CooldownEnds, CoolsDown, RemoveCalled, DrainCalled, DrainReturns, vars, limitVars, breakerVars
  <2>2. QED
    BY <2>1 DEF PlaceInv, StageFacts, QueueFacts
<1>7. QED
  BY <1>1, <1>2, <1>3, <1>4, <1>5, <1>6 DEF Next, OpStep, Allows, Approves, Answered, Fails

\* "a human wait doesn't hold a rate-limit slot or feed the breaker": an operation whose
\* approval is pending is neither in the limiter nor counted by the breaker.
THEOREM AskingIsFree == Spec => []AskingHoldsNothing
<1>1. Init => PlaceInv
  <2>1. IsInjective(<<>>)
    BY DEF IsInjective
  <2>2. QED
    BY <2>1 DEF Init, LimitInit, BreakerInit, PlaceInv, StageFacts, QueueFacts
<1>2. PlaceInv => AskingHoldsNothing
  BY DEF PlaceInv, StageFacts, AskingHoldsNothing
<1>3. QED
  BY <1>1, <1>2, NextPlaces, TypeCorrect, PTL DEF Spec

-----------------------------------------------------------------------------
(* The cap, for the governed client.                                       *)

\* Only a removal empties the limiter under the operations that are in it.
KeptInv == ~config.removal => upstream = "up" /\ LimitInv

LEMMA LimitInvStutters == LimitInv /\ UNCHANGED limitVars => LimitInv'
BY DEF limitVars, LimitInv, CapHeld, NoIdleSlot, WaitersQueued, Holders, Waiters

LEMMA NextKept == TypeOK /\ KeptInv /\ [Next]_vars => KeptInv'
<1> SUFFICES ASSUME TypeOK, KeptInv, [Next]_vars, ~config'.removal
             PROVE  upstream' = "up" /\ LimitInv'
  BY DEF KeptInv
<1>0. config' = config /\ upstream = "up" /\ LimitInv /\ LimitTypeOK
  BY TypeParts DEF KeptInv, Next, OpStep, vars, Call, Denies, Ask, Allows, Approves, Enters,
    Rejects, TimesOut, Answered, Fails, Ends, Records, CooldownEnds, RemoveCalled, RemoveDrops,
    DrainCalled, DrainReturns
<1>1. ASSUME NEW o \in Ops, Call(o) \/ Denies(o) \/ Ask(o) \/ Rejects(o) \/ TimesOut(o) \/ Records(o)
      PROVE  upstream' = "up" /\ LimitInv'
  BY <1>0, <1>1, LimitInvStutters DEF Call, Denies, Ask, Rejects, TimesOut, Records
<1>2. ASSUME NEW o \in Ops, NEW from, Enters(o, from) PROVE upstream' = "up" /\ LimitInv'
  BY <1>0, <1>2, LimitInvStutters, AcquireKeeps DEF Enters
<1>3. ASSUME NEW o \in Ops, NEW r, Ends(o, r) PROVE upstream' = "up" /\ LimitInv'
  BY <1>0, <1>3, ReleaseKeeps DEF Ends
<1>4. ~RemoveCalled /\ ~RemoveDrops
  BY <1>0 DEF RemoveCalled, RemoveDrops
<1>5. CASE (\E k \in Keys : CooldownEnds(k)) \/ DrainCalled \/ DrainReturns \/ UNCHANGED vars
  BY <1>0, <1>5, LimitInvStutters DEF CooldownEnds, DrainCalled, DrainReturns, vars
<1>6. QED
  BY <1>1, <1>2, <1>3, <1>4, <1>5 DEF Next, OpStep, Allows, Approves, Answered, Fails

\* "cap in-flight operations per key", in the whole chain: however refusals, approvals,
\* failures, cooldowns and a drain interleave with the limiter, its count is the number of
\* operations in flight and within the cap, and whoever waits is queued once, as long as the
\* upstream is not removed.
THEOREM CapHeldInTheChain == Spec => []CapHeldUnlessRemoved
<1>1. Init => KeptInv
  BY LimitInvInit DEF Init, KeptInv
<1>2. KeptInv => CapHeldUnlessRemoved
  BY DEF KeptInv, LimitInv, CapHeldUnlessRemoved
<1>3. QED
  BY <1>1, <1>2, NextKept, TypeCorrect, PTL DEF Spec

\* The slots of a limiter are for requests: the cap is kept in the chain, and an operation
\* that waits for a person holds no slot and has not passed the breaker.
THEOREM SlotsKeptForRequests == Spec => []SlotsAreForRequests
<1>1. CapHeldUnlessRemoved /\ AskingHoldsNothing => SlotsAreForRequests
  BY DEF SlotsAreForRequests
<1>2. QED
  BY <1>1, AskingIsFree, CapHeldInTheChain, PTL

-----------------------------------------------------------------------------
(* What the chain makes of its interceptors: on their own variables the    *)
(* breaker and the limiter do what their modules say, whatever the others  *)
(* do in between.                                                          *)

\* Every step of the chain is a step of the breaker, or none of its business: next(op)
\* admits, the outcome of an operation succeeds or fails, removeUpstream() forgets.
THEOREM ImplementsBreaker == Spec => BreakerSpec
<1>1. Init => BreakerInit
  BY DEF Init
<1>2. [Next]_vars => [BreakerNext]_breakerVars
  <2> SUFFICES ASSUME [Next]_vars PROVE BreakerNext \/ UNCHANGED breakerVars
    OBVIOUS
  <2>1. ASSUME NEW o \in Ops, Call(o) \/ Denies(o) \/ Ask(o) \/ Rejects(o) \/ TimesOut(o)
                                \/ Answered(o) \/ Fails(o)
        PROVE  UNCHANGED breakerVars
    BY <2>1 DEF Call, Denies, Ask, Rejects, TimesOut, Answered, Fails, Ends
  <2>2. ASSUME NEW o \in Ops, NEW from, Enters(o, from) PROVE Admit(o) \/ UNCHANGED breakerVars
    BY <2>2 DEF Enters
  <2>3. ASSUME NEW o \in Ops, Records(o) PROVE Succeed(o) \/ Fail(o)
    BY <2>3 DEF Records
  <2>4. ASSUME NEW k \in Keys, CooldownEnds(k) PROVE CoolsDown(k)
    BY <2>4 DEF CooldownEnds
  <2>5. CASE RemoveDrops
    BY <2>5 DEF RemoveDrops, BreakerNext
  <2>6. CASE RemoveCalled \/ DrainCalled \/ DrainReturns \/ UNCHANGED vars
    BY <2>6 DEF RemoveCalled, DrainCalled, DrainReturns, vars
  <2>7. QED
    BY <2>1, <2>2, <2>3, <2>4, <2>5, <2>6 DEF Next, OpStep, Allows, Approves, BreakerNext
<1>3. QED
  BY <1>1, <1>2, PTL DEF Spec, BreakerSpec

\* As long as the upstream stays, every step of the chain is a step of the limiter, or none
\* of its business: an operation acquires when it enters and releases once, when its request
\* ends.  (A removal empties the limiter under its holders, which the limiter's own
\* specification rules out.)
THEOREM ImplementsLimiter ==
  Spec /\ ~config.removal => LimitInit /\ [][LimitNext]_limitVars
<1> DEFINE Stays == upstream = "up" /\ ~config.removal
<1>1. Init /\ ~config.removal => LimitInit /\ Stays
  BY DEF Init
<1>2. Stays /\ [Next]_vars => Stays' /\ [LimitNext]_limitVars
  <2> SUFFICES ASSUME Stays, [Next]_vars
               PROVE  Stays' /\ (LimitNext \/ UNCHANGED limitVars)
    OBVIOUS
  <2>1. ~RemoveCalled /\ ~RemoveDrops
    BY DEF RemoveCalled, RemoveDrops
  <2>2. UNCHANGED <<config, upstream>>
    BY <2>1 DEF Next, OpStep, vars, Call, Denies, Ask, Allows, Approves, Enters, Rejects, TimesOut,
      Answered, Fails, Ends, Records, CooldownEnds, DrainCalled, DrainReturns
  <2>3. ASSUME NEW o \in Ops, Call(o) \/ Denies(o) \/ Ask(o) \/ Rejects(o) \/ TimesOut(o) \/ Records(o)
        PROVE  UNCHANGED limitVars
    BY <2>3 DEF Call, Denies, Ask, Rejects, TimesOut, Records
  <2>4. ASSUME NEW o \in Ops, NEW from, Enters(o, from) PROVE Acquire(o) \/ UNCHANGED limitVars
    BY <2>4 DEF Enters
  <2>5. ASSUME NEW o \in Ops, Answered(o) \/ Fails(o) PROVE Release(o)
    BY <2>5 DEF Answered, Fails, Ends
  <2>6. CASE (\E k \in Keys : CooldownEnds(k)) \/ DrainCalled \/ DrainReturns \/ UNCHANGED vars
    BY <2>6 DEF CooldownEnds, DrainCalled, DrainReturns, vars
  <2>7. QED
    BY <2>1, <2>2, <2>3, <2>4, <2>5, <2>6 DEF Next, OpStep, Allows, Approves, LimitNext
<1>3. QED
  BY <1>1, <1>2, PTL DEF Spec

-----------------------------------------------------------------------------
(* Nobody waits in vain: what the settling of calls rests on.              *)

\* Whoever is suspended at the limiter waits there or holds a slot, and counts for the
\* breaker until it has recorded how its request ended.
StageHolds ==
  \A o \in Ops :
    /\ stage[o] = "limited" => slot[o] # "out"
    /\ stage[o] \in {"limited", "recording"} => o \in through
    /\ stage[o] = "recording" => result[o] # "none"

LEMMA ReleaseWakes ==
  ASSUME LimitTypeOK, NEW o \in Ops, Release(o), NEW p \in Ops, p # o, slot[p] # "out"
  PROVE  slot'[p] # "out"
BY DEF LimitTypeOK, Release

LEMMA NextHolds == TypeOK /\ PlaceInv /\ StageHolds /\ [Next]_vars => StageHolds'
<1> SUFFICES ASSUME TypeOK, PlaceInv, StageHolds, [Next]_vars PROVE StageHolds'
  OBVIOUS
<1>0. /\ stage \in [Ops -> {"idle", "policy", "asking", "limited", "recording"}]
      /\ result \in [Ops -> {"none", "ok", "error"}] /\ LimitTypeOK
  BY DEF TypeOK
<1>1. ASSUME NEW o \in Ops, Call(o) \/ Denies(o) \/ Ask(o) \/ Rejects(o) \/ TimesOut(o) PROVE StageHolds'
  <2>1. PICK from \in {"idle", "policy", "asking"}, to \in {"idle", "policy", "asking"} : Moves(o, from, to)
    BY <1>1 DEF Call, Denies, Ask, Rejects, TimesOut, Settles
  <2>2. UNCHANGED <<slot, through, result>>
    BY <1>1 DEF Call, Denies, Ask, Rejects, TimesOut, limitVars, breakerVars
  <2>3. QED
    BY <1>0, <2>1, <2>2 DEF StageHolds, Moves
<1>2. ASSUME NEW o \in Ops, NEW from \in {"policy", "asking"}, Enters(o, from) PROVE StageHolds'
  <2>1. CASE Settles(o, from) /\ UNCHANGED <<limitVars, breakerVars>>
    BY <1>0, <1>2, <2>1 DEF StageHolds, Enters, Settles, Moves, limitVars, breakerVars
  <2>2. CASE Admit(o) /\ Acquire(o) /\ Moves(o, from, "limited")
    <3>1. slot'[o] # "out" /\ \A p \in Ops : p # o => slot'[p] = slot[p]
      BY <1>0, <2>2 DEF LimitTypeOK, Acquire
    <3>2. UNCHANGED result /\ through' = through \cup {o}
      BY <1>2, <2>2 DEF Enters, Admit
    <3>3. QED
      BY <1>0, <2>2, <3>1, <3>2 DEF StageHolds, Moves
  <2>3. QED
    BY <1>2, <2>1, <2>2 DEF Enters
<1>3. ASSUME NEW o \in Ops, NEW r \in {"ok", "error"}, Ends(o, r) PROVE StageHolds'
  <2>1. \A p \in Ops : p # o /\ slot[p] # "out" => slot'[p] # "out"
    BY <1>0, <1>3, ReleaseWakes DEF Ends
  <2>2. QED
    BY <1>0, <1>3, <2>1 DEF StageHolds, Ends, Moves, breakerVars
<1>4. ASSUME NEW o \in Ops, Records(o) PROVE StageHolds'
  <2>1. through' = through \ {o} /\ UNCHANGED slot /\ Moves(o, "recording", "idle")
    BY <1>4 DEF Records, Succeed, Fail, Settles, limitVars
  <2>2. QED
    BY <1>0, <1>4, <2>1 DEF StageHolds, Moves, Records
<1>5. CASE \/ \E k \in Keys : CooldownEnds(k)
           \/ RemoveCalled \/ RemoveDrops \/ DrainCalled \/ DrainReturns \/ UNCHANGED vars
  <2>1. UNCHANGED <<stage, slot, result, through>>
    BY <1>5 DEF CooldownEnds, CoolsDown, RemoveCalled, RemoveDrops, DropKeys, ForgetKeys, DrainCalled,
      DrainReturns, vars, limitVars, breakerVars
  <2>2. QED
    BY <2>1 DEF StageHolds
<1>6. QED
  BY <1>1, <1>2, <1>3, <1>4, <1>5 DEF Next, OpStep, Allows, Approves, Answered, Fails

\* An operation that waits for a slot waits for another one of its key that is past it, at
\* its request; and one that has to record an outcome has one to record, and the breaker is
\* expecting it.
NobodyWaitsInVain ==
  /\ ~config.removal =>
       \A o \in Ops : slot[o] = "waiting" =>
         \E p \in Ops : keyOf[p] = keyOf[o] /\ stage[p] = "limited" /\ slot[p] = "held"
  /\ \A o \in Ops : stage[o] = "recording" => o \in through /\ result[o] # "none"

\* No operation of the chain waits for one that waits for it, directly or around a circle:
\* "queue the rest" only ever queues behind requests that are running.  (With a removal it
\* does not hold, and operations are left behind.)
THEOREM NoWaitIsInVain == Spec => []NobodyWaitsInVain
<1>1. Init => PlaceInv /\ StageHolds /\ KeptInv
  <2>1. IsInjective(<<>>)
    BY DEF IsInjective
  <2>2. QED
    BY <2>1, LimitInvInit DEF Init, LimitInit, BreakerInit, PlaceInv, StageFacts, QueueFacts, StageHolds, KeptInv
<1>2. ASSUME TypeOK, PlaceInv, StageHolds, KeptInv PROVE NobodyWaitsInVain
  <2>1. ASSUME ~config.removal, NEW o \in Ops, slot[o] = "waiting"
        PROVE  \E p \in Ops : keyOf[p] = keyOf[o] /\ stage[p] = "limited" /\ slot[p] = "held"
    <3> DEFINE k == keyOf[o]
    <3>1. k \in Keys /\ LimitInv /\ Concurrency \in Nat \ {0}
      BY <1>2, <2>1, LimitFacts DEF KeptInv
    <3>2. queues[k] # <<>>
      <4>1. o \in ToSet(queues[k])
        BY <2>1, <3>1 DEF LimitInv, WaitersQueued, Waiters
      <4>2. QED
        BY <4>1 DEF ToSet
    <3>3. Cardinality(Holders(k)) = Concurrency
      BY <3>1, <3>2 DEF LimitInv, NoIdleSlot, CapHeld
    <3>4. PICK p \in Holders(k) : TRUE
      BY <3>1, <3>3, FS_EmptySet
    <3>5. stage[p] = "limited"
      BY <1>2, <3>4 DEF Holders, PlaceInv, StageFacts, TypeOK
    <3>6. QED
      BY <3>4, <3>5 DEF Holders
  <2>2. QED
    BY <1>2, <2>1 DEF NobodyWaitsInVain, StageHolds
<1>3. QED
  BY <1>1, <1>2, NextPlaces, NextHolds, NextKept, TypeCorrect, PTL DEF Spec

=============================================================================
