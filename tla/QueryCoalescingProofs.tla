----------------------- MODULE QueryCoalescingProofs -----------------------
(* Theorems about QueryCoalescing.                                         *)
EXTENDS QueryCoalescing, FiniteSetTheorems, TLAPS

\* waitOn() counts the callers that wait, and none waits for nothing.
CountInv ==
  /\ stage = "off" => waiting = {}
  /\ abortable # {} => config.kind = "query"
  /\ config.kind = "query" => count = Cardinality(waiting)

\* Nothing has been heard of that the server does not have, and an answer on its way is
\* older than what has been heard only if it was overtaken.
AgeInv ==
  /\ heard <= version
  /\ \A v \in notices : v <= version
  /\ (stage = "network" /\ got # 0 /\ got < heard) => overtaken
  /\ entry.status = "success" => entry.value # 0

EntryInv == FetchingIsFetched /\ NotPoisoned /\ FreshOrOvertaken

Inv == TypeOK /\ CountInv /\ LeftIsCancelled /\ AgeInv /\ EntryInv

-----------------------------------------------------------------------------
(* Types                                                                   *)

LEMMA ConfigTyped ==
  ASSUME TypeOK
  PROVE  config.kind \in {"query", "read"} /\ config.retry \in Nat /\ config.maxFaults \in Nat
BY QueryAssumption DEF TypeOK, ConfigType

LEMMA NoEntryTyped == NoEntry \in Entries
<1>1. 0 \in 0 .. MaxVersion
  BY QueryAssumption
<1> QED BY <1>1 DEF NoEntry, Entries

\* What a step of the request may leave of the entry is an entry.
LEMMA EntriesTyped ==
  ASSUME TypeOK
  PROVE  /\ NoEntry \in Entries /\ Fetching \in Entries /\ Marked \in Entries
         /\ AfterCancel \in Entries /\ [entry EXCEPT !.status = "error"] \in Entries
         /\ \A o \in {"server", "store"} : Write(o) => entry' \in Entries
<1> USE DEF TypeOK, Entries
<1>1. Fetching \in Entries
  BY DEF Fetching
<1>2. Marked \in Entries
  BY DEF Marked
<1>3. [entry EXCEPT !.status = "error"] \in Entries
  OBVIOUS
<1>4. AfterCancel \in Entries
  BY <1>3, NoEntryTyped DEF AfterCancel
<1>5. ASSUME NEW o \in {"server", "store"}, Write(o) PROVE entry' \in Entries
  BY <1>5 DEF Write
<1> QED BY <1>1, <1>2, <1>3, <1>4, <1>5, NoEntryTyped

LEMMA EntryFields ==
  ASSUME TypeOK, NEW x
  PROVE  /\ LET e == [entry EXCEPT !.status = x] IN
              /\ e.status = x
              /\ e.value = entry.value /\ e.stale = entry.stale
              /\ e.origin = entry.origin /\ e.old = entry.old
         /\ [entry EXCEPT !.stale = TRUE].status = entry.status
         /\ [entry EXCEPT !.stale = TRUE].value = entry.value
         /\ [entry EXCEPT !.stale = TRUE].stale = TRUE
BY DEF TypeOK, Entries

LEMMA SettleTyped ==
  ASSUME TypeOK, Settle
  PROVE  /\ stage' = "off" /\ got' = 0 /\ attempt' = 0 /\ count' = 0
         /\ aborted' \in BOOLEAN /\ overtaken' \in BOOLEAN
         /\ waiting' = {} /\ abortable' = {}
BY DEF Settle

\* Every step keeps the types.
LEMMA TypesKept ==
  ASSUME TypeOK, CountInv, [Next]_vars
  PROVE  TypeOK'
<1> USE QueryAssumption, ConfigTyped, EntriesTyped DEF Versions
<1>1. ASSUME NEW c \in Callers, Call(c) PROVE TypeOK'
  <2>1. waiting' \subseteq Callers /\ abortable' \subseteq waiting'
    BY <1>1 DEF Call, TypeOK
  <2>2. CASE stage # "off"
    BY <1>1, <2>1, <2>2 DEF Call, Joins, TypeOK
  <2>3. CASE stage = "off"
    <3>1. aborted' \in BOOLEAN /\ overtaken' \in BOOLEAN
      BY <1>1, <2>3 DEF Call, Starts
    <3> QED BY <1>1, <2>1, <2>3, <3>1 DEF Call, Starts, TypeOK
  <2> QED BY <2>2, <2>3
<1>2. ASSUME NEW c \in Callers, SignalFires(c) PROVE TypeOK'
  <2>1. c \in waiting /\ IsFiniteSet(waiting) /\ config.kind = "query"
    BY <1>2, FS_Subset DEF SignalFires, TypeOK, CountInv
  <2>2. count \in Nat /\ count # 0
    BY <2>1, FS_CardinalityType, FS_EmptySet DEF CountInv
  <2>3. aborted' \in BOOLEAN
    BY <1>2 DEF SignalFires, Leaves, TypeOK
  <2> QED BY <1>2, <2>2, <2>3 DEF SignalFires, Leaves, TypeOK
<1>3. CASE Observed \/ Unobserved
  <2>1. observers' \in BOOLEAN /\ aborted' \in BOOLEAN
    BY <1>3 DEF Observed, Unobserved, flight, TypeOK
  <2> QED BY <1>3, <2>1 DEF Observed, Unobserved, flight, TypeOK
<1>4. CASE StoreMisses \/ StoreReads \/ ServerAnswers
  BY <1>4 DEF StoreMisses, StoreReads, ServerAnswers, TypeOK
<1>5. CASE StoreAnswers
  BY <1>5, SettleTyped DEF StoreAnswers, TypeOK
<1>6. CASE AnswerArrives
  BY <1>6, SettleTyped DEF AnswerArrives, TypeOK
<1>7. CASE Fails
  <2>1. faults' \in 0 .. config.maxFaults /\ UNCHANGED config
    BY <1>7 DEF Fails, TypeOK
  <2>2. CASE attempt < config.retry
    <3>0. attempt # config.retry
      BY <2>2
    <3>1. overtaken' \in BOOLEAN
      BY <1>7, <3>0 DEF Fails
    <3> QED BY <1>7, <2>1, <2>2, <3>1 DEF Fails, TypeOK
  <2>3. CASE attempt = config.retry
    BY <1>7, <2>1, <2>3, SettleTyped DEF Fails, TypeOK
  <2> QED BY <1>7, <2>2, <2>3 DEF Fails
<1>8. CASE Cancelled
  BY <1>8, SettleTyped DEF Cancelled, TypeOK
<1>9. CASE Changes \/ Collected
  BY <1>9 DEF Changes, Collected, flight, TypeOK
<1>10. ASSUME NEW v \in Versions, NoticeArrives(v) PROVE TypeOK'
  <2>1. overtaken' \in BOOLEAN
    BY <1>10 DEF NoticeArrives, TypeOK
  <2> QED BY <1>10, <2>1 DEF NoticeArrives, TypeOK
<1>11. ASSUME NEW v \in Versions, OtherNodeStores(v) PROVE TypeOK'
  BY <1>11 DEF OtherNodeStores, flight, TypeOK
<1>12. CASE UNCHANGED vars
  BY <1>12 DEF vars, flight, TypeOK
<1> QED BY <1>1, <1>2, <1>3, <1>4, <1>5, <1>6, <1>7, <1>8, <1>9, <1>10, <1>11, <1>12 DEF Next

-----------------------------------------------------------------------------
(* The callers                                                             *)

\* Every step keeps the count of those who wait, and cancels a query that all have left.
LEMMA CountKept ==
  ASSUME TypeOK, CountInv, LeftIsCancelled, [Next]_vars
  PROVE  CountInv' /\ LeftIsCancelled' /\ [OnlyLeaversCancel]_vars
<1> DEFINE Goal == CountInv' /\ LeftIsCancelled' /\ OnlyLeaversCancel
<1>0. IsFiniteSet(waiting) /\ Cardinality({}) = 0
  BY QueryAssumption, FS_Subset, FS_EmptySet DEF TypeOK
<1>1. ASSUME NEW c \in Callers, Call(c) PROVE Goal
  <2>1. waiting' = waiting \cup {c} /\ c \notin waiting /\ UNCHANGED config
    BY <1>1 DEF Call
  <2>2. Cardinality(waiting') = Cardinality(waiting) + 1 /\ waiting' # {}
    BY <1>0, <2>1, FS_AddElement
  <2>3. abortable' # {} => config'.kind = "query"
    BY <1>1 DEF Call, CountInv
  <2>4. stage' # "off" /\ (aborted' => aborted)
    BY <1>1 DEF Call, Joins, Starts, TypeOK
  <2>5. config.kind = "query" => count' = Cardinality(waiting')
    <3>1. CASE stage # "off"
      BY <1>1, <2>2, <3>1 DEF Call, Joins, CountInv
    <3>2. CASE stage = "off"
      BY <1>0, <1>1, <2>2, <3>2 DEF Call, Starts, CountInv
    <3> QED BY <3>1, <3>2
  <2> QED BY <2>1, <2>2, <2>3, <2>4, <2>5 DEF CountInv, LeftIsCancelled, OnlyLeaversCancel
<1>2. ASSUME NEW c \in Callers, SignalFires(c) PROVE Goal
  <2>1. /\ c \in waiting /\ waiting' = waiting \ {c} /\ abortable' \subseteq abortable
        /\ config.kind = "query" /\ UNCHANGED <<config, stage>>
    BY <1>2 DEF SignalFires, TypeOK, CountInv
  <2>2. Cardinality(waiting') = Cardinality(waiting) - 1 /\ IsFiniteSet(waiting')
    BY <1>0, <2>1, FS_RemoveElement
  <2>3. count' = Cardinality(waiting')
    BY <1>2, <2>1, <2>2 DEF SignalFires, Leaves, CountInv
  <2>4. count' = 0 <=> waiting' = {}
    BY <2>2, <2>3, FS_EmptySet
  <2>5. aborted' <=> aborted \/ waiting' = {}
    BY <1>2, <2>4 DEF SignalFires, Leaves, TypeOK
  <2> QED BY <2>1, <2>3, <2>5 DEF CountInv, LeftIsCancelled, OnlyLeaversCancel
<1>3. ASSUME Unobserved PROVE Goal
  <2>1. observers /\ ~observers' /\ (aborted => aborted')
    BY <1>3 DEF Unobserved
  <2> QED BY <1>3, <2>1 DEF Unobserved, CountInv, LeftIsCancelled, OnlyLeaversCancel
<1>4. ASSUME Settle, UNCHANGED config PROVE Goal
  <2>1. stage' = "off" /\ waiting' = {} /\ abortable' = {} /\ count' = 0 /\ ~aborted'
    BY <1>4 DEF Settle
  <2> QED BY <1>0, <1>4, <2>1 DEF CountInv, LeftIsCancelled, OnlyLeaversCancel
<1>5. ASSUME UNCHANGED <<config, waiting, abortable, count, aborted>>,
             stage' = "off" <=> stage = "off"
      PROVE  Goal
  BY <1>5 DEF CountInv, LeftIsCancelled, OnlyLeaversCancel
<1>6. ASSUME Next PROVE Goal
  <2> HIDE DEF Goal
  <2>1. CASE StoreAnswers \/ AnswerArrives \/ Cancelled
    BY <1>4, <2>1 DEF StoreAnswers, AnswerArrives, Cancelled
  <2>2. CASE Fails
    BY <1>4, <1>5, <2>2 DEF Fails
  <2>3. CASE StoreMisses \/ StoreReads \/ ServerAnswers
    BY <1>5, <2>3 DEF StoreMisses, StoreReads, ServerAnswers
  <2>4. CASE Observed \/ Changes \/ Collected
    BY <1>5, <2>4 DEF Observed, Changes, Collected, flight
  <2>5. CASE \E v \in Versions : NoticeArrives(v) \/ OtherNodeStores(v)
    BY <1>5, <2>5 DEF NoticeArrives, OtherNodeStores, flight
  <2> QED BY <1>1, <1>2, <1>3, <1>6, <2>1, <2>2, <2>3, <2>4, <2>5 DEF Next
<1>7. CASE UNCHANGED vars
  BY <1>7 DEF vars, flight, CountInv, LeftIsCancelled
<1> QED BY <1>6, <1>7

-----------------------------------------------------------------------------
(* The entry                                                               *)

\* Every step keeps what the entry shows and how old it may be.
LEMMA EntryKept ==
  ASSUME TypeOK, AgeInv, EntryInv, [Next]_vars
  PROVE  AgeInv' /\ EntryInv'
<1>0. /\ version \in Nat /\ heard \in Nat /\ got \in Nat /\ faults \in Nat
      /\ entry.value \in Nat /\ \A v \in Versions \cup notices : v \in Nat
  BY QueryAssumption, ConfigTyped DEF TypeOK, Versions, Entries
<1> USE <1>0 DEF AgeInv, EntryInv, FetchingIsFetched, NotPoisoned, FreshOrOvertaken
<1>1. ASSUME NEW c \in Callers, Call(c) PROVE AgeInv' /\ EntryInv'
  <2>1. CASE stage # "off"
    BY <1>1, <2>1 DEF Call, Joins
  <2>2. CASE stage = "off"
    BY <1>1, <2>2, EntryFields DEF Call, Starts, Fetching
  <2> QED BY <2>1, <2>2
<1>2. ASSUME NEW c \in Callers, SignalFires(c) PROVE AgeInv' /\ EntryInv'
  BY <1>2 DEF SignalFires
<1>3. CASE Observed \/ Unobserved
  BY <1>3 DEF Observed, Unobserved, flight
<1>4. CASE StoreMisses \/ StoreReads \/ ServerAnswers
  BY <1>4 DEF StoreMisses, StoreReads, ServerAnswers
<1>5. CASE StoreAnswers
  BY <1>5 DEF StoreAnswers, Write, Settle
<1>6. CASE AnswerArrives
  BY <1>6 DEF AnswerArrives, Write, Settle
<1>7. CASE Fails
  <2>1. CASE UNCHANGED <<entry, stage>>
    <3>1. got' = 0 /\ faults' # 0
      BY <1>7 DEF Fails, Settle
    <3> QED BY <1>7, <2>1, <3>1 DEF Fails
  <2>2. CASE entry' = [entry EXCEPT !.status = "error"]
    <3>1. entry'.status = "error" /\ faults' # 0
      BY <1>7, <2>2, EntryFields DEF Fails
    <3>2. got' = 0
      BY <1>7 DEF Fails, Settle
    <3> QED BY <1>7, <3>1, <3>2 DEF Fails
  <2> QED BY <1>7, <2>1, <2>2 DEF Fails
<1>8. CASE Cancelled
  BY <1>8 DEF Cancelled, AfterCancel, NoEntry, Settle
<1>9. CASE Changes \/ Collected
  <2>1. CASE Changes
    <3>1. AgeInv'
      BY <2>1 DEF Changes, flight
    <3>2. EntryInv'
      BY <2>1 DEF Changes, flight
    <3> QED BY <3>1, <3>2
  <2>2. CASE Collected
    BY <1>9, <2>2 DEF Collected, NoEntry, flight
  <2> QED BY <1>9, <2>1, <2>2
<1>10. ASSUME NEW v \in Versions, NoticeArrives(v) PROVE AgeInv' /\ EntryInv'
  <2>1. v <= version /\ v \in Nat
    BY <1>10 DEF NoticeArrives
  <2>2. AgeInv'
    <3>1. entry'.status = entry.status /\ entry'.value = entry.value
      BY <1>10, EntryFields DEF NoticeArrives, Marked
    <3>2. got # 0 /\ got < heard' /\ stage = "network" => overtaken'
      BY <1>10, <2>1 DEF NoticeArrives
    <3> QED BY <1>10, <2>1, <3>1, <3>2 DEF NoticeArrives
  <2>3. EntryInv'
    <3>1. CASE entry.value = 0
      BY <1>10, <3>1 DEF NoticeArrives, Marked
    <3>2. CASE entry.value # 0
      BY <1>10, <3>2, EntryFields DEF NoticeArrives, Marked
    <3> QED BY <3>1, <3>2
  <2> QED BY <2>2, <2>3
<1>11. ASSUME NEW v \in Versions, OtherNodeStores(v) PROVE AgeInv' /\ EntryInv'
  BY <1>11 DEF OtherNodeStores, flight
<1>12. CASE UNCHANGED vars
  BY <1>12 DEF vars, flight
<1> QED BY <1>1, <1>2, <1>3, <1>4, <1>5, <1>6, <1>7, <1>8, <1>9, <1>10, <1>11, <1>12 DEF Next

-----------------------------------------------------------------------------
(* The theorems                                                            *)

LEMMA QueryInvariant == Spec => []Inv
<1>1. Init => Inv
  <2> SUFFICES ASSUME Init PROVE Inv
    OBVIOUS
  <2>1. config.retry \in Nat /\ config.maxFaults \in Nat
    BY QueryAssumption DEF Init, ConfigType
  <2>2. observers \in BOOLEAN /\ aborted \in BOOLEAN /\ overtaken \in BOOLEAN
    BY DEF Init
  <2>4. TypeOK
    BY <2>1, <2>2, NoEntryTyped, QueryAssumption DEF Init, TypeOK, Versions
  <2>5. CountInv /\ LeftIsCancelled
    BY FS_EmptySet DEF Init, CountInv, LeftIsCancelled
  <2>6. AgeInv /\ EntryInv
    BY DEF Init, AgeInv, EntryInv, FetchingIsFetched, NotPoisoned, FreshOrOvertaken, NoEntry
  <2> QED BY <2>4, <2>5, <2>6 DEF Inv
<1>2. Inv /\ [Next]_vars => Inv'
  BY TypesKept, CountKept, EntryKept DEF Inv
<1> QED BY <1>1, <1>2, PTL DEF Spec

\* Every variable keeps its type; a request is sent at most once more than it may be retried.
THEOREM TypeCorrect == Spec => []TypeOK
BY QueryInvariant, PTL DEF Inv

\* However callers join, leave and come back, a query that all have left is cancelled
\* (waitOn() of client.ts).
THEOREM LeftQueryIsCancelled == Spec => []LeftIsCancelled
BY QueryInvariant, PTL DEF Inv

\* ... and one that somebody waits for is cancelled only because the key lost its last
\* observer.
THEOREM OnlyLeaversCancelIt == Spec => CancelledWhenLeft
<1>1. Inv /\ [Next]_vars => [OnlyLeaversCancel]_vars
  BY CountKept DEF Inv
<1> QED BY <1>1, QueryInvariant, PTL DEF Spec, CancelledWhenLeft

\* No entry is left loading.
THEOREM NeverLeftLoading == Spec => []FetchingIsFetched
BY QueryInvariant, PTL DEF Inv, EntryInv

\* Leaving is no error.
THEOREM LeavingPoisonsNothing == Spec => []NotPoisoned
BY QueryInvariant, PTL DEF Inv, EntryInv

\* A fresh entry is older than an invalidation that has arrived only if its request was
\* overtaken, or the L2 store was.
THEOREM FreshUnlessOvertaken == Spec => []FreshOrOvertaken
BY QueryInvariant, PTL DEF Inv, EntryInv

=============================================================================
