---------------------------- MODULE GatewayProofs ----------------------------
(***************************************************************************)
(* Theorems about Gateway, for every set of servers and every valid        *)
(* configuration: the listing and the enforcement of the policy agree, and *)
(* a listed name goes to what it was listed for.                           *)
(***************************************************************************)
EXTENDS Gateway, FiniteSetTheorems, SequenceTheorems, TLAPS

-----------------------------------------------------------------------------
(* Names                                                                   *)

Segments == STRING \cup Servers

\* A name with the name of its server in front is split where it was joined.
LEMMA Joined ==
  ASSUME NEW s \in Servers, NEW n \in NameType
  PROVE  /\ Head(<<s>> \o n) = s /\ Tail(<<s>> \o n) = n /\ Len(<<s>> \o n) > 1
         /\ n # <<>>
<1>1. /\ n \in Seq(Segments) /\ n # <<>> /\ <<s>> \in Seq(Segments) /\ Len(<<s>>) = 1
      /\ <<s>>[1] = s
  BY DEF NameType, Segments
<1> DEFINE q == <<s>> \o n
<1>2. /\ q \in Seq(Segments) /\ Len(q) = 1 + Len(n) /\ Len(n) \in Nat /\ Len(n) # 0
      /\ \A i \in 1 .. 1 + Len(n) : q[i] = IF i <= 1 THEN s ELSE n[i - 1]
  BY <1>1, ConcatProperties, EmptySeq, LenProperties
<1> HIDE DEF q
<1>3. Len(q) > 1 /\ q # <<>> /\ Head(q) = s
  BY <1>2
<1>4. Tail(q) = n
  <2>1. /\ Tail(q) \in Seq(Segments) /\ Len(Tail(q)) = Len(n)
        /\ \A i \in 1 .. Len(Tail(q)) : Tail(q)[i] = q[i + 1]
    BY <1>2, <1>3, HeadTailProperties
  <2>2. \A i \in 1 .. Len(n) : q[i + 1] = n[i]
    BY <1>2
  <2>3. QED BY <1>1, <2>1, <2>2, SeqEqual
<1>5. QED BY <1>1, <1>3, <1>4 DEF q

-----------------------------------------------------------------------------
(* Types                                                                   *)

\* What the agent remembers is a listing of something, under the name that had.
ShownInv ==
  \A item \in shown :
    /\ item.kind \in Kinds /\ item.server \in Servers /\ item.target \in NameType
    /\ item.name = Qualify(item.kind, item.server, item.target)

GateInv == GateTypeOK /\ Valid(gate) /\ ShownInv

LEMMA GateFacts ==
  ASSUME GateTypeOK
  PROVE  /\ gate \in GateType /\ gate.catalogs \subseteq CatalogType
         /\ Up \subseteq Servers /\ (Up # {} <=> up # <<>>)
         /\ \A s \in Servers, k \in Kinds : offers[s][k] \subseteq NameType
<1>1. gate \in GateType
  BY GatewayAssumption DEF GateTypeOK, GatewayAssumption
<1>2. gate.catalogs \subseteq CatalogType
  BY <1>1 DEF GateType
<1>3. up \in Seq(Servers) /\ DOMAIN up = 1 .. Len(up) /\ Len(up) \in Nat
  BY LenProperties DEF GateTypeOK
<1>4. Up \subseteq Servers
  BY <1>3, ElementOfSeq DEF Up, ToSet
<1>5. Up # {} <=> up # <<>>
  <2>1. up # <<>> => 1 \in DOMAIN up
    BY <1>3, EmptySeq
  <2>2. up = <<>> => DOMAIN up = {}
    OBVIOUS
  <2>3. QED BY <2>1, <2>2 DEF Up, ToSet
<1>6. \A s \in Servers, k \in Kinds : offers[s][k] \subseteq NameType
  <2> SUFFICES ASSUME NEW s \in Servers, NEW k \in Kinds PROVE offers[s][k] \subseteq NameType
    OBVIOUS
  <2>1. offers[s] \in gate.catalogs \/ offers[s] = [j \in Kinds |-> {}]
    BY DEF GateTypeOK
  <2>2. offers[s] \in CatalogType => offers[s][k] \subseteq NameType
    BY DEF CatalogType
  <2>3. QED BY <1>2, <2>1, <2>2
<1>7. QED BY <1>1, <1>2, <1>4, <1>5, <1>6

LEMMA DecisionTypes ==
  ASSUME NEW s, NEW n
  PROVE  Decisions(s, n) \subseteq {"allow", "deny", "approve"}
BY DEF Decisions

LEMMA OutcomeTypes ==
  ASSUME NEW k, NEW to
  PROVE  Outcomes(k, to) \subseteq {"unknown", "runs", "asks", "denied", "unapprovable"}
BY DecisionTypes DEF Outcomes

\* A server that leaves is taken from the order of the others.
LEMMA LeavesType ==
  ASSUME NEW q \in Seq(Servers), IsInjective(q), NEW i \in DOMAIN q
  PROVE  RemoveAt(q, i) \in Seq(Servers) /\ IsInjective(RemoveAt(q, i))
<1> DEFINE a == SubSeq(q, 1, i - 1)
           b == SubSeq(q, i + 1, Len(q))
           r == RemoveAt(q, i)
<1>1. Len(q) \in Nat /\ DOMAIN q = 1 .. Len(q) /\ i \in 1 .. Len(q)
      /\ \A j \in 1 .. Len(q) : q[j] \in Servers
  BY LenProperties, ElementOfSeq
<1>2. /\ a \in Seq(Servers) /\ Len(a) = i - 1
      /\ \A j \in 1 .. i - 1 : a[j] = q[j]
  <2>1. \A j \in 1 .. i - 1 : q[j] \in Servers
    BY <1>1
  <2>2. /\ a \in Seq(Servers) /\ Len(a) = IF 1 <= i - 1 THEN (i - 1) - 1 + 1 ELSE 0
        /\ \A j \in 1 .. (i - 1) - 1 + 1 : a[j] = q[1 + j - 1]
    BY <1>1, <2>1, SubSeqProperties
  <2> HIDE DEF a
  <2>3. QED BY <1>1, <2>2
<1>3. /\ b \in Seq(Servers) /\ Len(b) = Len(q) - i
      /\ \A j \in 1 .. Len(q) - i : b[j] = q[i + j]
  <2>1. \A j \in i + 1 .. Len(q) : q[j] \in Servers
    BY <1>1
  <2>2. /\ b \in Seq(Servers) /\ Len(b) = IF i + 1 <= Len(q) THEN Len(q) - (i + 1) + 1 ELSE 0
        /\ \A j \in 1 .. Len(q) - (i + 1) + 1 : b[j] = q[(i + 1) + j - 1]
    BY <1>1, <2>1, SubSeqProperties, SMTT(30)
  <2> HIDE DEF b
  <2>3. /\ Len(q) - (i + 1) + 1 = Len(q) - i
        /\ Len(q) - i = IF i + 1 <= Len(q) THEN Len(q) - (i + 1) + 1 ELSE 0
        /\ \A j \in 1 .. Len(q) - i : (i + 1) + j - 1 = i + j
    BY <1>1
  <2>4. QED BY <2>2, <2>3
<1>4. r = a \o b
  BY DEF RemoveAt
<1> HIDE DEF a, b, r
<1>5. /\ r \in Seq(Servers) /\ Len(r) = Len(q) - 1 /\ DOMAIN r = 1 .. Len(q) - 1
      /\ \A j \in 1 .. Len(q) - 1 : r[j] = IF j <= i - 1 THEN a[j] ELSE b[j - (i - 1)]
  <2>1. /\ r \in Seq(Servers) /\ Len(r) = Len(a) + Len(b)
        /\ \A j \in 1 .. Len(a) + Len(b) : r[j] = IF j <= Len(a) THEN a[j] ELSE b[j - Len(a)]
    BY <1>2, <1>3, <1>4, ConcatProperties
  <2>2. Len(a) + Len(b) = Len(q) - 1
    BY <1>1, <1>2, <1>3
  <2>3. QED BY <1>2, <2>1, <2>2, LenProperties
<1>6. \A j \in 1 .. Len(q) - 1 : r[j] = IF j <= i - 1 THEN q[j] ELSE q[j + 1]
  <2> SUFFICES ASSUME NEW j \in 1 .. Len(q) - 1
               PROVE  r[j] = IF j <= i - 1 THEN q[j] ELSE q[j + 1]
    OBVIOUS
  <2>1. j <= i - 1 => j \in 1 .. i - 1
    BY <1>1
  <2>2. ~(j <= i - 1) => j - (i - 1) \in 1 .. Len(q) - i /\ i + (j - (i - 1)) = j + 1
    BY <1>1
  <2>3. QED BY <1>2, <1>3, <1>5, <2>1, <2>2
<1>7. ASSUME NEW j \in 1 .. Len(q) - 1, NEW m \in 1 .. Len(q) - 1, r[j] = r[m] PROVE j = m
  <2>1. \A x, y \in 1 .. Len(q) : q[x] = q[y] => x = y
    BY <1>1 DEF IsInjective
  <2>2. j \in 1 .. Len(q) /\ j + 1 \in 1 .. Len(q) /\ m \in 1 .. Len(q) /\ m + 1 \in 1 .. Len(q)
    BY <1>1
  <2>3. CASE j <= i - 1 /\ m <= i - 1
    BY <1>6, <1>7, <2>1, <2>2, <2>3
  <2>4. CASE j <= i - 1 /\ ~(m <= i - 1)
    <3>1. j = m + 1
      BY <1>6, <1>7, <2>1, <2>2, <2>4
    <3>2. QED BY <1>1, <2>4, <3>1
  <2>5. CASE ~(j <= i - 1) /\ m <= i - 1
    <3>1. j + 1 = m
      BY <1>6, <1>7, <2>1, <2>2, <2>5
    <3>2. QED BY <1>1, <2>5, <3>1
  <2>6. CASE ~(j <= i - 1) /\ ~(m <= i - 1)
    <3>1. j + 1 = m + 1
      BY <1>6, <1>7, <2>1, <2>2, <2>6
    <3>2. QED BY <3>1
  <2>7. QED BY <2>3, <2>4, <2>5, <2>6
<1>8. QED BY <1>5, <1>7 DEF r, IsInjective

LEMMA InitInv == GateInit => GateInv
<1> SUFFICES ASSUME GateInit PROVE GateInv
  OBVIOUS
<1>1. up \in [1 .. Cardinality(Servers) -> Servers] /\ IsInjective(up)
  BY DEF GateInit, SetToSeqs, IsInjective
<1>2. Cardinality(Servers) \in Nat
  BY GatewayAssumption, FS_CardinalityType DEF GatewayAssumption
<1>3. up \in Seq(Servers)
  BY <1>1, <1>2, SeqDef
<1>4. QED
  BY <1>1, <1>3 DEF GateInit, GateInv, GateTypeOK, ShownInv, NoOperation

LEMMA NextInv == GateInv /\ [GateNext]_gateVars => GateInv'
<1> SUFFICES ASSUME GateInv, [GateNext]_gateVars PROVE GateInv'
  OBVIOUS
<1>0. GateTypeOK /\ Valid(gate) /\ ShownInv
  BY DEF GateInv
<1>g. gate' = gate => Valid(gate)'
  BY <1>0 DEF Valid
<1>s. gate' = gate /\ shown' = shown => ShownInv'
  BY <1>0 DEF ShownInv, Qualify
<1>1. CASE Lists
  <2>1. shown' = Listing /\ UNCHANGED <<gate, up, offers, last>>
    BY <1>1 DEF Lists
  <2>2. \A item \in Listing :
          /\ item.kind \in Kinds /\ item.server \in Servers /\ item.target \in NameType
          /\ item.name = Qualify(item.kind, item.server, item.target)
    <3>1. \A item \in Listing : \E k \in Kinds, s \in Up : \E n \in offers[s][k] : item = Item(k, s, n)
      BY DEF Listing
    <3>2. \A k \in Kinds, s \in Up : s \in Servers /\ offers[s][k] \subseteq NameType
      BY <1>0, GateFacts
    <3>3. QED BY <3>1, <3>2 DEF Item
  <2>3. GateTypeOK'
    BY <1>0, <2>1, <2>2 DEF GateTypeOK
  <2>4. ShownInv'
    BY <2>1, <2>2 DEF ShownInv, Qualify
  <2>5. QED BY <1>g, <2>1, <2>3, <2>4 DEF GateInv
<1>2. ASSUME NEW k \in Kinds, NEW name, Operates(k, name) PROVE GateInv'
  <2>1. /\ last'.outcome \in Outcomes(k, Destination(k, name))
        /\ UNCHANGED <<gate, up, offers, shown>>
    BY <1>2 DEF Operates
  <2>2. last'.outcome \in {"none", "unknown", "runs", "asks", "denied", "unapprovable"}
    BY <2>1, OutcomeTypes
  <2>3. QED BY <1>0, <1>g, <1>s, <2>1, <2>2 DEF GateInv, GateTypeOK
<1>3. ASSUME NEW s \in Servers, OffersChange(s) PROVE GateInv'
  BY <1>0, <1>3, <1>g, <1>s DEF OffersChange, GateInv, GateTypeOK
<1>4. ASSUME NEW s \in Servers, Joins(s) PROVE GateInv'
  <2>1. /\ s \notin Up /\ up' = Append(up, s)
        /\ offers' = [offers EXCEPT ![s] = [k \in Kinds |-> {}]]
        /\ UNCHANGED <<gate, shown, last>>
    BY <1>4 DEF Joins
  <2>2. /\ up \in Seq(Servers) /\ Len(up) \in Nat /\ DOMAIN up = 1 .. Len(up)
        /\ \A i \in 1 .. Len(up) : up[i] # s
    BY <1>0, <2>1, LenProperties DEF GateTypeOK, Up, ToSet
  <2>3. /\ up' \in Seq(Servers) /\ DOMAIN up' = 1 .. Len(up) + 1 /\ up'[Len(up) + 1] = s
        /\ \A i \in 1 .. Len(up) : up'[i] = up[i]
    BY <2>1, <2>2, AppendProperties, LenProperties
  <2>4. \A i \in 1 .. Len(up) + 1 : i \in 1 .. Len(up) \/ i = Len(up) + 1
    BY <2>2
  <2>5. IsInjective(up')
    BY <1>0, <2>2, <2>3, <2>4 DEF GateTypeOK, IsInjective
  <2>6. QED BY <1>0, <1>g, <1>s, <2>1, <2>3, <2>5 DEF GateInv, GateTypeOK
<1>5. ASSUME NEW s \in Servers, Leaves(s) PROVE GateInv'
  <2>1. /\ \E i \in DOMAIN up : up' = RemoveAt(up, i)
        /\ UNCHANGED <<gate, offers, shown, last>>
    BY <1>5 DEF Leaves
  <2>2. up' \in Seq(Servers) /\ IsInjective(up')
    BY <1>0, <2>1, LeavesType DEF GateTypeOK
  <2>3. QED BY <1>0, <1>g, <1>s, <2>1, <2>2 DEF GateInv, GateTypeOK
<1>6. CASE UNCHANGED gateVars
  BY <1>0, <1>6, <1>g, <1>s DEF gateVars, GateInv, GateTypeOK
<1>7. QED BY <1>1, <1>2, <1>3, <1>4, <1>5, <1>6 DEF GateNext

\* The gate keeps its types: the names of the servers stay distinct as they come and go, and
\* the agent is only shown what a server that it knows has offered (gateway.ts:121-171).
THEOREM GateTypeCorrect == GateSpec => []GateTypeOK
<1>1. GateInv => GateTypeOK
  BY DEF GateInv
<1>2. QED BY <1>1, InitInv, NextInv, PTL DEF GateSpec

-----------------------------------------------------------------------------
(* Discovery and enforcement                                               *)

\* Where a listed name of a server that is there goes.
LEMMA SplitListed ==
  ASSUME GateTypeOK, gate.namespace, NEW k \in {"tool", "prompt"}, NEW s \in Servers,
         NEW n \in NameType
  PROVE  Split(Qualify(k, s, n)) =
           IF s \in Up THEN [server |-> s, target |-> n]
           ELSE IF up = <<>> THEN Nowhere ELSE [server |-> Head(up), target |-> Qualify(k, s, n)]
<1>1. Qualify(k, s, n) = <<s>> \o n
  BY DEF Qualify
<1>2. QED BY <1>1, Joined DEF Split

LEMMA Reachable ==
  ASSUME GateTypeOK
  PROVE  ListedIsReachable
<1> SUFFICES ASSUME gate.namespace, NEW k \in Kinds, NEW s \in Up, NEW n \in offers[s][k], Keep(s, n)
             PROVE  LET item == Item(k, s, n)
                        to == Destination(k, Qualify(k, s, n))
                    IN  \/ k = "resource" /\ \A t \in Up : Offering("resource", n) # {t}
                        \/ /\ to = [server |-> s, target |-> n]
                           /\ "denied" \in Outcomes(k, to) =>
                                \/ gate.policy.function
                                \/ gate.policy.denyDestructive /\ n \in gate.destructive
  BY DEF ListedIsReachable, Listing, Item
<1> DEFINE here == [server |-> s, target |-> n]
<1>1. s \in Servers /\ n \in NameType /\ n # <<>>
  BY GateFacts, Joined
<1>2. here.server = s /\ here.target = n /\ here # Nowhere
  BY <1>1 DEF Nowhere
<1>3. \/ k = "resource" /\ \A t \in Up : Offering("resource", n) # {t}
      \/ Destination(k, Qualify(k, s, n)) = here
  <2>1. CASE k = "tool"
    BY <1>1, <1>2, <2>1, SplitListed DEF Destination, ResolveTool
  <2>2. CASE k = "prompt"
    BY <1>1, <1>2, <2>2, SplitListed DEF Destination, ResolvePrompt
  <2>3. CASE k = "resource"
    <3>1. Qualify(k, s, n) = n /\ s \in Offering("resource", n)
      BY <2>3 DEF Qualify, Offering
    <3>2. ASSUME NEW t \in Up, Offering("resource", n) = {t} PROVE Destination(k, n) = here
      <4>1. t = s
        BY <3>1, <3>2
      <4>2. (CHOOSE u \in Offering("resource", n) : TRUE) = s
        BY <3>2, <4>1
      <4>3. QED BY <2>3, <3>2, <4>2 DEF Destination, ResolveResource
    <3>3. QED BY <2>3, <3>1, <3>2
  <2>4. QED BY <2>1, <2>2, <2>3 DEF Kinds
<1> HIDE DEF here
<1>4. "denied" \in Outcomes(k, here) =>
        gate.policy.function \/ (gate.policy.denyDestructive /\ n \in gate.destructive)
  <2>1. "denied" \in Outcomes(k, here) => "deny" \in Decisions(s, n)
    BY <1>2, DecisionTypes DEF Outcomes
  <2>2. ASSUME ~gate.policy.function, "deny" \in Decisions(s, n)
        PROVE  \/ AnyMatches(gate.policy.deny, Id(s, n))
               \/ gate.policy.denyDestructive /\ n \in gate.destructive
               \/ AllowList /\ ~AnyMatches(gate.policy.allow, Id(s, n))
    BY <2>2 DEF Decisions
  <2>3. QED BY <2>1, <2>2 DEF Keep
<1>5. QED BY <1>3, <1>4 DEF here

LEMMA Refused ==
  ASSUME GateTypeOK, Valid(gate)
  PROVE  HiddenIsRefused
<1> SUFFICES ASSUME NEW s \in Up, NEW k \in {"tool", "resource"}, NEW n \in offers[s][k], ~Keep(s, n)
             PROVE  Outcomes(k, [server |-> s, target |-> n]) \subseteq
                      {"denied"} \cup (IF gate.approval.discovery = "hidden" /\ Approve(s, n)
                                       THEN {"asks"} ELSE {})
  BY DEF HiddenIsRefused
<1> DEFINE here == [server |-> s, target |-> n]
<1>1. here.server = s /\ here.target = n /\ here # Nowhere
  <2>1. k \in Kinds /\ s \in Servers
    BY GateFacts DEF Kinds
  <2>2. n # <<>>
    BY <2>1, GateFacts, Joined
  <2>3. QED BY <2>2 DEF Nowhere
<1> HIDE DEF here
<1>2. ~gate.policy.function
  BY DEF Keep
<1>3. \A o \in Outcomes(k, here) :
        \/ o = "denied"
        \/ o = "runs" /\ "allow" \in Decisions(s, n)
        \/ o = (IF gate.approval.configured THEN "asks" ELSE "unapprovable")
           /\ "approve" \in Decisions(s, n)
  BY <1>1, DecisionTypes DEF Outcomes
<1>4. "allow" \notin Decisions(s, n)
  BY <1>2 DEF Decisions, Keep
<1>5. "approve" \in Decisions(s, n) => gate.approval.discovery = "hidden" /\ Approve(s, n)
  BY <1>2 DEF Decisions, Keep
<1>6. Approve(s, n) => gate.approval.configured
  BY <1>2 DEF Approve, AnyMatches, Valid
<1>7. QED BY <1>3, <1>4, <1>5, <1>6 DEF here

\* The listing and the enforcement read one policy in two places and agree, for every valid
\* configuration: what is listed can be used under its name, what is kept back by name is
\* refused (gateway.ts:121-171, config.ts:80-88 and 272-295, index.ts:46 of mcp-gate).
THEOREM DiscoveryEnforced == GateSpec => []DiscoveryIsEnforced
<1>1. GateInv => DiscoveryIsEnforced
  BY Reachable, Refused DEF GateInv, DiscoveryIsEnforced
<1>2. QED BY <1>1, InitInv, NextInv, PTL DEF GateSpec

\* However the servers and their catalogs have changed since an agent was listed a name, the
\* name reaches what it was listed for or nothing, while its server is there (gateway.ts:232-240,
\* router.ts:30-36).
THEOREM NamesAreNotMisrouted == GateSpec => NeverMisrouted
<1> DEFINE Right(item) ==
       (gate.namespace /\ last' # last /\ last'.kind = item.kind /\ last'.name = item.name
          /\ item.kind # "resource" /\ last'.outcome # "unknown")
         => \/ last'.server = item.server /\ last'.target = item.target
            \/ /\ item.server \notin Up
               /\ last'.server = Head(up) /\ last'.target = item.name
<1>1. ASSUME GateInv, [GateNext]_gateVars, NEW item \in shown PROVE Right(item)
  <2> SUFFICES ASSUME gate.namespace, last' # last, last'.kind = item.kind,
                      last'.name = item.name, item.kind # "resource", last'.outcome # "unknown"
               PROVE  \/ last'.server = item.server /\ last'.target = item.target
                      \/ /\ item.server \notin Up
                         /\ last'.server = Head(up) /\ last'.target = item.name
    OBVIOUS
  <2>1. GateTypeOK /\ ShownInv
    BY <1>1 DEF GateInv
  <2>2. PICK k \in Kinds : \E name \in Names(k) : Operates(k, name)
    BY <1>1 DEF GateNext, Lists, OffersChange, Joins, Leaves, gateVars
  <2>3. PICK name \in Names(k) : Operates(k, name)
    BY <2>2
  <2> DEFINE to == Destination(k, name)
  <2>4. /\ k = item.kind /\ name = item.name /\ last'.server = to.server
        /\ last'.target = to.target /\ last'.outcome \in Outcomes(k, to)
    BY <2>3 DEF Operates
  <2>5. to # Nowhere
    BY <2>4 DEF Outcomes
  <2>6. k \in {"tool", "prompt"} /\ item.server \in Servers /\ item.target \in NameType
        /\ item.name = Qualify(k, item.server, item.target)
    BY <2>1, <2>2, <2>4 DEF ShownInv, Kinds
  <2>7. to = Split(name)
    BY <2>5, <2>6 DEF Destination, ResolveTool, ResolvePrompt
  <2>8. Split(name) =
           IF item.server \in Up THEN [server |-> item.server, target |-> item.target]
           ELSE IF up = <<>> THEN Nowhere ELSE [server |-> Head(up), target |-> name]
    BY <2>1, <2>4, <2>6, SplitListed
  <2> HIDE DEF to
  <2>9. QED BY <2>4, <2>5, <2>7, <2>8
<1>2. GateInv /\ [GateNext]_gateVars => [\A item \in shown : Right(item)]_gateVars
  BY <1>1
<1>3. QED BY <1>2, InitInv, NextInv, PTL DEF GateSpec, NeverMisrouted

=============================================================================
