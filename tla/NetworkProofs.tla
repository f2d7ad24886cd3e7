---------------------------- MODULE NetworkProofs ----------------------------
(* Proofs for Addressing, for any number of nodes, entries and faults, and  *)
(* for VNet, for any network.                                              *)
EXTENDS Addressing, VNet, FiniteSetTheorems, WellFoundedInduction, TLAPS

Frames == Range(net)

\* What kind of address a node is given.
RightAddr(n, a) == IF n \in Supernode THEN a[2] = 1 ELSE a[2] >= 2

\* What requests and answers look like, and what nodes take from them.
FrameShape(f) ==
  /\ f.kind = "SUBNETREQ" => f.key \in EndNode
  /\ f.kind = "SUBNETANS" => f.key \in EndNode /\ f.addr = SubnetAddr
  /\ f.kind = "DINADDRESSREQ" =>
       f.key \in Node /\ f.addr = (IF f.key \in Supernode THEN Unset ELSE SubnetAddr)
  /\ f.kind = "DINADDRESSANS" => f.key \in Node /\ RightAddr(f.key, f.addr)

NodeShape(n) ==
  /\ Mine(n) => \/ n \in EndNode /\ queue[n].addr = SubnetAddr
                \/ RightAddr(n, queue[n].addr)
  /\ addr[n] = Unset \/ RightAddr(n, addr[n])
  /\ keyidval[n] \in {n, NoKey}
  /\ n \in NoEEPROM /\ addr[n] # Unset => keyidval[n] = n

Shape == (\A f \in Frames : FrameShape(f)) /\ (\A n \in Node : NodeShape(n))

\* Node n has address a, or no address yet and may take a.
MayHold(n, a) ==
  \/ addr[n] # Unset /\ a = addr[n]
  \/ addr[n] = Unset /\ Mine(n) /\ queue[n].addr = a /\ a[2] # 0
  \/ addr[n] = Unset /\ \E f \in Frames : f.kind = "DINADDRESSANS" /\ f.key = n /\ f.addr = a

\* A join tells the address its node has.
JoinsTell ==
  \A f \in Frames : f.kind = "JOIN" =>
    \E n \in Node : /\ addr[n] # Unset /\ f.addr = addr[n]
                    /\ f.key = n \/ (f.key = NoKey /\ n \notin NoEEPROM)

\* Addresses that are not in the table are those of the open request.
KnownOrOpen == \A n \in EndNode : \A a \in Address :
                 MayHold(n, a) => a \in Recorded \/ n = randomkeyid

Apart == \A m, n \in EndNode : \A a \in Address : m # n => ~(MayHold(m, a) /\ MayHold(n, a))

ProposalFree == randomkeyid \in EndNode =>
                  proposedaddress \notin Recorded /\ proposedaddress[2] >= 2

Sound == JoinsTell /\ KnownOrOpen /\ Apart /\ ProposalFree
-----------------------------------------------------------------------------
(* Sequences of frames.                                                    *)

FrameSet == [kind : Kinds, key : Node \cup {NoKey}, addr : Address]

LEMMA TailRange ==
  ASSUME NEW S, NEW s \in Seq(S), s # << >>
  PROVE  /\ Range(Tail(s)) \subseteq Range(s) /\ Head(s) \in Range(s)
         /\ Tail(s) \in Seq(S) /\ Head(s) \in S
<1>1. Head(s) = s[1] /\ 1 \in DOMAIN s /\ Len(Tail(s)) = Len(s) - 1 /\ Tail(s) \in Seq(S)
  BY SMT
<1>2. \A k \in DOMAIN Tail(s) : k + 1 \in DOMAIN s /\ Tail(s)[k] = s[k + 1]
  BY SMT
<1>. QED  BY <1>1, <1>2 DEF Range

LEMMA AppendRange ==
  ASSUME NEW S, NEW s \in Seq(S), NEW f \in S
  PROVE  Range(Append(s, f)) = Range(s) \cup {f} /\ Append(s, f) \in Seq(S)
<1>1. /\ Append(s, f) \in Seq(S)
      /\ DOMAIN Append(s, f) = DOMAIN s \cup {Len(s) + 1}
      /\ Append(s, f)[Len(s) + 1] = f
      /\ \A k \in DOMAIN s : Append(s, f)[k] = s[k]
  BY SMT
<1>. QED  BY <1>1 DEF Range

\* The frames on their way after a node has sent one.
LEMMA SentRange ==
  ASSUME TypeOK, NEW f \in FrameSet
  PROVE  Range(Sent(f)) \subseteq Frames \cup {f} /\ Sent(f) \in Seq(FrameSet)
<1>1. net \in Seq(FrameSet)
  BY DEF TypeOK, FrameSet
<1>. QED  BY <1>1, AppendRange DEF Sent, Frames

\* The frames on their way after the gateway has answered the oldest.
LEMMA RestRange ==
  ASSUME TypeOK, net # << >>, NEW k \in Kinds, NEW key \in Node \cup {NoKey}, NEW a \in Address
  PROVE  /\ Range(Rest(k, key, a)) \subseteq Frames \cup {Frame(k, key, a)}
         /\ Rest(k, key, a) \in Seq(FrameSet)
<1>1. net \in Seq(FrameSet) /\ Frame(k, key, a) \in FrameSet
  BY DEF TypeOK, FrameSet, Frame
<1>2. Tail(net) \in Seq(FrameSet) /\ Range(Tail(net)) \subseteq Frames
  BY <1>1, TailRange DEF Frames
<1>3. /\ Range(Append(Tail(net), Frame(k, key, a))) = Range(Tail(net)) \cup {Frame(k, key, a)}
      /\ Append(Tail(net), Frame(k, key, a)) \in Seq(FrameSet)
  <2>. HIDE DEF FrameSet
  <2>. QED  BY <1>1, <1>2, AppendRange
<1>. QED  BY <1>2, <1>3 DEF Rest

LEMMA HeadTail ==
  ASSUME TypeOK, net # << >>
  PROVE  /\ Head(net) \in FrameSet /\ Head(net) \in Frames
         /\ Range(Tail(net)) \subseteq Frames /\ Tail(net) \in Seq(FrameSet)
<1>1. net \in Seq(FrameSet)
  BY DEF TypeOK, FrameSet
<1>. QED  BY <1>1, TailRange DEF Frames
-----------------------------------------------------------------------------
(* The address that is proposed.                                           *)

\* Every set of naturals that is not empty has a least element.
LEMMA LeastElement ==
  ASSUME NEW T \in SUBSET Nat, T # {}
  PROVE  \E m \in T : \A n \in T : m <= n
<1>. DEFINE Below == {0 .. n : n \in T}
<1>1. IsWellFoundedOn(StrictSubsetOrdering(Nat), FiniteSubsetsOf(Nat))
  BY FS_StrictSubsetOrderingWellFounded
<1>2. Below \subseteq FiniteSubsetsOf(Nat)
  <2>1. \A n \in Nat : 0 .. n \in SUBSET Nat /\ IsFiniteSet(0 .. n)
    BY FS_Interval, SMT
  <2>. QED  BY <2>1 DEF FiniteSubsetsOf
<1>3. Below # {}
  OBVIOUS
<1>4. PICK B \in Below : \A C \in Below : ~ <<C, B>> \in StrictSubsetOrdering(Nat)
  BY <1>1, <1>2, <1>3, WFMin
<1>5. PICK m \in T : B = 0 .. m
  OBVIOUS
<1>6. ASSUME NEW n \in T  PROVE  m <= n
  <2>1. ~ <<0 .. n, 0 .. m>> \in StrictSubsetOrdering(Nat)
    BY <1>4, <1>5
  <2>2. ~ (0 .. n \subseteq 0 .. m /\ 0 .. n # 0 .. m)
    BY <2>1, SMT DEF StrictSubsetOrdering
  <2>3. CASE n < m
    <3>1. 0 .. n \subseteq 0 .. m /\ m \in 0 .. m /\ m \notin 0 .. n
      BY <2>3, SMT
    <3>. QED  BY <2>2, <3>1
  <2>. QED  BY <2>3, SMT
<1>. QED  BY <1>5, <1>6

\* It is in the subnet, it is not the gateway's, and no entry has it.
LEMMA NodeAddressFree ==
  ASSUME TypeOK
  PROVE  /\ NodeAddress \in Address /\ NodeAddress[1] = Subnet
         /\ NodeAddress[2] >= 2 /\ NodeAddress \notin Recorded
<1>. DEFINE used == Cardinality({e \in Entry : table[e][1] = Subnet})
            first == 2 + used
            Tried == first .. first + MaCaco_NODES
            free == {a \in Tried : <<Subnet, a>> \notin Recorded}
<1>1. IsFiniteSet(Entry) /\ Cardinality(Entry) = MaCaco_NODES
  BY AddressingConstants, FS_Interval, SMT DEF Entry
<1>2. used \in Nat
  <2>1. {e \in Entry : table[e][1] = Subnet} \in SUBSET Entry
    OBVIOUS
  <2>. QED  BY <1>1, <2>1, FS_Subset, FS_CardinalityType
<1>. HIDE DEF used
<1>3. free # {}
  <2>1. SUFFICES ASSUME \A a \in Tried : <<Subnet, a>> \in Recorded  PROVE FALSE
    OBVIOUS
  <2>2. \A a \in Tried : \E e \in Entry : table[e] = <<Subnet, a>>
    BY <2>1 DEF Recorded
  <2>. DEFINE at == [a \in Tried |-> CHOOSE e \in Entry : table[e] = <<Subnet, a>>]
  <2>3. \A a \in Tried : at[a] \in Entry /\ table[at[a]] = <<Subnet, a>>
    BY <2>2
  <2>4. at \in [Tried -> Entry]
    BY <2>3
  <2>5. IsFiniteSet(Tried) /\ Cardinality(Tried) = MaCaco_NODES + 1
    BY <1>2, AddressingConstants, FS_Interval, SMT
  <2>. HIDE DEF at, Tried
  <2>6. Cardinality(Entry) < Cardinality(Tried)
    BY <1>1, <2>5, AddressingConstants, SMT
  <2>7. PICK a, b \in Tried : a # b /\ at[a] = at[b]
    BY <1>1, <2>4, <2>5, <2>6, FS_PigeonHole
  <2>. QED  BY <2>3, <2>7
<1>4. free \in SUBSET Nat
  BY <1>2, AddressingConstants, SMT
<1>5. PICK m \in free : \A n \in free : m <= n
  <2>. HIDE DEF free
  <2>. QED  BY <1>3, <1>4, LeastElement
<1>6. Min(free) \in free
  <2>. HIDE DEF free
  <2>. QED  BY <1>5 DEF Min
<1>7. NodeAddress = <<Subnet, Min(free)>>
  BY DEF NodeAddress, used
<1>8. Min(free) \in Nat /\ Min(free) >= 2 /\ <<Subnet, Min(free)>> \notin Recorded
  <2>1. \A a \in free : a \in Nat /\ a >= 2 /\ <<Subnet, a>> \notin Recorded
    BY <1>2, AddressingConstants, SMT
  <2>. HIDE DEF free
  <2>. QED  BY <1>6, <2>1
<1>. QED  BY <1>7, <1>8 DEF Address, Subnet
-----------------------------------------------------------------------------
(* Types.                                                                  *)

LEMMA AddressTypes ==
  /\ Unset \in Address /\ SubnetAddr \in Address /\ Gateway \in Address
  /\ SupernodeAddress \in Address /\ NoData \in [key : Node \cup {NoKey}, addr : Address]
  BY SMT DEF Address, Unset, SubnetAddr, Gateway, SupernodeAddress, Subnet, NoData

LEMMA FaultType ==
  ASSUME TypeOK, Fault
  PROVE  faults' \in 0 .. MaxFaults
  BY AddressingConstants, SMT DEF TypeOK, Fault

LEMMA NodeTypes ==
  ASSUME TypeOK, NEW n \in Node, NodeStep(n) \/ ACTIONMSG(n) \/ RestartNode(n)
  PROVE  TypeOK'
<1>. USE AddressTypes
<1>1. CASE Souliss_DynamicAddressing(n)
  <2>1. UNCHANGED <<serverVars, faults, forgot, full>> /\ due' \subseteq Node
    BY <1>1 DEF Souliss_DynamicAddressing, TypeOK
  <2>2. keyidval' \in [Node -> Node \cup {NoKey}]
    BY <1>1 DEF Souliss_DynamicAddressing, TypeOK
  <2>3. addr' \in [Node -> Address]
    BY <1>1 DEF Souliss_DynamicAddressing, TypeOK
  <2>4. queue' \in [Node -> [key : Node \cup {NoKey}, addr : Address]]
    BY <1>1 DEF Souliss_DynamicAddressing, TypeOK
  <2>5. net' \in Seq(FrameSet)
    <3>1. \A k \in Kinds, a \in Address : Frame(k, n, a) \in FrameSet
      BY DEF Frame, FrameSet
    <3>2. \A k \in Kinds, a \in Address : Sent(Frame(k, n, a)) \in Seq(FrameSet)
      BY <3>1, SentRange
    <3>3. queue[n].addr \in Address /\ {"DINADDRESSREQ", "SUBNETREQ"} \subseteq Kinds
      BY DEF TypeOK, Kinds
    <3>4. net \in Seq(FrameSet)
      BY DEF TypeOK, FrameSet
    <3>. QED  BY <1>1, <3>2, <3>3, <3>4 DEF Souliss_DynamicAddressing
  <2>. QED  BY <2>1, <2>2, <2>3, <2>4, <2>5 DEF TypeOK, FrameSet, serverVars
<1>2. CASE Souliss_JoinNetwork(n)
  <2>1. Frame("JOIN", keyidval[n], addr[n]) \in FrameSet
    BY DEF TypeOK, Frame, FrameSet, Kinds
  <2>2. net' \in Seq(FrameSet)
    BY <1>2, <2>1, SentRange DEF Souliss_JoinNetwork
  <2>. QED  BY <1>2, <2>2 DEF Souliss_JoinNetwork, TypeOK, FrameSet, nodeVars, serverVars
<1>3. CASE ACTIONMSG(n)
  BY <1>3, FaultType DEF ACTIONMSG, TypeOK, serverVars
<1>4. CASE RestartNode(n)
  <2>1. forgot' \in BOOLEAN
    BY <1>4 DEF RestartNode, TypeOK
  <2>. QED  BY <1>4, <2>1, FaultType DEF RestartNode, TypeOK, serverVars
<1>. QED  BY <1>1, <1>2, <1>3, <1>4 DEF NodeStep

LEMMA ServerTypes ==
  ASSUME TypeOK, Deliver
  PROVE  TypeOK'
<1>. USE AddressTypes
<1>0. net # << >> /\ Head(net) \in FrameSet /\ Tail(net) \in Seq(FrameSet)
  BY HeadTail DEF Deliver
<1>1. CASE SUBNETREQ
  <2>1. net' \in Seq(FrameSet)
    BY <1>0, <1>1, RestRange DEF SUBNETREQ, FrameSet, Kinds
  <2>. QED  BY <1>1, <2>1 DEF SUBNETREQ, TypeOK, FrameSet, nodeVars, serverVars
<1>2. CASE DINADDRESSREQ
  <2>1. CASE Accepts(Head(net).key)
    <3>1. proposedaddress' \in Address /\ proposedaddress' # Unset
      BY <1>2, <2>1, NodeAddressFree
      DEF DINADDRESSREQ, SupernodeAddress, Unset, Subnet
    <3>2. net' = Rest("DINADDRESSANS", Head(net).key, proposedaddress')
      BY <1>2, <2>1 DEF DINADDRESSREQ
    <3>3. net' \in Seq(FrameSet)
      BY <1>0, <3>1, <3>2, RestRange DEF FrameSet, Kinds
    <3>4. randomkeyid' \in Node \cup {NoKey}
      BY <1>0, <1>2, <2>1 DEF DINADDRESSREQ, FrameSet
    <3>. QED  BY <1>2, <3>1, <3>3, <3>4 DEF DINADDRESSREQ, TypeOK, FrameSet, nodeVars
  <2>2. CASE ~Accepts(Head(net).key)
    BY <1>0, <1>2, <2>2 DEF DINADDRESSREQ, TypeOK, FrameSet, nodeVars
  <2>. QED  BY <2>1, <2>2
<1>3. CASE JOIN
  <2>1. table' \in [Entry -> Address] /\ full' \in BOOLEAN
    BY <1>0, <1>3 DEF JOIN, TypeOK, FrameSet
  <2>2. randomkeyid' \in {NoKey, randomkeyid}
    BY <1>3 DEF JOIN
  <2>. QED  BY <1>0, <1>3, <2>1, <2>2 DEF JOIN, TypeOK, FrameSet, nodeVars
<1>4. CASE Answer
  <2>1. queue' \in [Node -> [key : Node \cup {NoKey}, addr : Address]] /\ due' \subseteq Node
    BY <1>0, <1>4 DEF Answer, TypeOK, FrameSet
  <2>2. faults' \in 0 .. MaxFaults
    BY <1>4, FaultType DEF Answer, TypeOK
  <2>. QED  BY <1>0, <1>4, <2>1, <2>2 DEF Answer, TypeOK, FrameSet, serverVars
<1>. QED  BY <1>1, <1>2, <1>3, <1>4 DEF Deliver

LEMMA RestoredType == ASSUME TypeOK  PROVE Restored \in [Entry -> Address]
<1>1. \A e \in Entry : table[e][1] \in Nat /\ table[e][2] \in Nat
  BY SMT DEF TypeOK, Address
<1>. QED  BY <1>1, AddressTypes DEF Restored, Address

\* Every variable keeps its type, and an open request has an address.
THEOREM TypeCorrect == Spec => []TypeOK
<1>1. Init => TypeOK
  <2>1. 0 \in 0 .. MaxFaults /\ << >> \in Seq(FrameSet)
    BY AddressingConstants, SMT
  <2>. QED  BY <2>1, AddressTypes DEF Init, TypeOK, FrameSet
<1>2. TypeOK /\ [Next]_vars => TypeOK'
  <2>. SUFFICES ASSUME TypeOK, [Next]_vars  PROVE TypeOK'
    OBVIOUS
  <2>1. ASSUME NEW n \in Node, NodeStep(n) \/ ACTIONMSG(n) \/ RestartNode(n)  PROVE TypeOK'
    BY <2>1, NodeTypes
  <2>2. CASE Deliver
    BY <2>2, ServerTypes
  <2>3. CASE Lose
    BY <2>3, HeadTail, FaultType DEF Lose, TypeOK, FrameSet, nodeVars, serverVars
  <2>4. CASE RestartGateway
    <3>1. forgot' \in BOOLEAN
      BY <2>4 DEF RestartGateway, TypeOK
    <3>. QED  BY <2>4, <3>1, RestoredType, FaultType, AddressTypes DEF RestartGateway, TypeOK, nodeVars
  <2>5. CASE UNCHANGED vars
    BY <2>5 DEF vars, nodeVars, serverVars, TypeOK
  <2>. QED  BY <2>1, <2>2, <2>3, <2>4, <2>5 DEF Next
<1>. QED  BY <1>1, <1>2, PTL DEF Spec
-----------------------------------------------------------------------------
(* Shapes.                                                                 *)

LEMMA RightAddresses ==
  /\ \A n \in EndNode : ~RightAddr(n, SubnetAddr) /\ ~RightAddr(n, Unset)
  /\ \A n \in Supernode : ~RightAddr(n, SubnetAddr) /\ ~RightAddr(n, Unset)
  /\ \A n \in Supernode : RightAddr(n, SupernodeAddress)
  /\ SubnetAddr[2] = 0 /\ Unset[2] = 0 /\ SubnetAddr # Unset
  BY SMT DEF RightAddr, SubnetAddr, Unset, SupernodeAddress, Subnet, EndNode

\* A node that has shape keeps it when nothing of it changes.
LEMMA NodeShapeKept ==
  ASSUME NEW n \in Node, NodeShape(n), addr'[n] = addr[n], queue'[n] = queue[n],
         keyidval'[n] = keyidval[n]
  PROVE  NodeShape(n)'
  BY DEF NodeShape, Mine

LEMMA NodeShapes ==
  ASSUME TypeOK, Shape, NEW n \in Node, NodeStep(n) \/ ACTIONMSG(n) \/ RestartNode(n)
  PROVE  Shape'
<1>. USE AddressTypes
<1>1. CASE Souliss_DynamicAddressing(n)
  <2>1. ASSUME NEW m \in Node, m # n  PROVE NodeShape(m)'
    <3>1. addr'[m] = addr[m] /\ queue'[m] = queue[m] /\ keyidval'[m] = keyidval[m]
      BY <1>1, <2>1 DEF Souliss_DynamicAddressing, TypeOK
    <3>. QED  BY <3>1, NodeShapeKept DEF Shape
  <2>2. NodeShape(n)'
    <3>1. keyidval'[n] = n /\ NodeShape(n)
      BY <1>1 DEF Souliss_DynamicAddressing, TypeOK, Shape
    <3>2. CASE HasAddress(n) /\ addr' = [addr EXCEPT ![n] = queue[n].addr]
                             /\ queue' = [queue EXCEPT ![n] = NoData]
      <4>1. addr'[n] = queue[n].addr /\ ~Mine(n)'
        BY <3>2, AddressingConstants DEF TypeOK, Mine, NoData
      <4>2. RightAddr(n, queue[n].addr)
        BY <3>1, <3>2, RightAddresses DEF NodeShape, HasAddress
      <4>. QED  BY <3>1, <4>1, <4>2 DEF NodeShape
    <3>3. CASE addr' = addr /\ (queue' = queue \/ queue' = [queue EXCEPT ![n] = NoData])
      <4>1. addr'[n] = addr[n] /\ (Mine(n)' => Mine(n) /\ queue'[n] = queue[n])
        BY <3>3, AddressingConstants DEF TypeOK, Mine, NoData
      <4>. QED  BY <3>1, <4>1 DEF NodeShape
    <3>. QED  BY <1>1, <3>2, <3>3 DEF Souliss_DynamicAddressing
  <2>3. ASSUME NEW f \in Frames'  PROVE FrameShape(f)
    <3>1. CASE f \in Frames
      BY <3>1 DEF Shape
    <3>2. CASE f \notin Frames
      <4>1. CASE Mine(n) /\ ~HasAddress(n) /\ net' = Sent(Frame("DINADDRESSREQ", n, queue[n].addr))
        <5>1. queue[n].addr[2] = 0 /\ queue[n].addr \in Address
          BY <4>1 DEF HasAddress, TypeOK
        <5>2. n \in EndNode /\ queue[n].addr = SubnetAddr
          <6>1. ~RightAddr(n, queue[n].addr)
            BY <5>1, SMT DEF RightAddr
          <6>. QED  BY <4>1, <6>1 DEF Shape, NodeShape
        <5>3. Frame("DINADDRESSREQ", n, queue[n].addr) \in FrameSet
          BY <5>1 DEF Frame, FrameSet, Kinds
        <5>4. f = Frame("DINADDRESSREQ", n, queue[n].addr)
          BY <2>3, <3>2, <4>1, <5>3, SentRange DEF Frames
        <5>. QED  BY <5>2, <5>4 DEF FrameShape, Frame, EndNode
      <4>2. CASE net' = Sent(Frame(IF n \in Supernode THEN "DINADDRESSREQ"
                                                      ELSE "SUBNETREQ", n, Unset))
        <5>. DEFINE g == Frame(IF n \in Supernode THEN "DINADDRESSREQ" ELSE "SUBNETREQ", n, Unset)
        <5>1. g \in FrameSet
          BY DEF Frame, FrameSet, Kinds
        <5>2. f = g
          BY <2>3, <3>2, <4>2, <5>1, SentRange DEF Frames
        <5>. QED  BY <5>2 DEF FrameShape, Frame, EndNode
      <4>3. CASE net' = net
        BY <2>3, <3>2, <4>3 DEF Frames
      <4>. QED  BY <1>1, <4>1, <4>2, <4>3 DEF Souliss_DynamicAddressing
    <3>. QED  BY <3>1, <3>2
  <2>. QED  BY <2>1, <2>2, <2>3 DEF Shape
<1>2. CASE Souliss_JoinNetwork(n)
  <2>1. \A m \in Node : NodeShape(m)'
    BY <1>2, NodeShapeKept DEF Souliss_JoinNetwork, nodeVars, Shape
  <2>2. Frame("JOIN", keyidval[n], addr[n]) \in FrameSet
    BY DEF TypeOK, Frame, FrameSet, Kinds
  <2>3. Frames' \subseteq Frames \cup {Frame("JOIN", keyidval[n], addr[n])}
    BY <1>2, <2>2, SentRange DEF Souliss_JoinNetwork, Frames
  <2>4. FrameShape(Frame("JOIN", keyidval[n], addr[n]))
    BY DEF FrameShape, Frame
  <2>. QED  BY <2>1, <2>3, <2>4 DEF Shape
<1>3. CASE ACTIONMSG(n) \/ RestartNode(n)
  <2>1. Frames' = Frames
    BY <1>3 DEF ACTIONMSG, RestartNode, Frames
  <2>2. ASSUME NEW m \in Node, m # n  PROVE NodeShape(m)'
    <3>1. addr'[m] = addr[m] /\ queue'[m] = queue[m] /\ keyidval'[m] = keyidval[m]
      BY <1>3, <2>2 DEF ACTIONMSG, RestartNode, TypeOK
    <3>. QED  BY <3>1, NodeShapeKept DEF Shape
  <2>3. NodeShape(n)'
    <3>1. ~Mine(n)' /\ NodeShape(n)
      BY <1>3, AddressingConstants DEF ACTIONMSG, RestartNode, TypeOK, Mine, NoData, Shape
    <3>2. \/ addr'[n] = addr[n] /\ keyidval'[n] = keyidval[n]
          \/ addr'[n] = addr[n] /\ n \notin NoEEPROM /\ keyidval'[n] = NoKey
          \/ addr'[n] = Unset /\ keyidval'[n] = NoKey
      BY <1>3 DEF ACTIONMSG, RestartNode, TypeOK
    <3>. QED  BY <3>1, <3>2 DEF NodeShape
  <2>. QED  BY <2>1, <2>2, <2>3 DEF Shape
<1>. QED  BY <1>1, <1>2, <1>3 DEF NodeStep

LEMMA ServerShapes ==
  ASSUME TypeOK, Shape, Deliver
  PROVE  Shape'
<1>0. /\ net # << >> /\ Head(net) \in FrameSet /\ FrameShape(Head(net))
      /\ Range(Tail(net)) \subseteq Frames
  BY HeadTail DEF Deliver, Shape
<1>1. CASE SUBNETREQ
  <2>. DEFINE g == Frame("SUBNETANS", Head(net).key, SubnetAddr)
  <2>1. Frames' \subseteq Frames \cup {g}
    BY <1>0, <1>1, AddressTypes, RestRange DEF SUBNETREQ, FrameSet, Kinds, Frames
  <2>2. FrameShape(g)
    BY <1>0, <1>1 DEF SUBNETREQ, FrameShape, Frame
  <2>3. \A m \in Node : NodeShape(m)'
    BY <1>1, NodeShapeKept DEF SUBNETREQ, nodeVars, Shape
  <2>. QED  BY <2>1, <2>2, <2>3 DEF Shape
<1>2. CASE DINADDRESSREQ
  <2>1. \A m \in Node : NodeShape(m)'
    BY <1>2, NodeShapeKept DEF DINADDRESSREQ, nodeVars, Shape
  <2>2. CASE net' = Tail(net)
    BY <1>0, <2>1, <2>2 DEF Shape, Frames
  <2>3. CASE /\ net' = Rest("DINADDRESSANS", Head(net).key, proposedaddress')
             /\ proposedaddress' = IF Head(net).addr = Unset THEN SupernodeAddress ELSE NodeAddress
    <3>. DEFINE g == Frame("DINADDRESSANS", Head(net).key, proposedaddress')
    <3>1. proposedaddress' \in Address
      BY <2>3, AddressTypes, NodeAddressFree
    <3>2. Frames' \subseteq Frames \cup {g}
      BY <1>0, <2>3, <3>1, RestRange DEF FrameSet, Kinds, Frames
    <3>3. Head(net).key \in Node /\ RightAddr(Head(net).key, proposedaddress')
      BY <1>0, <1>2, <2>3, NodeAddressFree, RightAddresses
      DEF DINADDRESSREQ, FrameShape, RightAddr, SupernodeAddress
    <3>4. FrameShape(g)
      BY <3>3 DEF FrameShape, Frame
    <3>. QED  BY <2>1, <3>2, <3>4 DEF Shape
  <2>. QED  BY <1>2, <2>2, <2>3 DEF DINADDRESSREQ
<1>3. CASE JOIN
  <2>1. \A m \in Node : NodeShape(m)'
    BY <1>3, NodeShapeKept DEF JOIN, nodeVars, Shape
  <2>. QED  BY <1>0, <1>3, <2>1 DEF JOIN, Shape, Frames
<1>4. CASE Answer
  <2>1. ASSUME NEW m \in Node  PROVE NodeShape(m)'
    <3>1. CASE queue'[m] = queue[m]
      BY <1>4, <3>1, NodeShapeKept DEF Answer, Shape
    <3>2. CASE queue'[m] = [key |-> Head(net).key, addr |-> Head(net).addr]
      <4>1. NodeShape(m) /\ addr' = addr /\ keyidval' = keyidval
        BY <1>4 DEF Answer, Shape
      <4>2. Mine(m)' => \/ m \in EndNode /\ queue'[m].addr = SubnetAddr
                       \/ RightAddr(m, queue'[m].addr)
        BY <1>0, <1>4, <3>2 DEF Answer, Mine, FrameShape
      <4>. QED  BY <4>1, <4>2 DEF NodeShape
    <3>. QED  BY <1>4, <3>1, <3>2 DEF Answer
  <2>2. Frames' \subseteq Frames
    BY <1>0, <1>4 DEF Answer, Frames
  <2>. QED  BY <2>1, <2>2 DEF Shape
<1>. QED  BY <1>1, <1>2, <1>3, <1>4 DEF Deliver

LEMMA ShapeCorrect == Spec => []Shape
<1>1. Init => Shape
  BY AddressingConstants DEF Init, Shape, Frames, Range, NodeShape, Mine, NoData, EndNode
<1>2. TypeOK /\ Shape /\ [Next]_vars => Shape'
  <2>. SUFFICES ASSUME TypeOK, Shape, [Next]_vars  PROVE Shape'
    OBVIOUS
  <2>1. ASSUME NEW n \in Node, NodeStep(n) \/ ACTIONMSG(n) \/ RestartNode(n)  PROVE Shape'
    BY <2>1, NodeShapes
  <2>2. CASE Deliver
    BY <2>2, ServerShapes
  <2>3. CASE Lose
    <3>1. Frames' \subseteq Frames
      BY <2>3, HeadTail DEF Lose, Frames
    <3>. QED  BY <2>3, <3>1, NodeShapeKept DEF Lose, nodeVars, Shape
  <2>4. CASE RestartGateway
    BY <2>4, NodeShapeKept DEF RestartGateway, nodeVars, Shape, Frames
  <2>5. CASE UNCHANGED vars
    BY <2>5, NodeShapeKept DEF vars, nodeVars, Shape, Frames
  <2>. QED  BY <2>1, <2>2, <2>3, <2>4, <2>5 DEF Next
<1>. QED  BY <1>1, <1>2, TypeCorrect, PTL DEF Spec

\* A node that stores its address keeps it, whatever answers and restarts come.
THEOREM AddressKeptHolds == Spec => AddressKept
<1>. DEFINE Kept == \A n \in Node \ NoEEPROM : addr[n] # Unset => addr'[n] = addr[n]
<1>1. TypeOK /\ [Next]_vars => Kept
  <2>. SUFFICES ASSUME TypeOK, [Next]_vars, NEW m \in Node \ NoEEPROM, addr[m] # Unset
                PROVE  addr'[m] = addr[m]
    OBVIOUS
  <2>1. ASSUME NEW n \in Node, Souliss_DynamicAddressing(n) \/ RestartNode(n)
        PROVE  addr'[m] = addr[m]
    BY <2>1 DEF Souliss_DynamicAddressing, NeedsAddress, RestartNode, TypeOK
  <2>2. CASE UNCHANGED addr
    BY <2>2
  <2>. QED
    BY <2>1, <2>2
    DEF Next, NodeStep, Souliss_JoinNetwork, ACTIONMSG, Deliver, SUBNETREQ, DINADDRESSREQ,
        JOIN, Answer, Lose, RestartGateway, vars, nodeVars
<1>. QED  BY <1>1, TypeCorrect, PTL DEF Spec, AddressKept
-----------------------------------------------------------------------------
(* The inductive invariant.                                                *)

\* Steps that give no node a new address to take, with the gateway unchanged.
LEMMA HoldsLess ==
  ASSUME KnownOrOpen, Apart, ProposalFree, UNCHANGED serverVars,
         \A n \in EndNode : \A a \in Address : MayHold(n, a)' => MayHold(n, a)
  PROVE  KnownOrOpen' /\ Apart' /\ ProposalFree'
<1>1. Recorded' = Recorded /\ randomkeyid' = randomkeyid /\ proposedaddress' = proposedaddress
  BY DEF serverVars, Recorded
<1>. QED  BY <1>1 DEF KnownOrOpen, Apart, ProposalFree

\* Nothing new is on its way, and what the nodes have stays.
LEMMA FramesLess ==
  ASSUME Frames' \subseteq Frames, UNCHANGED addr
  PROVE  /\ JoinsTell => JoinsTell'
         /\ \A n \in Node : \A a \in Address :
              MayHold(n, a)' /\ (Mine(n)' => Mine(n) /\ queue'[n] = queue[n]) => MayHold(n, a)
  BY DEF JoinsTell, MayHold

LEMMA EndNodesSound ==
  ASSUME TypeOK, Shape, Sound, ~forgot', NEW n \in Node,
         NodeStep(n) \/ ACTIONMSG(n) \/ RestartNode(n)
  PROVE  Sound'
<1>. USE AddressTypes
<1>1. CASE Souliss_DynamicAddressing(n)
  <2>1. /\ \A m \in Node : m # n => addr'[m] = addr[m] /\ queue'[m] = queue[m]
        /\ addr[n] = Unset /\ UNCHANGED serverVars
    BY <1>1 DEF Souliss_DynamicAddressing, NeedsAddress, TypeOK
  <2>2. \A f \in Frames' : f \in Frames \/ f.kind \in {"DINADDRESSREQ", "SUBNETREQ"}
    <3>1. CASE net' = net
      BY <3>1 DEF Frames
    <3>2. ASSUME NEW k \in {"DINADDRESSREQ", "SUBNETREQ"}, NEW a \in Address,
                 net' = Sent(Frame(k, n, a))
          PROVE  \A f \in Frames' : f \in Frames \/ f.kind \in {"DINADDRESSREQ", "SUBNETREQ"}
      <4>1. Frame(k, n, a) \in FrameSet /\ Frame(k, n, a).kind = k
        BY DEF Frame, FrameSet, Kinds
      <4>2. Frames' \subseteq Frames \cup {Frame(k, n, a)}
        BY <3>2, <4>1, SentRange DEF Frames
      <4>. QED  BY <4>1, <4>2
    <3>3. queue[n].addr \in Address
      BY DEF TypeOK
    <3>. QED  BY <1>1, <3>1, <3>2, <3>3 DEF Souliss_DynamicAddressing
  <2>3. \/ addr' = addr /\ (Mine(n)' => Mine(n) /\ queue'[n] = queue[n])
        \/ HasAddress(n) /\ addr'[n] = queue[n].addr
    BY <1>1, AddressingConstants DEF Souliss_DynamicAddressing, TypeOK, Mine, NoData
  <2>4. JoinsTell'
    <3>1. \A m \in Node : addr[m] # Unset => addr'[m] = addr[m]
      BY <2>1
    <3>. QED  BY <2>2, <3>1 DEF Sound, JoinsTell
  <2>5. ASSUME NEW m \in EndNode, NEW a \in Address, MayHold(m, a)'  PROVE MayHold(m, a)
    <3>1. m \in Node
      BY DEF EndNode
    <3>2. CASE m # n
      BY <2>1, <2>2, <2>5, <3>1, <3>2 DEF MayHold, Mine
    <3>3. CASE m = n /\ addr' = addr /\ (Mine(n)' => Mine(n) /\ queue'[n] = queue[n])
      BY <2>1, <2>2, <2>5, <3>3 DEF MayHold, Mine
    <3>4. CASE m = n /\ HasAddress(n) /\ addr'[n] = queue[n].addr
      <4>1. a = queue[n].addr
        BY <2>5, <3>4, RightAddresses DEF MayHold, HasAddress
      <4>. QED  BY <2>1, <3>4, <4>1 DEF MayHold, HasAddress
    <3>. QED  BY <2>3, <3>2, <3>3, <3>4
  <2>. QED  BY <2>1, <2>4, <2>5, HoldsLess DEF Sound
<1>2. CASE Souliss_JoinNetwork(n)
  <2>. DEFINE g == Frame("JOIN", keyidval[n], addr[n])
  <2>1. g \in FrameSet /\ g.kind = "JOIN" /\ g.key = keyidval[n] /\ g.addr = addr[n]
    BY DEF TypeOK, Frame, FrameSet, Kinds
  <2>2. Frames' \subseteq Frames \cup {g} /\ UNCHANGED nodeVars /\ UNCHANGED serverVars /\ addr[n] # Unset
    BY <1>2, <2>1, SentRange DEF Souliss_JoinNetwork, Frames
  <2>3. JoinsTell'
    <3>1. g.key = n \/ (g.key = NoKey /\ n \notin NoEEPROM)
      BY <2>1, <2>2 DEF Shape, NodeShape
    <3>. QED  BY <2>1, <2>2, <3>1 DEF Sound, JoinsTell, nodeVars
  <2>4. \A m \in EndNode : \A a \in Address : MayHold(m, a)' => MayHold(m, a)
    BY <2>1, <2>2 DEF MayHold, Mine, nodeVars
  <2>. QED  BY <2>2, <2>3, <2>4, HoldsLess DEF Sound
<1>3. CASE ACTIONMSG(n)
  <2>1. Frames' = Frames /\ UNCHANGED addr /\ UNCHANGED serverVars
    BY <1>3 DEF ACTIONMSG, Frames
  <2>2. \A m \in Node : Mine(m)' => Mine(m) /\ queue'[m] = queue[m]
    BY <1>3, AddressingConstants DEF ACTIONMSG, Mine, NoData, TypeOK
  <2>3. \A m \in EndNode : \A a \in Address : MayHold(m, a)' => MayHold(m, a)
    BY <2>1, <2>2, FramesLess DEF EndNode
  <2>. QED  BY <2>1, <2>3, FramesLess, HoldsLess DEF Sound
<1>4. CASE RestartNode(n)
  <2>1. Frames' = Frames /\ UNCHANGED serverVars /\ (n \in NoEEPROM => ~Waits(n))
    BY <1>4 DEF RestartNode, Frames
  <2>2. n \in NoEEPROM => \A f \in Frames : f.key # n
    BY <2>1 DEF Waits, Frames, Range
  <2>3. /\ \A m \in Node : Mine(m)' => Mine(m) /\ queue'[m] = queue[m]
        /\ \A m \in Node : m # n \/ n \notin NoEEPROM => addr'[m] = addr[m]
        /\ n \in NoEEPROM => addr'[n] = Unset /\ ~Mine(n)'
    BY <1>4, AddressingConstants DEF RestartNode, Mine, NoData, TypeOK
  <2>4. JoinsTell'
    BY <2>1, <2>2, <2>3 DEF Sound, JoinsTell
  <2>5. \A m \in EndNode : \A a \in Address : MayHold(m, a)' => MayHold(m, a)
    BY <2>1, <2>2, <2>3 DEF MayHold, EndNode
  <2>. QED  BY <2>1, <2>4, <2>5, HoldsLess DEF Sound
<1>. QED  BY <1>1, <1>2, <1>3, <1>4 DEF NodeStep

\* A node's address is never the empty entry, and the nodes' differ in kind.
LEMMA HeldShape ==
  ASSUME Shape, NEW n \in EndNode, NEW a, MayHold(n, a)
  PROVE  a[2] >= 2 /\ a # Unset /\ a # SubnetAddr
<1>1. n \in Node /\ n \notin Supernode
  BY DEF EndNode
<1>2. RightAddr(n, a)
  BY <1>1, RightAddresses DEF MayHold, Shape, NodeShape, FrameShape
<1>. QED  BY <1>1, <1>2, SMT DEF RightAddr, Unset, SubnetAddr

\* An answer to a request adds an address that no end node may take.
LEMMA RequestSound ==
  ASSUME TypeOK, Shape, Sound, net # << >>, DINADDRESSREQ
  PROVE  Sound'
<1>. DEFINE key == Head(net).key
            g == Frame("DINADDRESSANS", key, proposedaddress')
<1>0. /\ Head(net) \in FrameSet /\ FrameShape(Head(net)) /\ Head(net).kind = "DINADDRESSREQ"
      /\ Range(Tail(net)) \subseteq Frames
  BY HeadTail DEF DINADDRESSREQ, Shape
<1>1. /\ UNCHANGED nodeVars /\ Recorded' = Recorded /\ addr' = addr
      /\ \A n : Mine(n)' = Mine(n) /\ queue'[n] = queue[n]
  BY DEF DINADDRESSREQ, Recorded, nodeVars, Mine
<1>2. CASE ~Accepts(key)
  <2>1. Frames' \subseteq Frames /\ UNCHANGED serverVars
    BY <1>0, <1>2 DEF DINADDRESSREQ, Frames, serverVars
  <2>2. \A n \in EndNode : \A a \in Address : MayHold(n, a)' => MayHold(n, a)
    BY <1>1, <2>1, FramesLess DEF EndNode
  <2>. QED  BY <1>1, <2>1, <2>2, FramesLess, HoldsLess DEF Sound
<1>3. CASE Accepts(key)
  <2>1. /\ randomkeyid \in {NoKey, key} /\ randomkeyid' = key /\ key \in Node
        /\ proposedaddress' = IF key \in Supernode THEN SupernodeAddress ELSE NodeAddress
    BY <1>0, <1>3, RightAddresses DEF DINADDRESSREQ, Accepts, FrameShape
  <2>2. proposedaddress' \in Address
    BY <2>1, AddressTypes, NodeAddressFree
  <2>3. /\ Frames' \subseteq Frames \cup {g}
        /\ g.kind = "DINADDRESSANS" /\ g.key = key /\ g.addr = proposedaddress'
    <3>1. net' = Rest("DINADDRESSANS", key, proposedaddress')
      BY <1>3 DEF DINADDRESSREQ
    <3>2. "DINADDRESSANS" \in Kinds /\ key \in Node \cup {NoKey}
      BY <1>0 DEF FrameSet, Kinds
    <3>3. Frames' \subseteq Frames \cup {g}
      BY <2>2, <3>1, <3>2, RestRange DEF Frames
    <3>. QED  BY <3>3 DEF Frame
  <2>. HIDE DEF g, key
  <2>4. JoinsTell'
    BY <1>1, <2>3 DEF Sound, JoinsTell
  <2>5. \A n \in EndNode : \A a \in Address :
          MayHold(n, a)' => MayHold(n, a) \/ (n = key /\ a = NodeAddress)
    BY <1>1, <2>1, <2>3 DEF MayHold, EndNode
  <2>6. \A n \in EndNode : \A a \in Address : n # key /\ MayHold(n, a) => a \in Recorded
    BY <2>1, AddressingConstants DEF Sound, KnownOrOpen, EndNode
  <2>7. NodeAddress \notin Recorded
    BY NodeAddressFree
  <2>8. KnownOrOpen'
    BY <1>1, <2>1, <2>5, <2>6 DEF KnownOrOpen
  <2>9. Apart'
    BY <2>5, <2>6, <2>7 DEF Sound, Apart
  <2>10. ProposalFree'
    BY <1>1, <2>1, NodeAddressFree DEF ProposalFree, EndNode
  <2>. QED  BY <2>4, <2>8, <2>9, <2>10 DEF Sound
<1>. QED  BY <1>2, <1>3

\* A join records the address; the request it closes leaves no address behind.
LEMMA JoinSound ==
  ASSUME TypeOK, Shape, Sound, net # << >>, JOIN, ~full'
  PROVE  Sound'
<1>. DEFINE a == Head(net).addr
            key == Head(net).key
<1>0. /\ Head(net) \in FrameSet /\ Head(net) \in Frames /\ Head(net).kind = "JOIN"
      /\ Range(Tail(net)) \subseteq Frames
  BY HeadTail DEF JOIN
<1>1. /\ UNCHANGED nodeVars /\ addr' = addr /\ proposedaddress' = proposedaddress
      /\ Frames' \subseteq Frames /\ \A n : Mine(n)' = Mine(n) /\ queue'[n] = queue[n]
  BY <1>0 DEF JOIN, nodeVars, Mine, Frames
<1>2. PICK m \in Node : /\ addr[m] # Unset /\ a = addr[m]
                        /\ key = m \/ key = NoKey
  BY <1>0 DEF Sound, JoinsTell
<1>3. PICK e \in Entry : table[e] \in {a, Unset} /\ table' = [table EXCEPT ![e] = a]
  <2>1. Places(a) # {} /\ table' = [table EXCEPT ![Min(Places(a))] = a]
    BY DEF JOIN
  <2>2. Places(a) \in SUBSET Nat
    BY SMT DEF Places, Entry
  <2>3. PICK x \in Places(a) : \A y \in Places(a) : x <= y
    BY <2>1, <2>2, LeastElement
  <2>4. Min(Places(a)) \in Places(a)
    BY <2>3 DEF Min
  <2>. QED  BY <2>1, <2>4 DEF Places
<1>4. a \in Recorded' /\ \A b \in Recorded : b # Unset => b \in Recorded'
  <2>1. table'[e] = a /\ \A d \in Entry : d # e => table'[d] = table[d]
    BY <1>3 DEF TypeOK
  <2>. QED  BY <1>3, <2>1 DEF Recorded
<1>5. \A n \in EndNode : \A b \in Address : MayHold(n, b)' => MayHold(n, b)
  BY <1>1, FramesLess DEF EndNode
<1>6. JoinsTell'
  BY <1>1, FramesLess DEF Sound
<1>7. Apart'
  BY <1>5 DEF Sound, Apart
<1>8. randomkeyid' = IF Done(key, table') THEN NoKey ELSE randomkeyid
  BY DEF JOIN
<1>. HIDE DEF a, key
<1>9. KnownOrOpen'
  <2>1. SUFFICES ASSUME NEW n \in EndNode, NEW b \in Address, MayHold(n, b)'
                 PROVE  b \in Recorded' \/ n = randomkeyid'
    BY DEF KnownOrOpen
  <2>2. MayHold(n, b) /\ b # Unset /\ n \in Node /\ n # NoKey
    BY <1>5, <2>1, HeldShape, AddressingConstants DEF EndNode
  <2>3. CASE b \in Recorded
    BY <1>4, <2>2, <2>3
  <2>4. CASE b \notin Recorded /\ n = randomkeyid /\ Done(key, table')
    <3>1. m = n
      <4>1. CASE randomkeyid = key
        BY <1>2, <2>2, <2>4, <4>1
      <4>2. CASE \E d \in Entry : table'[d] = proposedaddress
        <5>1. proposedaddress \notin Recorded /\ proposedaddress[2] >= 2
          BY <2>1, <2>4 DEF Sound, ProposalFree
        <5>2. a = proposedaddress
          BY <1>3, <4>2, <5>1 DEF TypeOK, Recorded
        <5>3. m \in EndNode
          <6>1. RightAddr(m, a)
            BY <1>2 DEF Shape, NodeShape
          <6>2. ~(a[2] = 1)
            BY <5>1, <5>2, SMT
          <6>. QED  BY <6>1, <6>2 DEF RightAddr, EndNode
        <5>4. MayHold(m, a) /\ a \in Address
          BY <1>2 DEF MayHold, TypeOK
        <5>. QED  BY <2>4, <5>1, <5>2, <5>3, <5>4 DEF Sound, KnownOrOpen
      <4>. QED  BY <2>4, <4>1, <4>2 DEF Done
    <3>2. b = a
      BY <1>2, <2>2, <3>1 DEF MayHold
    <3>. QED  BY <1>4, <3>2
  <2>5. CASE b \notin Recorded /\ n = randomkeyid /\ ~Done(key, table')
    BY <1>8, <2>5
  <2>. QED  BY <2>2, <2>3, <2>4, <2>5 DEF Sound, KnownOrOpen
<1>10. ProposalFree'
  <2>1. SUFFICES ASSUME randomkeyid' \in EndNode
                 PROVE  proposedaddress \notin Recorded' /\ proposedaddress[2] >= 2
    BY <1>1 DEF ProposalFree
  <2>2. ~Done(key, table') /\ randomkeyid' = randomkeyid
    BY <1>8, <2>1, AddressingConstants DEF EndNode
  <2>3. proposedaddress[2] >= 2
    BY <2>1, <2>2 DEF Sound, ProposalFree
  <2>. QED  BY <2>2, <2>3 DEF Done, Recorded
<1>. QED  BY <1>6, <1>7, <1>9, <1>10 DEF Sound

LEMMA AnswerSound ==
  ASSUME TypeOK, Shape, Sound, net # << >>, SUBNETREQ \/ Answer
  PROVE  Sound'
<1>0. /\ Head(net) \in FrameSet /\ Head(net) \in Frames /\ FrameShape(Head(net))
      /\ Range(Tail(net)) \subseteq Frames
  BY HeadTail DEF Shape
<1>1. CASE SUBNETREQ
  <2>. DEFINE g == Frame("SUBNETANS", Head(net).key, SubnetAddr)
  <2>1. /\ Frames' \subseteq Frames \cup {g} /\ g.kind = "SUBNETANS"
        /\ UNCHANGED nodeVars /\ UNCHANGED serverVars
    BY <1>0, <1>1, AddressTypes, RestRange DEF SUBNETREQ, FrameSet, Kinds, Frames, Frame
  <2>. HIDE DEF g
  <2>2. JoinsTell'
    BY <2>1 DEF Sound, JoinsTell, nodeVars
  <2>3. \A n \in EndNode : \A a \in Address : MayHold(n, a)' => MayHold(n, a)
    BY <2>1 DEF MayHold, Mine, nodeVars
  <2>. QED  BY <2>1, <2>2, <2>3, HoldsLess DEF Sound
<1>2. CASE Answer
  <2>1. Frames' \subseteq Frames /\ UNCHANGED addr /\ UNCHANGED serverVars
    BY <1>0, <1>2 DEF Answer, Frames
  <2>2. \A n \in EndNode : \A a \in Address : MayHold(n, a)' => MayHold(n, a)
    <3>1. SUFFICES ASSUME NEW n \in EndNode, NEW a \in Address, MayHold(n, a)'
                   PROVE  MayHold(n, a)
      OBVIOUS
    <3>2. n \in Node
      BY DEF EndNode
    <3>3. CASE queue'[n] = queue[n]
      BY <2>1, <3>1, <3>2, <3>3, FramesLess DEF Mine
    <3>4. CASE queue'[n] = [key |-> Head(net).key, addr |-> Head(net).addr]
      <4>1. CASE Mine(n)' /\ queue'[n].addr = a /\ a[2] # 0 /\ addr[n] = Unset
        <5>1. Head(net).key = n /\ Head(net).addr = a
          BY <3>4, <4>1 DEF Mine
        <5>2. Head(net).kind = "DINADDRESSANS"
          BY <1>0, <1>2, <4>1, <5>1, RightAddresses DEF Answer, FrameShape
        <5>. QED  BY <1>0, <4>1, <5>1, <5>2 DEF MayHold
      <4>2. CASE ~(Mine(n)' /\ queue'[n].addr = a /\ a[2] # 0 /\ addr[n] = Unset)
        BY <2>1, <3>1, <4>2 DEF MayHold
      <4>. QED  BY <4>1, <4>2
    <3>. QED  BY <1>2, <3>2, <3>3, <3>4 DEF Answer
  <2>. QED  BY <2>1, <2>2, FramesLess, HoldsLess DEF Sound
<1>. QED  BY <1>1, <1>2

\* A restart that does not lose a given address leaves none out of the table.
LEMMA RestartSound ==
  ASSUME TypeOK, Shape, Sound, RestartGateway, ~forgot'
  PROVE  Sound'
<1>1. /\ UNCHANGED nodeVars /\ Frames' = Frames /\ randomkeyid' = NoKey
      /\ \A a \in Given : \E e \in Entry : table'[e] = a
  BY DEF RestartGateway, Frames
<1>2. \A n \in EndNode : \A a \in Address : MayHold(n, a)' = MayHold(n, a)
  BY <1>1 DEF MayHold, Mine, nodeVars
<1>3. ASSUME NEW n \in EndNode, NEW a \in Address, MayHold(n, a)
      PROVE  a \in Recorded'
  <2>1. n \in Node /\ a # Unset /\ a # SubnetAddr
    BY <1>3, HeldShape DEF EndNode
  <2>2. a \in Given
    BY <1>3, <2>1 DEF MayHold, Given, Frames, Range
  <2>. QED  BY <1>1, <2>2 DEF Recorded
<1>4. JoinsTell'
  BY <1>1 DEF Sound, JoinsTell, nodeVars
<1>5. KnownOrOpen'
  BY <1>2, <1>3 DEF KnownOrOpen
<1>6. Apart'
  BY <1>2 DEF Sound, Apart
<1>7. ProposalFree'
  BY <1>1, AddressingConstants DEF ProposalFree, EndNode
<1>. QED  BY <1>4, <1>5, <1>6, <1>7 DEF Sound

\* Unless the table was full or a restart forgot an address, what nodes have
\* and may take is apart, and in the table but for the open request.
LEMMA SoundCorrect == Spec => [](forgot \/ full \/ Sound)
<1>1. Init => Sound
  BY AddressingConstants
  DEF Init, Sound, JoinsTell, KnownOrOpen, Apart, ProposalFree, MayHold, Mine, NoData, Frames,
      Range, EndNode
<1>2. TypeOK /\ Shape /\ (forgot \/ full \/ Sound) /\ [Next]_vars => (forgot \/ full \/ Sound)'
  <2>. SUFFICES ASSUME TypeOK, Shape, forgot \/ full \/ Sound, [Next]_vars, ~forgot', ~full'
                PROVE  Sound'
    OBVIOUS
  <2>0. Sound
    BY DEF Next, NodeStep, Souliss_DynamicAddressing, Souliss_JoinNetwork, ACTIONMSG, RestartNode,
           Deliver, SUBNETREQ, DINADDRESSREQ, JOIN, Answer, Lose, RestartGateway, vars
  <2>1. ASSUME NEW n \in Node, NodeStep(n) \/ ACTIONMSG(n) \/ RestartNode(n)  PROVE Sound'
    BY <2>0, <2>1, EndNodesSound
  <2>2. CASE Deliver
    BY <2>0, <2>2, RequestSound, JoinSound, AnswerSound DEF Deliver
  <2>3. CASE Lose
    <3>1. Frames' \subseteq Frames /\ UNCHANGED nodeVars /\ UNCHANGED serverVars
      BY <2>3, HeadTail DEF Lose, Frames
    <3>2. \A n \in EndNode : \A a \in Address : MayHold(n, a)' => MayHold(n, a)
      BY <3>1, FramesLess DEF nodeVars, Mine, EndNode
    <3>. QED  BY <2>0, <3>1, <3>2, FramesLess, HoldsLess DEF Sound, nodeVars
  <2>4. CASE RestartGateway
    BY <2>0, <2>4, RestartSound
  <2>5. CASE UNCHANGED vars
    <3>1. Frames' \subseteq Frames /\ UNCHANGED nodeVars /\ UNCHANGED serverVars
      BY <2>5 DEF vars, Frames
    <3>2. \A n \in EndNode : \A a \in Address : MayHold(n, a)' => MayHold(n, a)
      BY <3>1, FramesLess DEF nodeVars, Mine, EndNode
    <3>. QED  BY <2>0, <3>1, <3>2, FramesLess, HoldsLess DEF Sound, nodeVars
  <2>. QED  BY <2>1, <2>2, <2>3, <2>4, <2>5 DEF Next
<1>. QED  BY <1>1, <1>2, TypeCorrect, ShapeCorrect, PTL DEF Spec

\* Two nodes never have the same address, for any number of nodes, entries and
\* faults, unless the table was full or a restart forgot an address.
THEOREM AddressesUniqueHolds == Spec => []AddressesUnique
<1>1. TypeOK /\ (forgot \/ full \/ Sound) => AddressesUnique
  <2>1. ASSUME TypeOK, Sound, NEW m \in EndNode, NEW n \in EndNode, m # n, addr[m] # Unset
        PROVE  addr[m] # addr[n]
    <3>1. MayHold(m, addr[m]) /\ addr[m] \in Address
      BY <2>1 DEF MayHold, TypeOK, EndNode
    <3>2. addr[m] = addr[n] => MayHold(n, addr[m])
      BY <2>1 DEF MayHold
    <3>. QED  BY <2>1, <3>1, <3>2 DEF Sound, Apart
  <2>. QED  BY <2>1 DEF AddressesUnique
<1>. QED  BY <1>1, TypeCorrect, SoundCorrect, PTL
-----------------------------------------------------------------------------
(* Broadcasts over bridges and repeaters.                                  *)

\* s is a sequence, of whatever.
IsSeq(s) == s \in Seq(Range(s))

LEMMA SeqOf ==
  ASSUME NEW S, NEW s \in Seq(S)
  PROVE  IsSeq(s)
<1>. DEFINE R == Range(s)
<1>1. Len(s) \in Nat /\ DOMAIN s = 1 .. Len(s) /\ s = [i \in 1 .. Len(s) |-> s[i]]
  OBVIOUS
<1>2. \A i \in 1 .. Len(s) : s[i] \in R
  BY <1>1 DEF Range
<1>. HIDE DEF R
<1>3. s \in Seq(R)
  BY <1>1, <1>2
<1>. QED  BY <1>3 DEF IsSeq, R

LEMMA SeqTail ==
  ASSUME NEW s, IsSeq(s), s # << >>
  PROVE  /\ IsSeq(Tail(s)) /\ Head(s) \in Range(s)
         /\ Range(s) = {Head(s)} \cup Range(Tail(s))
<1>1. /\ s \in Seq(Range(s)) /\ Len(s) \in Nat \ {0} /\ DOMAIN s = 1 .. Len(s)
      /\ Head(s) = s[1]
  BY DEF IsSeq
<1>2. /\ Tail(s) \in Seq(Range(s)) /\ DOMAIN Tail(s) = 1 .. Len(s) - 1
      /\ \A i \in 1 .. Len(s) - 1 : Tail(s)[i] = s[i + 1]
  BY <1>1
<1>3. IsSeq(Tail(s))
  BY <1>2, SeqOf
<1>4. Range(s) \subseteq {Head(s)} \cup Range(Tail(s))
  <2>. SUFFICES ASSUME NEW i \in 1 .. Len(s) PROVE s[i] \in {s[1]} \cup Range(Tail(s))
    BY <1>1 DEF Range
  <2>1. i = 1 \/ (i - 1 \in 1 .. Len(s) - 1 /\ s[i] = Tail(s)[i - 1])
    BY <1>1, <1>2
  <2>. QED  BY <1>2, <2>1 DEF Range
<1>5. {Head(s)} \cup Range(Tail(s)) \subseteq Range(s)
  BY <1>1, <1>2 DEF Range
<1>6. Head(s) \in Range(s)
  BY <1>1 DEF Range
<1>7. Range(s) = {Head(s)} \cup Range(Tail(s))
  BY <1>4, <1>5, Zenon
<1>. QED  BY <1>3, <1>6, <1>7 DEF IsSeq

LEMMA SeqConcat ==
  ASSUME NEW s, IsSeq(s), NEW t, IsSeq(t)
  PROVE  IsSeq(s \o t) /\ Range(s \o t) = Range(s) \cup Range(t)
<1>. DEFINE R == Range(s) \cup Range(t)
<1>1. s \in Seq(R) /\ t \in Seq(R)
  BY DEF IsSeq
<1>2. /\ DOMAIN s = 1 .. Len(s) /\ DOMAIN t = 1 .. Len(t) /\ Len(s) \in Nat /\ Len(t) \in Nat
      /\ s \o t \in Seq(R) /\ Len(s \o t) = Len(s) + Len(t)
      /\ DOMAIN (s \o t) = 1 .. Len(s) + Len(t)
      /\ \A i \in 1 .. Len(s) + Len(t) :
           (s \o t)[i] = IF i <= Len(s) THEN s[i] ELSE t[i - Len(s)]
  BY <1>1
<1>3. R \subseteq Range(s \o t)
  <2>1. ASSUME NEW i \in 1 .. Len(s) PROVE s[i] \in Range(s \o t)
    <3>1. i \in 1 .. Len(s) + Len(t) /\ i <= Len(s)
      BY <1>2
    <3>. QED  BY <1>2, <3>1 DEF Range
  <2>2. ASSUME NEW i \in 1 .. Len(t) PROVE t[i] \in Range(s \o t)
    <3>1. /\ i + Len(s) \in 1 .. Len(s) + Len(t) /\ ~ (i + Len(s) <= Len(s))
          /\ i + Len(s) - Len(s) = i
      BY <1>2
    <3>2. (s \o t)[i + Len(s)] = t[i]
      BY <1>2, <3>1
    <3>. QED  BY <1>2, <3>1, <3>2 DEF Range
  <2>. QED  BY <1>2, <2>1, <2>2 DEF Range
<1>4. Range(s \o t) \subseteq R
  <2>. HIDE DEF R
  <2>. QED  BY <1>2 DEF Range
<1>5. IsSeq(s \o t)
  BY <1>2, SeqOf
<1>. HIDE DEF R
<1>6. Range(s \o t) = R
  BY <1>3, <1>4
<1>. QED  BY <1>5, <1>6 DEF R

LEMMA SeqSmall ==
  /\ IsSeq(<< >>) /\ Range(<< >>) = {}
  /\ \A x : IsSeq(<<x>>) /\ Range(<<x>>) = {x}
  BY DEF IsSeq, Range
-----------------------------------------------------------------------------
\* Addresses of devices, and what is known of them.
Addresses == UNION {nw.addr[d] : d \in Device}

LEMMA NetworkFacts ==
  ASSUME nw \in Networks
  PROVE  /\ \A d \in Device : Media(d) \subseteq {RADIO, BUS}
         /\ \A d \in Device : \A m \in Media(d) : Addr(d, m) \in nw.addr[d]
         /\ \A a \in Addresses : a \notin Broadcasts
<1>1. NetworkType(nw)
  BY VNetConstants
<1>2. \A d \in Device : Media(d) \subseteq {RADIO, BUS}
  BY DEF Media, vNet_GetMedia
<1>3. ASSUME NEW d \in Device, NEW m \in Media(d)
      PROVE  Addr(d, m) \in nw.addr[d]
  BY <1>3 DEF Media, Addr
<1>4. \A a \in Addresses : a \notin Broadcasts
  BY <1>1 DEF NetworkType, Addresses, Device
<1>. QED  BY <1>2, <1>3, <1>4

LEMMA BroadcastsDiffer ==
  /\ BRDC # nBRDC /\ wBRDC # nBRDC /\ BRDC # wBRDC
  /\ Broadcasts = {BRDC, wBRDC, nBRDC}
  BY DEF BRDC, wBRDC, nBRDC, Broadcasts

\* What one transmission adds to the inboxes.
LEMMA TransmitAdds ==
  ASSUME NEW d, NEW frames, NEW box, NEW e \in Device, NEW m \in Media(e), IsSeq(box[e][m]),
         NEW r, r = Transmit(d, frames, box)
  PROVE  /\ IsSeq(r[e][m])
         /\ Range(box[e][m]) \subseteq Range(r[e][m])
         /\ Range(r[e][m]) \subseteq Range(box[e][m]) \cup Heard(d, frames, e, m)
         /\ Heard(d, frames, e, m) # {} =>
              \E f \in Heard(d, frames, e, m) : f \in Range(r[e][m])
<1>. DEFINE h == Heard(d, frames, e, m)
            t == IF h = {} THEN << >> ELSE <<CHOOSE f \in h : TRUE>>
<1>1. r[e][m] = box[e][m] \o t
  BY DEF Transmit
<1>2. CASE h = {}
  <2>1. IsSeq(t) /\ Range(t) = {}
    BY <1>2, SeqSmall
  <2>. HIDE DEF t, h
  <2>. QED  BY <1>1, <1>2, <2>1, SeqConcat DEF h
<1>3. CASE h # {}
  <2>1. PICK f \in h : t = <<f>>
    BY <1>3
  <2>2. IsSeq(t) /\ Range(t) = {f}
    BY <2>1, SeqSmall
  <2>. HIDE DEF t, h
  <2>. QED  BY <1>1, <1>3, <2>1, <2>2, SeqConcat DEF h
<1>. QED  BY <1>2, <1>3

LEMMA TransmitDomain ==
  ASSUME NEW d, NEW frames, NEW box, NEW r, r = Transmit(d, frames, box)
  PROVE  DOMAIN r = Device /\ \A e \in Device : DOMAIN r[e] = Media(e)
  BY DEF Transmit

\* A broadcast is heard by all that the sender reaches over its media, and
\* by nobody else.
LEMMA HeardOnAll ==
  ASSUME NEW d, NEW media, NEW dst, NEW src, NEW id, NEW e, NEW m,
         NEW h, h = Heard(d, OnAll(media, dst, src, id), e, m)
  PROVE  /\ \A f \in h : f.id = id /\ f.dst = dst /\ f.o_src = src[m] /\ m \in media
         /\ m \in media /\ Reaches(d, e, m) => h # {}
<1>1. ASSUME NEW f \in h
      PROVE  f.id = id /\ f.dst = dst /\ f.o_src = src[m] /\ m \in media
  <2>1. PICK g \in OnAll(media, dst, src, id) :
           /\ g.media = m
           /\ f = [src |-> Addr(d, m), dst |-> g.dst, o_src |-> g.o_src, id |-> g.id]
    BY DEF Heard
  <2>2. g.id = id /\ g.dst = dst /\ g.o_src = src[g.media] /\ g.media \in media
    BY DEF OnAll
  <2>. QED  BY <2>1, <2>2
<1>2. ASSUME m \in media, Reaches(d, e, m)
      PROVE  h # {}
  <2>. DEFINE g == [media |-> m, to |-> BRDC, dst |-> dst, o_src |-> src[m], id |-> id]
  <2>1. g \in OnAll(media, dst, src, id)
    BY <1>2 DEF OnAll
  <2>2. g.media = m /\ Reaches(d, e, m) /\ g.to \in Broadcasts \cup {Addr(e, m)}
    BY <1>2, BroadcastsDiffer
  <2>. HIDE DEF g
  <2>. QED  BY <2>1, <2>2 DEF Heard
<1>. QED  BY <1>1, <1>2

\* What is sent to one address keeps its message and its source.
LEMMA HeardUnicast ==
  ASSUME NEW rt, NEW d, NEW a, NEW src, NEW id,
         NEW frames, frames \subseteq Unicast(rt, d, a, src, id),
         NEW e, NEW m, NEW f \in Heard(d, frames, e, m)
  PROVE  f.id = id /\ f.o_src = src
<1>1. PICK g \in frames :
         f = [src |-> Addr(d, m), dst |-> g.dst, o_src |-> g.o_src, id |-> g.id]
  BY DEF Heard
<1>2. g.id = id /\ g.o_src = src
  BY DEF Unicast
<1>. QED  BY <1>1, <1>2
-----------------------------------------------------------------------------
\* What is on its way, and of what messages.
FrameRight(f, messages) ==
  f.id \in DOMAIN messages /\ (messages[f.id].dst \in Broadcasts => f.o_src \in Addresses)

InboxesRight(box, messages) ==
  /\ DOMAIN box = Device
  /\ \A d \in Device : DOMAIN box[d] = Media(d)
  /\ \A d \in Device : \A m \in Media(d) :
       IsSeq(box[d][m]) /\ \A f \in Range(box[d][m]) : FrameRight(f, messages)

MessageRight(s) ==
  /\ DOMAIN s = {"from", "dst", "as"} /\ s.from \in Device
  /\ DOMAIN s.as = Device
  /\ s.dst \in Broadcasts => \A d \in Device : s.as[d] \subseteq Addresses

Shaped ==
  /\ nw \in Networks
  /\ InboxesRight(inbox, sent)
  /\ IsSeq(sent) /\ IsSeq(got) /\ Len(got) = Len(sent)
  /\ \A k \in DOMAIN sent : MessageRight(sent[k])

\* A copy of broadcast k is at place c.
CopyAt(box, k, c) ==
  /\ c[1] \in Device /\ c[2] \in Media(c[1])
  /\ \E f \in Range(box[c[1]][c[2]]) : f.id = k /\ f.dst = c[3]

\* Who has not processed broadcast k is still to be got to by some copy.
Owed(gets) ==
  \A k \in DOMAIN sent :
    Broadcast(k) /\ (RADIO \in Media(sent[k].from) \/ nw.deaf = {}) =>
      \A e \in Device \ {sent[k].from} :
        e \in got[k] \/ \E c \in Place : CopyAt(inbox, k, c) /\ e \in gets[c]

VNetInv == Shaped /\ \E gets \in [Place -> SUBSET Device] : CoveredBy(gets) /\ Owed(gets)

LEMMA VNetInitInv ==
  ASSUME VNetInit, Covered
  PROVE  VNetInv
<1>1. sent = << >> /\ got = << >> /\ nw \in Networks
  BY DEF VNetInit
<1>2. InboxesRight(inbox, sent)
  <2>1. inbox = [d \in Device |-> [m \in Media(d) |-> << >>]]
    BY DEF VNetInit
  <2>. QED  BY <2>1, SeqSmall DEF InboxesRight
<1>3. Shaped
  BY <1>1, <1>2, SeqSmall DEF Shaped
<1>4. \A gets : Owed(gets)
  BY <1>1 DEF Owed
<1>. QED  BY <1>3, <1>4 DEF VNetInv, Covered

\* A new message.
LEMMA NewMessage ==
  ASSUME Shaped, NEW s, MessageRight(s), sent' = Append(sent, s), got' = Append(got, {})
  PROVE  /\ IsSeq(sent') /\ IsSeq(got') /\ Len(got') = Len(sent')
         /\ DOMAIN sent = 1 .. Len(sent) /\ Len(sent) \in Nat
         /\ DOMAIN sent' = 1 .. Len(sent) + 1
         /\ sent'[Len(sent) + 1] = s
         /\ \A k \in DOMAIN sent : sent'[k] = sent[k] /\ got'[k] = got[k]
         /\ \A k \in DOMAIN sent' : MessageRight(sent'[k])
<1>1. sent \in Seq(Range(sent) \cup {s}) /\ got \in Seq(Range(got) \cup {{}})
  BY DEF Shaped, IsSeq
<1>2. sent' \in Seq(Range(sent) \cup {s}) /\ got' \in Seq(Range(got) \cup {{}})
  BY <1>1
<1>3. /\ Len(got') = Len(sent')
      /\ DOMAIN sent = 1 .. Len(sent) /\ Len(sent) \in Nat
      /\ DOMAIN sent' = 1 .. Len(sent) + 1
      /\ sent'[Len(sent) + 1] = s
      /\ \A k \in DOMAIN sent : sent'[k] = sent[k] /\ got'[k] = got[k]
  <2>1. Len(got) = Len(sent)
    BY DEF Shaped
  <2>. QED  BY <1>1, <2>1
<1>4. \A k \in DOMAIN sent' : MessageRight(sent'[k])
  <2>1. \A k \in DOMAIN sent : MessageRight(sent[k])
    BY DEF Shaped
  <2>. QED  BY <1>3, <2>1
<1>. QED  BY <1>2, <1>3, <1>4, SeqOf

\* What of the inboxes a transmission keeps, and what it may add.
LEMMA InboxesTransmit ==
  ASSUME NEW d, NEW frames, NEW box, NEW messages, InboxesRight(box, messages),
         NEW next, DOMAIN messages \subseteq DOMAIN next,
         \A k \in DOMAIN messages : next[k].dst = messages[k].dst,
         \A e \in Device : \A m \in Media(e) : \A f \in Heard(d, frames, e, m) : FrameRight(f, next)
  PROVE  /\ InboxesRight(Transmit(d, frames, box), next)
         /\ \A k, c : CopyAt(box, k, c) => CopyAt(Transmit(d, frames, box), k, c)
<1>. DEFINE r == Transmit(d, frames, box)
<1>1. \A e \in Device : \A m \in Media(e) :
        /\ IsSeq(r[e][m])
        /\ Range(box[e][m]) \subseteq Range(r[e][m])
        /\ Range(r[e][m]) \subseteq Range(box[e][m]) \cup Heard(d, frames, e, m)
  BY TransmitAdds DEF InboxesRight
<1>2. DOMAIN r = Device /\ \A e \in Device : DOMAIN r[e] = Media(e)
  BY TransmitDomain
<1>. HIDE DEF r
<1>3. \A f : FrameRight(f, messages) => FrameRight(f, next)
  BY DEF FrameRight
<1>4. InboxesRight(r, next)
  BY <1>1, <1>2, <1>3 DEF InboxesRight
<1>5. \A k, c : CopyAt(box, k, c) => CopyAt(r, k, c)
  BY <1>1 DEF CopyAt
<1>. QED  BY <1>4, <1>5 DEF r
\* A broadcast gets to every place where it is heard.
LEMMA CopiesSent ==
  ASSUME NEW d, NEW media, NEW dst, NEW src, NEW id, NEW box, NEW messages,
         InboxesRight(box, messages), NEW c \in Copies(d, media, dst)
  PROVE  CopyAt(Transmit(d, OnAll(media, dst, src, id), box), id, c)
<1>. DEFINE frames == OnAll(media, dst, src, id)
            r == Transmit(d, frames, box)
            h == Heard(d, frames, c[1], c[2])
<1>1. /\ c[1] \in Device /\ c[2] \in media /\ Reaches(d, c[1], c[2]) /\ c[3] = dst
      /\ c[2] \in Media(c[1])
  BY DEF Copies, Place, Reaches
<1>2. h # {} /\ \A f \in h : f.id = id /\ f.dst = dst
  BY <1>1, HeardOnAll
<1>3. \E f \in h : f \in Range(r[c[1]][c[2]])
  BY <1>1, <1>2, TransmitAdds DEF InboxesRight
<1>. HIDE DEF r, h
<1>. QED  BY <1>1, <1>2, <1>3 DEF CopyAt, r

\* The network does not change.
LEMMA SameNetwork ==
  ASSUME UNCHANGED nw
  PROVE  /\ Device' = Device /\ Addresses' = Addresses /\ Place' = Place
         /\ \A d : Media(d)' = Media(d)
         /\ \A gets : CoveredBy(gets) => CoveredBy(gets)'
<1>1. Device' = Device /\ Addresses' = Addresses /\ Place' = Place
  BY DEF Device, Addresses, Place
<1>2. \A d : Media(d)' = Media(d)
  BY DEF Media
<1>3. \A d, m : Addr(d, m)' = Addr(d, m)
  BY DEF Addr
<1>4. \A d, e, m : Reaches(d, e, m) => Reaches(d, e, m)'
  BY <1>2, <1>3 DEF Reaches
<1>5. \A d, e, m : Reaches(d, e, m)' => Reaches(d, e, m)
  BY <1>2, <1>3 DEF Reaches
<1>6. \A d, media, dst : Copies(d, media, dst)' = Copies(d, media, dst)
  BY <1>1, <1>4, <1>5 DEF Copies
<1>7. \A c : Repeats(c)' = Repeats(c)
  BY <1>2, <1>6 DEF Repeats, Super, RepeatOn, Repeated
<1>8. \A gets, c : HeardFrom(gets, c)' = HeardFrom(gets, c)
  BY <1>7 DEF HeardFrom
<1>9. \A gets : CoveredBy(gets) => CoveredBy(gets)'
  BY <1>1, <1>2, <1>6, <1>8 DEF CoveredBy
<1>. QED  BY <1>1, <1>2, <1>9

LEMMA ShapedNext ==
  ASSUME UNCHANGED nw, nw \in Networks, InboxesRight(inbox', sent'),
         IsSeq(sent'), IsSeq(got'), Len(got') = Len(sent'),
         \A k \in DOMAIN sent' : MessageRight(sent'[k])
  PROVE  Shaped'
<1>1. InboxesRight(inbox, sent)'
  BY SameNetwork DEF InboxesRight, FrameRight
<1>2. (\A k \in DOMAIN sent : MessageRight(sent[k]))'
  BY SameNetwork DEF MessageRight
<1>3. IsSeq(sent)' /\ IsSeq(got)'
  BY DEF IsSeq
<1>. QED  BY <1>1, <1>2, <1>3 DEF Shaped

\* A copy stays where it was, or makes good what it owed.
LEMMA OwedNext ==
  ASSUME UNCHANGED nw, NEW gets,
         \A k \in DOMAIN sent' :
           sent'[k].dst = BRDC /\ (RADIO \in Media(sent'[k].from) \/ nw.deaf = {}) =>
             \A e \in Device \ {sent'[k].from} :
               e \in got'[k] \/ \E c \in Place : CopyAt(inbox', k, c) /\ e \in gets[c]
  PROVE  Owed(gets)'
<1>1. \A k, c : CopyAt(inbox', k, c) => CopyAt(inbox, k, c)'
  BY SameNetwork DEF CopyAt
<1>. QED  BY <1>1, SameNetwork DEF Owed, Broadcast
LEMMA BroadcastStep ==
  ASSUME Shaped, UNCHANGED nw, NEW gets, CoveredBy(gets), Owed(gets),
         NEW d \in Device, NEW dst \in Broadcasts, vNet_SendBroadcast(d, dst)
  PROVE  Shaped' /\ Owed(gets)'
<1>. DEFINE id == Len(sent) + 1
            own == [m \in Media(d) |-> Addr(d, m)]
            s == [from |-> d, dst |-> dst, as |-> [e \in Device |-> {}]]
            frames == OnAll(Media(d), dst, own, id)
<1>1. /\ inbox' = Transmit(d, frames, inbox)
      /\ sent' = Append(sent, s) /\ got' = Append(got, {})
  BY DEF vNet_SendBroadcast
<1>2. MessageRight(s) /\ s.dst = dst /\ s.from = d
  BY DEF MessageRight
<1>. HIDE DEF s
<1>3. /\ IsSeq(sent') /\ IsSeq(got') /\ Len(got') = Len(sent')
      /\ DOMAIN sent = 1 .. Len(sent) /\ Len(sent) \in Nat
      /\ DOMAIN sent' = 1 .. Len(sent) + 1
      /\ sent'[id] = s
      /\ \A k \in DOMAIN sent : sent'[k] = sent[k] /\ got'[k] = got[k]
      /\ \A k \in DOMAIN sent' : MessageRight(sent'[k])
  BY <1>1, <1>2, NewMessage
<1>4. nw \in Networks /\ InboxesRight(inbox, sent)
  BY DEF Shaped
<1>5. ASSUME NEW e \in Device, NEW m \in Media(e), NEW f \in Heard(d, frames, e, m)
      PROVE  FrameRight(f, sent')
  <2>1. f.id = id /\ f.o_src = own[m] /\ m \in Media(d)
    BY HeardOnAll
  <2>2. own[m] \in Addresses
    BY <1>4, <2>1, NetworkFacts DEF Addresses
  <2>. QED  BY <1>3, <2>1, <2>2 DEF FrameRight
<1>6. DOMAIN sent \subseteq DOMAIN sent' /\ \A k \in DOMAIN sent : sent'[k].dst = sent[k].dst
  BY <1>3
<1>. HIDE DEF frames, own
<1>7. /\ InboxesRight(inbox', sent')
      /\ \A k, c : CopyAt(inbox, k, c) => CopyAt(inbox', k, c)
  BY <1>1, <1>4, <1>5, <1>6, InboxesTransmit
<1>8. Shaped'
  BY <1>3, <1>4, <1>7, ShapedNext
<1>9. ASSUME NEW k \in DOMAIN sent',
             sent'[k].dst = BRDC, RADIO \in Media(sent'[k].from) \/ nw.deaf = {},
             NEW e \in Device \ {sent'[k].from}
      PROVE  e \in got'[k] \/ \E c \in Place : CopyAt(inbox', k, c) /\ e \in gets[c]
  <2>1. CASE k \in DOMAIN sent
    <3>1. e \in got[k] \/ \E c \in Place : CopyAt(inbox, k, c) /\ e \in gets[c]
      BY <1>3, <1>9, <2>1 DEF Owed, Broadcast
    <3>. QED  BY <1>3, <1>7, <2>1, <3>1
  <2>2. CASE k = id
    <3>1. dst = BRDC /\ sent'[k].from = d
      BY <1>2, <1>3, <1>9, <2>2
    <3>2. PICK c \in Copies(d, Media(d), BRDC) : e \in gets[c]
      BY <1>9, <3>1 DEF CoveredBy
    <3>3. c \in Place
      BY DEF Copies
    <3>4. CopyAt(inbox', id, c)
      BY <1>1, <1>4, <3>1, CopiesSent DEF frames
    <3>. QED  BY <2>2, <3>2, <3>3, <3>4
  <2>. QED  BY <1>3, <2>1, <2>2
<1>10. Owed(gets)'
  BY <1>9, OwedNext
<1>. QED  BY <1>8, <1>10

LEMMA SendStep ==
  ASSUME Shaped, UNCHANGED nw, NEW gets, Owed(gets),
         NEW d \in Device, NEW a \in Known(d), vNet_Send(d, a)
  PROVE  Shaped' /\ Owed(gets)'
<1>. DEFINE id == Len(sent) + 1
            out == OutPath(route, d, a)
            src == CHOOSE b \in nw.addr[d] : \E to \in out : vNet_GetMedia(to) = vNet_GetMedia(b)
            s == [from |-> d, dst |-> a, as |-> [e \in Device |-> {}]]
            frames == IF out = {} THEN {} ELSE Unicast(route, d, a, src, id)
<1>1. /\ inbox' = Transmit(d, frames, inbox)
      /\ sent' = Append(sent, s) /\ got' = Append(got, {})
  BY DEF vNet_Send
<1>2. MessageRight(s) /\ s.dst = a
  BY DEF MessageRight
<1>. HIDE DEF s
<1>3. /\ IsSeq(sent') /\ IsSeq(got') /\ Len(got') = Len(sent')
      /\ DOMAIN sent = 1 .. Len(sent) /\ Len(sent) \in Nat
      /\ DOMAIN sent' = 1 .. Len(sent) + 1
      /\ sent'[id] = s
      /\ \A k \in DOMAIN sent : sent'[k] = sent[k] /\ got'[k] = got[k]
      /\ \A k \in DOMAIN sent' : MessageRight(sent'[k])
  BY <1>1, <1>2, NewMessage
<1>4. nw \in Networks /\ InboxesRight(inbox, sent)
  BY DEF Shaped
<1>5. a \notin Broadcasts
  <2>1. a \in Addresses
    BY DEF Known, Shaped, MessageRight
  <2>. QED  BY <1>4, <2>1, NetworkFacts
<1>6. frames \subseteq Unicast(route, d, a, src, id)
  OBVIOUS
<1>6a. id \in DOMAIN sent'
  BY <1>3
<1>. HIDE DEF frames, src, id
<1>7. ASSUME NEW e \in Device, NEW m \in Media(e), NEW f \in Heard(d, frames, e, m)
      PROVE  FrameRight(f, sent')
  <2>1. f.id = id
    BY <1>6, HeardUnicast
  <2>. QED  BY <1>2, <1>3, <1>5, <1>6a, <2>1 DEF FrameRight
<1>8. DOMAIN sent \subseteq DOMAIN sent' /\ \A k \in DOMAIN sent : sent'[k].dst = sent[k].dst
  BY <1>3
<1>9. /\ InboxesRight(inbox', sent')
      /\ \A k, c : CopyAt(inbox, k, c) => CopyAt(inbox', k, c)
  BY <1>1, <1>4, <1>7, <1>8, InboxesTransmit
<1>10. Shaped'
  BY <1>3, <1>4, <1>9, ShapedNext
<1>11. ASSUME NEW k \in DOMAIN sent',
              sent'[k].dst = BRDC, RADIO \in Media(sent'[k].from) \/ nw.deaf = {},
              NEW e \in Device \ {sent'[k].from}
       PROVE  e \in got'[k] \/ \E c \in Place : CopyAt(inbox', k, c) /\ e \in gets[c]
  <2>1. k \in DOMAIN sent
    BY <1>2, <1>3, <1>5, <1>11, BroadcastsDiffer DEF id
  <2>2. e \in got[k] \/ \E c \in Place : CopyAt(inbox, k, c) /\ e \in gets[c]
    BY <1>3, <1>11, <2>1 DEF Owed, Broadcast
  <2>. QED  BY <1>3, <1>9, <2>1, <2>2
<1>12. Owed(gets)'
  BY <1>11, OwedNext
<1>. QED  BY <1>10, <1>12

\* A frame is taken from an inbox.
LEMMA FrameTaken ==
  ASSUME Shaped, NEW d \in Device, NEW m \in Media(d), inbox[d][m] # << >>,
         NEW f, f = Head(inbox[d][m]),
         NEW box, DOMAIN box = Device, \A e \in Device : DOMAIN box[e] = Media(e),
         \A e \in Device : \A n \in Media(e) :
           box[e][n] = IF e = d /\ n = m THEN Tail(inbox[d][m]) ELSE inbox[e][n]
  PROVE  /\ FrameRight(f, sent)
         /\ InboxesRight(box, sent)
         /\ \A k, c : CopyAt(inbox, k, c) =>
              CopyAt(box, k, c) \/ (c[1] = d /\ c[2] = m /\ f.id = k /\ f.dst = c[3])
<1>1. /\ DOMAIN inbox = Device /\ \A e \in Device : DOMAIN inbox[e] = Media(e)
      /\ \A e \in Device : \A n \in Media(e) :
           IsSeq(inbox[e][n]) /\ \A g \in Range(inbox[e][n]) : FrameRight(g, sent)
  BY DEF Shaped, InboxesRight
<1>2. /\ box[d][m] = Tail(inbox[d][m])
      /\ \A e \in Device : \A n \in Media(e) : e # d \/ n # m => box[e][n] = inbox[e][n]
  OBVIOUS
<1>3. /\ IsSeq(Tail(inbox[d][m])) /\ f \in Range(inbox[d][m])
      /\ Range(inbox[d][m]) = {f} \cup Range(Tail(inbox[d][m]))
  BY <1>1, SeqTail
<1>4. \A e \in Device : \A n \in Media(e) :
        IsSeq(box[e][n]) /\ \A g \in Range(box[e][n]) : FrameRight(g, sent)
  BY <1>1, <1>2, <1>3
<1>5. InboxesRight(box, sent)
  BY <1>2, <1>4 DEF InboxesRight
<1>6. ASSUME NEW k, NEW c, CopyAt(inbox, k, c)
      PROVE  CopyAt(box, k, c) \/ (c[1] = d /\ c[2] = m /\ f.id = k /\ f.dst = c[3])
  <2>1. PICK g \in Range(inbox[c[1]][c[2]]) : g.id = k /\ g.dst = c[3]
    BY <1>6 DEF CopyAt
  <2>2. c[1] \in Device /\ c[2] \in Media(c[1])
    BY <1>6 DEF CopyAt
  <2>3. CASE c[1] = d /\ c[2] = m
    BY <1>2, <1>3, <2>1, <2>2, <2>3 DEF CopyAt
  <2>4. CASE c[1] # d \/ c[2] # m
    BY <1>2, <2>1, <2>2, <2>4 DEF CopyAt
  <2>. QED  BY <2>3, <2>4
<1>. QED  BY <1>1, <1>3, <1>5, <1>6

\* The source under which a device has got a message is noted.
LEMMA SourceNoted ==
  ASSUME Shaped, NEW f, FrameRight(f, sent), NEW d \in Device,
         sent' = [sent EXCEPT ![f.id].as[d] = @ \cup {f.o_src}]
  PROVE  /\ IsSeq(sent') /\ Len(sent') = Len(sent) /\ DOMAIN sent' = DOMAIN sent
         /\ \A k \in DOMAIN sent : sent'[k].dst = sent[k].dst /\ sent'[k].from = sent[k].from
         /\ \A k \in DOMAIN sent : MessageRight(sent'[k])
<1>. DEFINE s == [sent[f.id] EXCEPT !.as[d] = @ \cup {f.o_src}]
<1>1. /\ f.id \in DOMAIN sent /\ sent \in Seq(Range(sent))
      /\ \A k \in DOMAIN sent : MessageRight(sent[k])
      /\ sent[f.id].dst \in Broadcasts => f.o_src \in Addresses
  BY DEF Shaped, IsSeq, FrameRight
<1>2. s.dst = sent[f.id].dst /\ s.from = sent[f.id].from /\ MessageRight(s)
  BY <1>1 DEF MessageRight
<1>3. sent' = [sent EXCEPT ![f.id] = s]
  OBVIOUS
<1>. HIDE DEF s
<1>4. sent' \in Seq(Range(sent) \cup {s})
  BY <1>1, <1>3
<1>5. Len(sent') = Len(sent) /\ DOMAIN sent' = DOMAIN sent
  BY <1>1, <1>3, <1>4
<1>6. \A k \in DOMAIN sent : sent'[k] = IF k = f.id THEN s ELSE sent[k]
  BY <1>3
<1>. QED  BY <1>1, <1>2, <1>4, <1>5, <1>6, SeqOf

\* A copy that has been taken is made good when its device has processed the
\* broadcast and a copy is at every place of its repeats.
LEMMA OwedTaken ==
  ASSUME Shaped, UNCHANGED nw, NEW gets, CoveredBy(gets), Owed(gets),
         NEW d \in Device, NEW m \in Media(d), NEW f, f.id \in DOMAIN sent, DOMAIN sent' = DOMAIN sent,
         \A k \in DOMAIN sent : sent'[k].dst = sent[k].dst /\ sent'[k].from = sent[k].from,
         \A k \in DOMAIN sent : got[k] \subseteq got'[k],
         \A k, c : CopyAt(inbox, k, c) =>
           CopyAt(inbox', k, c) \/ (c[1] = d /\ c[2] = m /\ f.id = k /\ f.dst = c[3]),
         \A c \in Place : c[1] = d /\ c[2] = m /\ f.dst = c[3] =>
           d \in got'[f.id] /\ \A x \in Repeats(c) : CopyAt(inbox', f.id, x)
  PROVE  Owed(gets)'
<1>1. ASSUME NEW k \in DOMAIN sent',
             sent'[k].dst = BRDC, RADIO \in Media(sent'[k].from) \/ nw.deaf = {},
             NEW e \in Device \ {sent'[k].from}
      PROVE  e \in got'[k] \/ \E c \in Place : CopyAt(inbox', k, c) /\ e \in gets[c]
  <2>1. /\ k \in DOMAIN sent /\ sent[k].dst = BRDC /\ e \in Device \ {sent[k].from}
        /\ RADIO \in Media(sent[k].from) \/ nw.deaf = {}
    BY <1>1
  <2>2. CASE e \in got[k]
    BY <2>1, <2>2
  <2>3. ASSUME NEW c \in Place, CopyAt(inbox, k, c), e \in gets[c]
        PROVE  e \in got'[k] \/ \E x \in Place : CopyAt(inbox', k, x) /\ e \in gets[x]
    <3>1. CASE CopyAt(inbox', k, c)
      BY <2>3, <3>1
    <3>2. CASE c[1] = d /\ c[2] = m /\ f.id = k /\ f.dst = c[3]
      <4>1. d \in got'[k] /\ \A x \in Repeats(c) : CopyAt(inbox', k, x)
        BY <2>1, <3>2
      <4>2. e \in HeardFrom(gets, c)
        BY <2>3 DEF CoveredBy
      <4>3. e = d \/ \E x \in Repeats(c) : e \in gets[x]
        BY <3>2, <4>2 DEF HeardFrom
      <4>4. Repeats(c) \subseteq Place
        BY DEF Repeats, Copies
      <4>. QED  BY <4>1, <4>3, <4>4
    <3>. QED  BY <2>3, <3>1, <3>2
  <2>4. e \in got[k] \/ \E c \in Place : CopyAt(inbox, k, c) /\ e \in gets[c]
    BY <2>1 DEF Owed, Broadcast
  <2>. QED  BY <2>2, <2>3, <2>4
<1>. QED  BY <1>1, OwedNext

\* A frame that was received: processed, repeated or passed on.
LEMMA RetrieveStep ==
  ASSUME Shaped, NEW gets, CoveredBy(gets), Owed(gets),
         NEW d \in Device, NEW m \in Media(d), vNet_RetrieveData(d, m)
  PROVE  Shaped' /\ Owed(gets)'
<1>. DEFINE f == Head(inbox[d][m])
            box == [inbox EXCEPT ![d][m] = Tail(@)]
            frames == OnAll(RepeatOn(d, m, f.dst), Repeated(f.dst),
                            [x \in Media(d) |-> f.o_src], f.id)
            passed == {g \in Unicast(route', d, f.dst, f.o_src, f.id) : Super(d) /\ MayRoute(m, g.to)}
<1>1. /\ inbox[d][m] # << >> /\ UNCHANGED nw
      /\ sent' = [sent EXCEPT ![f.id].as[d] = @ \cup {f.o_src}]
      /\ vNet_RoutingBridging(d, m, f, box)
  BY DEF vNet_RetrieveData
<1>2. \/ /\ f.dst = Addr(d, m) \/ f.dst = nBRDC \/ (f.dst \in Broadcasts /\ ~Super(d))
         /\ inbox' = box /\ Process(d, f)
      \/ /\ f.dst \in {BRDC, wBRDC} /\ Super(d)
         /\ inbox' = Transmit(d, frames, box) /\ Process(d, f)
      \/ /\ f.dst \notin Broadcasts
         /\ inbox' = Transmit(d, passed, box) /\ UNCHANGED got
  BY <1>1 DEF vNet_RoutingBridging
<1>. HIDE DEF f, box, frames, passed
<1>3. /\ FrameRight(f, sent) /\ InboxesRight(box, sent)
      /\ \A k, c : CopyAt(inbox, k, c) =>
           CopyAt(box, k, c) \/ (c[1] = d /\ c[2] = m /\ f.id = k /\ f.dst = c[3])
  <2>1. f = Head(inbox[d][m])
    BY DEF f
  <2>2. DOMAIN inbox = Device /\ \A e \in Device : DOMAIN inbox[e] = Media(e)
    BY DEF Shaped, InboxesRight
  <2>3. /\ DOMAIN box = Device /\ \A e \in Device : DOMAIN box[e] = Media(e)
        /\ \A e \in Device : \A n \in Media(e) :
             box[e][n] = IF e = d /\ n = m THEN Tail(inbox[d][m]) ELSE inbox[e][n]
    BY <2>2 DEF box
  <2>4. inbox[d][m] # << >>
    BY <1>1
  <2>. QED  BY <2>1, <2>3, <2>4, FrameTaken
<1>4. /\ f.id \in DOMAIN sent /\ f.id \in DOMAIN got /\ DOMAIN sent = DOMAIN got
      /\ sent[f.id].dst \in Broadcasts => f.o_src \in Addresses
      /\ nw \in Networks /\ IsSeq(got) /\ Len(got) = Len(sent) /\ Addr(d, m) \in Addresses
  <2>1. DOMAIN sent = 1 .. Len(sent) /\ DOMAIN got = 1 .. Len(got)
    BY DEF Shaped, IsSeq
  <2>2. nw \in Networks
    BY DEF Shaped
  <2>3. Addr(d, m) \in Addresses
    BY <2>2, NetworkFacts DEF Addresses
  <2>. QED  BY <1>3, <2>1, <2>2, <2>3 DEF FrameRight, Shaped
<1>5. /\ IsSeq(sent') /\ Len(sent') = Len(sent) /\ DOMAIN sent' = DOMAIN sent
      /\ \A k \in DOMAIN sent : sent'[k].dst = sent[k].dst /\ sent'[k].from = sent[k].from
      /\ \A k \in DOMAIN sent : MessageRight(sent'[k])
  BY <1>1, <1>3, SourceNoted
<1>6. InboxesRight(box, sent')
  BY <1>3, <1>5 DEF InboxesRight, FrameRight
<1>7. ASSUME Process(d, f)
      PROVE  /\ IsSeq(got') /\ Len(got') = Len(got) /\ d \in got'[f.id]
             /\ \A k \in DOMAIN sent : got[k] \subseteq got'[k]
  <2>. DEFINE g == got[f.id] \cup {d}
  <2>1. got' = [got EXCEPT ![f.id] = g] /\ d \in g /\ got[f.id] \subseteq g
    BY <1>7 DEF Process
  <2>. HIDE DEF g
  <2>2. got \in Seq(Range(got) \cup {g})
    BY <1>4 DEF IsSeq
  <2>3. got' \in Seq(Range(got) \cup {g}) /\ Len(got') = Len(got)
    BY <1>4, <2>1, <2>2
  <2>4. \A k \in DOMAIN got : got'[k] = IF k = f.id THEN g ELSE got[k]
    BY <2>1
  <2>. QED  BY <1>4, <2>1, <2>3, <2>4, SeqOf
<1>8. CASE /\ f.dst = Addr(d, m) \/ f.dst = nBRDC \/ (f.dst \in Broadcasts /\ ~Super(d))
           /\ inbox' = box /\ Process(d, f)
  <2>1. Shaped'
    BY <1>1, <1>4, <1>5, <1>6, <1>7, <1>8, ShapedNext
  <2>2. \A c \in Place : c[1] = d /\ c[2] = m /\ f.dst = c[3] => Repeats(c) = {}
    <3>1. Addr(d, m) \notin Broadcasts
      BY <1>4, NetworkFacts
    <3>2. \A c \in Place : c[3] \in Broadcasts
      BY DEF Place
    <3>. QED  BY <1>8, <3>1, <3>2 DEF Repeats
  <2>3. Owed(gets)'
    BY <1>1, <1>3, <1>4, <1>5, <1>7, <1>8, <2>2, OwedTaken
  <2>. QED  BY <2>1, <2>3
<1>9. CASE /\ f.dst \in {BRDC, wBRDC} /\ Super(d)
           /\ inbox' = Transmit(d, frames, box) /\ Process(d, f)
  <2>. DEFINE src == [x \in Media(d) |-> f.o_src]
              on == RepeatOn(d, m, f.dst)
  <2>1. ASSUME NEW e \in Device, NEW n \in Media(e), NEW x \in Heard(d, frames, e, n)
        PROVE  FrameRight(x, sent')
    <3>1. x.id = f.id /\ x.o_src = src[n] /\ n \in on
      BY HeardOnAll DEF frames
    <3>2. n \in Media(d)
      BY <3>1 DEF RepeatOn
    <3>3. x.o_src = f.o_src
      BY <3>1, <3>2
    <3>. QED  BY <1>4, <1>5, <3>1, <3>3 DEF FrameRight
  <2>2. /\ InboxesRight(inbox', sent')
        /\ \A k, c : CopyAt(box, k, c) => CopyAt(inbox', k, c)
    BY <1>6, <1>9, <2>1, InboxesTransmit
  <2>3. Shaped'
    BY <1>1, <1>4, <1>5, <1>7, <1>9, <2>2, ShapedNext
  <2>4. ASSUME NEW c \in Place, c[1] = d, c[2] = m, f.dst = c[3], NEW x \in Repeats(c)
        PROVE  CopyAt(inbox', f.id, x)
    <3>1. x \in Copies(d, on, Repeated(f.dst))
      BY <2>4 DEF Repeats
    <3>. QED  BY <1>6, <1>9, <3>1, CopiesSent DEF frames
  <2>5. \A k, c : CopyAt(inbox, k, c) =>
          CopyAt(inbox', k, c) \/ (c[1] = d /\ c[2] = m /\ f.id = k /\ f.dst = c[3])
    BY <1>3, <2>2
  <2>6. Owed(gets)'
    BY <1>1, <1>4, <1>5, <1>7, <1>9, <2>4, <2>5, OwedTaken
  <2>. QED  BY <2>3, <2>6
<1>10. CASE /\ f.dst \notin Broadcasts
            /\ inbox' = Transmit(d, passed, box) /\ UNCHANGED got
  <2>1. ASSUME NEW e \in Device, NEW n \in Media(e), NEW x \in Heard(d, passed, e, n)
        PROVE  FrameRight(x, sent')
    <3>1. passed \subseteq Unicast(route', d, f.dst, f.o_src, f.id)
      BY DEF passed
    <3>2. x.id = f.id /\ x.o_src = f.o_src
      BY <3>1, HeardUnicast
    <3>. QED  BY <1>4, <1>5, <3>2 DEF FrameRight
  <2>2. /\ InboxesRight(inbox', sent')
        /\ \A k, c : CopyAt(box, k, c) => CopyAt(inbox', k, c)
    BY <1>6, <1>10, <2>1, InboxesTransmit
  <2>3. IsSeq(got') /\ Len(got') = Len(sent')
    BY <1>4, <1>5, <1>10
  <2>4. Shaped'
    BY <1>1, <1>4, <1>5, <2>2, <2>3, ShapedNext
  <2>5. \A c \in Place : c[3] \in Broadcasts
    BY DEF Place
  <2>6. \A k, c : CopyAt(inbox, k, c) =>
          CopyAt(inbox', k, c) \/ (c[1] = d /\ c[2] = m /\ f.id = k /\ f.dst = c[3])
    BY <1>3, <2>2
  <2>7. \A k \in DOMAIN sent : got[k] \subseteq got'[k]
    BY <1>10
  <2>8. \A c \in Place : c[1] = d /\ c[2] = m /\ f.dst = c[3] =>
          d \in got'[f.id] /\ \A x \in Repeats(c) : CopyAt(inbox', f.id, x)
    BY <1>10, <2>5
  <2>9. Owed(gets)'
    BY <1>1, <1>4, <1>5, <2>6, <2>7, <2>8, OwedTaken
  <2>. QED  BY <2>4, <2>9
<1>. QED  BY <1>2, <1>8, <1>9, <1>10

\* Every step keeps the invariant.
LEMMA VNetNextInv ==
  ASSUME VNetInv, [VNetNext]_vnetVars
  PROVE  VNetInv'
<1>1. Shaped /\ nw \in Networks
  BY DEF VNetInv, Shaped
<1>2. PICK gets \in [Place -> SUBSET Device] : CoveredBy(gets) /\ Owed(gets)
  BY DEF VNetInv
<1>3. UNCHANGED nw
  BY DEF VNetNext, Send, Retrieve, vNet_RetrieveData, vnetVars
<1>4. gets \in [Place -> SUBSET Device]' /\ CoveredBy(gets)'
  BY <1>2, <1>3, SameNetwork
<1>5. CASE Send
  <2>1. PICK d \in Device :
          \/ \E dst \in {BRDC, nBRDC} : vNet_SendBroadcast(d, dst)
          \/ \E a \in Known(d) : vNet_Send(d, a)
    BY <1>5 DEF Send
  <2>2. CASE \E dst \in {BRDC, nBRDC} : vNet_SendBroadcast(d, dst)
    <3>1. PICK dst \in Broadcasts : vNet_SendBroadcast(d, dst)
      BY <2>2, BroadcastsDiffer
    <3>2. Shaped' /\ Owed(gets)'
      BY <1>1, <1>2, <1>3, <3>1, BroadcastStep
    <3>. QED  BY <1>4, <3>2 DEF VNetInv
  <2>3. CASE \E a \in Known(d) : vNet_Send(d, a)
    <3>1. Shaped' /\ Owed(gets)'
      BY <1>1, <1>2, <1>3, <2>3, SendStep
    <3>. QED  BY <1>4, <3>1 DEF VNetInv
  <2>. QED  BY <2>1, <2>2, <2>3
<1>6. CASE \E d \in Device : Retrieve(d)
  <2>1. PICK d \in Device : \E m \in Media(d) : vNet_RetrieveData(d, m)
    BY <1>6 DEF Retrieve
  <2>2. PICK m \in Media(d) : vNet_RetrieveData(d, m)
    BY <2>1
  <2>3. Shaped' /\ Owed(gets)'
    BY <1>1, <1>2, <2>2, RetrieveStep
  <2>. QED  BY <1>4, <2>3 DEF VNetInv
<1>7. CASE UNCHANGED vnetVars
  <2>1. UNCHANGED <<nw, inbox, sent, got>>
    BY <1>7 DEF vnetVars
  <2>2. InboxesRight(inbox', sent') /\ IsSeq(sent') /\ IsSeq(got') /\ Len(got') = Len(sent')
        /\ \A k \in DOMAIN sent' : MessageRight(sent'[k])
    BY <1>1, <2>1 DEF Shaped
  <2>3. Shaped'
    BY <1>1, <2>1, <2>2, ShapedNext
  <2>4. Owed(gets)'
    BY <1>2, <2>1, OwedNext DEF Owed, Broadcast
  <2>. QED  BY <1>4, <2>3, <2>4 DEF VNetInv
<1>. QED  BY <1>5, <1>6, <1>7 DEF VNetNext

LEMMA VNetInvReaches ==
  ASSUME VNetInv
  PROVE  BroadcastReaches
<1>1. PICK gets \in [Place -> SUBSET Device] : Owed(gets)
  BY DEF VNetInv
<1>2. ASSUME Quiet, NEW k \in DOMAIN sent, NEW c
      PROVE  ~ CopyAt(inbox, k, c)
  BY <1>2, SeqSmall DEF Quiet, CopyAt
<1>. QED  BY <1>1, <1>2 DEF Owed, BroadcastReaches

\* Who hears a copy or its repeats, those of BRDC two levels deep: they are
\* wBRDC, whose own repeats are counted once.
Within(c) == {c[1]} \cup {x[1] : x \in Repeats(c)}
WithinTwo(c) ==
  CASE c[3] = BRDC -> {c[1]} \cup UNION {Within(x) : x \in Repeats(c)}
    [] c[3] = wBRDC -> Within(c)
    [] c[3] = nBRDC -> {c[1]}
InTwo == [c \in Place |-> WithinTwo(c)]

LEMMA InTwoRight ==
  /\ InTwo \in [Place -> SUBSET Device]
  /\ \A c \in Place : InTwo[c] \subseteq HeardFrom(InTwo, c)
<1>1. \A c \in Place : c[1] \in Device /\ c[3] \in {BRDC, wBRDC, nBRDC}
  BY BroadcastsDiffer DEF Place
<1>2. \A c \in Place : Repeats(c) \subseteq Place
  BY DEF Repeats, Copies
<1>3. \A c \in Place : Within(c) \subseteq Device
  BY <1>1, <1>2 DEF Within
<1>4. \A c \in Place :
        /\ InTwo[c] = WithinTwo(c)
        /\ c[3] = BRDC => WithinTwo(c) = {c[1]} \cup UNION {Within(x) : x \in Repeats(c)}
        /\ c[3] = wBRDC => WithinTwo(c) = Within(c)
        /\ c[3] = nBRDC => WithinTwo(c) = {c[1]}
  BY BroadcastsDiffer DEF InTwo, WithinTwo
<1>5. \A c \in Place : WithinTwo(c) \subseteq Device
  BY <1>1, <1>2, <1>3, <1>4
<1>7. InTwo \in [Place -> SUBSET Device]
  BY <1>5 DEF InTwo
<1>8. \A c \in Place : c[1] \in InTwo[c]
  BY <1>1, <1>4 DEF Within
<1>9. ASSUME NEW c \in Place
      PROVE  InTwo[c] \subseteq HeardFrom(InTwo, c)
  <2>1. CASE c[3] = BRDC
    <3>1. \A x \in Repeats(c) : x[3] = wBRDC
      BY <2>1 DEF Repeats, Copies, Repeated
    <3>2. \A x \in Repeats(c) : InTwo[x] = Within(x)
      BY <1>2, <1>4, <3>1
    <3>. QED  BY <1>4, <2>1, <3>2 DEF HeardFrom
  <2>2. CASE c[3] = wBRDC
    <3>1. \A x \in Repeats(c) : x[1] \in InTwo[x]
      BY <1>2, <1>8
    <3>. QED  BY <1>4, <2>2, <3>1 DEF HeardFrom, Within
  <2>3. CASE c[3] = nBRDC
    BY <1>4, <2>3 DEF HeardFrom
  <2>. QED  BY <1>1, <2>1, <2>2, <2>3
<1>. QED  BY <1>7, <1>9

\* One radio channel that every device is on, or a supernode of its bus.
Backbone ==
  /\ nw \in Networks /\ nw.deaf = {}
  /\ \A e \in Device : \/ RADIO \in Media(e)
                       \/ \E s \in Device : Super(s) /\ RADIO \in Media(s) /\ Reaches(s, e, BUS)

LEMMA BusShared ==
  ASSUME NEW s, NEW d, NEW e, Reaches(s, d, BUS), Reaches(s, e, BUS), d # e
  PROVE  Reaches(d, e, BUS) /\ Reaches(d, s, BUS)
  BY DEF Reaches, BUS, RADIO

LEMMA BackboneCovered == Backbone => Covered
<1>. SUFFICES ASSUME Backbone PROVE Covered
  OBVIOUS
<1>0. \A d \in Device : Media(d) \subseteq {RADIO, BUS}
  BY NetworkFacts DEF Backbone
<1>1. ASSUME NEW d \in Device, NEW e \in Device, d # e,
             RADIO \in Media(d), RADIO \in Media(e)
      PROVE  Reaches(d, e, RADIO)
  BY <1>1 DEF Backbone, Reaches, RADIO, BUS
<1>1a. RADIO # BUS
  BY DEF RADIO, BUS
<1>1b. ASSUME NEW x \in Device, NEW n \in {RADIO, BUS}, NEW dst \in Broadcasts, NEW c,
              c = <<x, n, dst>>
       PROVE  /\ c \in Place /\ x \in InTwo[c] /\ c[1] = x
              /\ dst = BRDC => InTwo[c] = {x} \cup UNION {Within(y) : y \in Repeats(c)}
              /\ Within(c) = {x} \cup {y[1] : y \in Repeats(c)}
  <2>1. c \in Place /\ c[1] = x /\ c[3] = dst
    BY <1>1b DEF Place
  <2>2. InTwo[c] = WithinTwo(c)
    BY <2>1 DEF InTwo
  <2>3. Within(c) = {x} \cup {y[1] : y \in Repeats(c)}
    BY <2>1 DEF Within
  <2>4. dst = BRDC => WithinTwo(c) = {x} \cup UNION {Within(y) : y \in Repeats(c)}
    BY <2>1, BroadcastsDiffer DEF WithinTwo
  <2>5. x \in WithinTwo(c)
    <3>1. /\ dst = wBRDC => WithinTwo(c) = Within(c)
          /\ dst = nBRDC => WithinTwo(c) = {x}
      BY <2>1, BroadcastsDiffer DEF WithinTwo
    <3>. QED  BY <2>3, <2>4, <3>1, BroadcastsDiffer
  <2>. QED  BY <2>1, <2>2, <2>3, <2>4, <2>5
<1>2. \A d, e \in Device : \A m : Reaches(d, e, m) => m \in Media(d) /\ m \in Media(e)
  BY DEF Reaches
\* What is heard over the radio from a supernode is repeated on its bus, and
\* what is heard on a bus over the radio.
<1>3. ASSUME NEW s \in Device, Super(s), NEW m \in {RADIO, BUS}, NEW n \in {RADIO, BUS}, m # n,
             NEW dst \in {BRDC, wBRDC}, NEW e \in Device, Reaches(s, e, n)
      PROVE  \E x \in Repeats(<<s, m, dst>>) : x = <<e, n, Repeated(dst)>>
  <2>1. n \in RepeatOn(s, m, dst)
    BY <1>2, <1>3 DEF RepeatOn
  <2>2. Repeated(dst) \in Broadcasts
    BY <1>3, BroadcastsDiffer DEF Repeated
  <2>3. <<e, n, Repeated(dst)>> \in Copies(s, RepeatOn(s, m, dst), Repeated(dst))
    BY <1>3, <2>1, <2>2 DEF Copies, Place
  <2>. QED  BY <1>3, <2>3, BroadcastsDiffer DEF Repeats
<1>4. ASSUME NEW s \in Device, Super(s), NEW e \in Device, Reaches(s, e, BUS)
      PROVE  e \in Within(<<s, RADIO, wBRDC>>) /\ e \in InTwo[<<s, RADIO, BRDC>>]
  <2>1. PICK x \in Repeats(<<s, RADIO, wBRDC>>) : x = <<e, BUS, Repeated(wBRDC)>>
    BY <1>1a, <1>3, <1>4
  <2>2. PICK y \in Repeats(<<s, RADIO, BRDC>>) : y = <<e, BUS, Repeated(BRDC)>>
    BY <1>1a, <1>3, <1>4
  <2>3. x[1] = e /\ y[1] = e
    BY <2>1, <2>2
  <2>4. e \in Within(<<s, RADIO, wBRDC>>)
    BY <1>1b, <1>4, <2>1, <2>3, BroadcastsDiffer
  <2>5. e \in Within(y)
    BY <2>3 DEF Within
  <2>6. e \in InTwo[<<s, RADIO, BRDC>>]
    BY <1>1b, <1>4, <2>2, <2>5, BroadcastsDiffer
  <2>. QED  BY <2>4, <2>6
<1>5. ASSUME NEW d \in Device, NEW e \in Device, d # e
      PROVE  \E c \in Copies(d, Media(d), BRDC) : e \in InTwo[c]
  <2>1. ASSUME NEW y \in Device, NEW n \in {RADIO, BUS}, Reaches(d, y, n)
        PROVE  /\ <<y, n, BRDC>> \in Copies(d, Media(d), BRDC)
               /\ <<y, n, BRDC>> \in Place /\ y \in InTwo[<<y, n, BRDC>>]
    <3>1. <<y, n, BRDC>> \in Place /\ y \in InTwo[<<y, n, BRDC>>]
      BY <1>1b, <2>1, BroadcastsDiffer
    <3>. QED  BY <1>2, <2>1, <3>1 DEF Copies
  <2>2. CASE \E n \in {RADIO, BUS} : Reaches(d, e, n)
    BY <2>1, <2>2
  <2>3. CASE RADIO \in Media(d) /\ ~ \E n \in {RADIO, BUS} : Reaches(d, e, n)
    <3>1. RADIO \notin Media(e)
      BY <1>1, <1>5, <2>3
    <3>2. PICK s \in Device : Super(s) /\ RADIO \in Media(s) /\ Reaches(s, e, BUS)
      BY <3>1 DEF Backbone
    <3>3. s # d
      BY <2>3, <3>2
    <3>4. Reaches(d, s, RADIO)
      BY <1>1, <2>3, <3>2, <3>3
    <3>. QED  BY <1>4, <2>1, <3>2, <3>4
  <2>4. CASE RADIO \notin Media(d) /\ ~ \E n \in {RADIO, BUS} : Reaches(d, e, n)
    <3>1. PICK s \in Device : Super(s) /\ RADIO \in Media(s) /\ Reaches(s, d, BUS)
      BY <2>4 DEF Backbone
    <3>2. Reaches(d, s, BUS)
      BY <3>1 DEF Reaches, RADIO, BUS
    <3>3. s # e
      BY <2>4, <3>2
    <3>4. ~ Reaches(s, e, BUS)
      BY <1>5, <2>4, <3>1, BusShared
    <3>5. \A z \in Device : z # s /\ RADIO \in Media(z) =>
            \E x \in Repeats(<<s, BUS, BRDC>>) : x = <<z, RADIO, wBRDC>>
      <4>1. Repeated(BRDC) = wBRDC
        BY DEF Repeated
      <4>2. \A z \in Device : z # s /\ RADIO \in Media(z) => Reaches(s, z, RADIO)
        BY <1>1, <3>1
      <4>. QED  BY <1>1a, <1>3, <3>1, <4>1, <4>2
    <3>6. <<s, BUS, BRDC>> \in Place /\ <<s, BUS, BRDC>> \in Copies(d, Media(d), BRDC)
      BY <2>1, <3>2
    <3>7. InTwo[<<s, BUS, BRDC>>] = {s} \cup UNION {Within(y) : y \in Repeats(<<s, BUS, BRDC>>)}
      BY <1>1b, BroadcastsDiffer
    <3>8. \E x \in Repeats(<<s, BUS, BRDC>>) : e \in Within(x)
      <4>1. CASE RADIO \in Media(e)
        <5>1. PICK x \in Repeats(<<s, BUS, BRDC>>) : x = <<e, RADIO, wBRDC>>
          BY <3>3, <3>5, <4>1
        <5>. QED  BY <5>1 DEF Within
      <4>2. CASE RADIO \notin Media(e)
        <5>1. PICK z \in Device : Super(z) /\ RADIO \in Media(z) /\ Reaches(z, e, BUS)
          BY <4>2 DEF Backbone
        <5>2. z # s
          BY <3>4, <5>1
        <5>3. PICK x \in Repeats(<<s, BUS, BRDC>>) : x = <<z, RADIO, wBRDC>>
          BY <3>5, <5>1, <5>2
        <5>. QED  BY <1>4, <5>1, <5>3
      <4>. QED  BY <4>1, <4>2
    <3>9. e \in InTwo[<<s, BUS, BRDC>>]
      BY <3>7, <3>8
    <3>. QED  BY <3>6, <3>9
  <2>. QED  BY <2>2, <2>3, <2>4
<1>6. CoveredBy(InTwo)
  BY <1>5, InTwoRight DEF CoveredBy
<1>. QED  BY <1>6, InTwoRight DEF Covered

\* When the traffic has ended a broadcast has got to every device, in every
\* network whose shape allows it (Covered): whatever the order in which the
\* copies come, wherever supernodes repeat them.
THEOREM BroadcastReachesHolds ==
  VNetSpec /\ Covered => []BroadcastReaches
<1>1. VNetInit /\ Covered => VNetInv
  BY VNetInitInv
<1>2. VNetInv /\ [VNetNext]_vnetVars => VNetInv'
  BY VNetNextInv
<1>3. VNetInv => BroadcastReaches
  BY VNetInvReaches
<1>. QED  BY <1>1, <1>2, <1>3, PTL DEF VNetSpec

\* So it is where one radio channel joins all: every device is on it, or on
\* the bus of a supernode that is, with VNET_LOOPS or without.
THEOREM BackboneReaches ==
  VNetSpec /\ Backbone => []BroadcastReaches
  BY BackboneCovered, BroadcastReachesHolds, PTL
=============================================================================
