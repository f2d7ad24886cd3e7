------------------------- MODULE SubscriptionProofs -------------------------
(***************************************************************************)
(* Theorems of Subscription, for every number of peers and nodes, every    *)
(* order of sketch, and every set of healthy constants with the order of   *)
(* HealthConstants.                                                        *)
(***************************************************************************)
EXTENDS Subscription, TLAPS

HealthRange == 0 .. SUBMAXHEALTY

\* An armed channel: its healthy byte is not zero when it is visited.
Armed == [healthy : 1 .. SUBMAXHEALTY, count : HealthRange, status : BOOLEAN]

(***************************************************************************)
(* The credit for an answer stays a byte, and pays for at least as many    *)
(* requests as a channel that was just set up.                             *)
(***************************************************************************)
LEMMA CreditBounds ==
  ASSUME NEW h \in HealthRange
  PROVE  /\ Credit(h) \in HealthRange
         /\ h # 0 => Credit(h) >= SUBINITHEALTHY
  BY HealthConstants, SMT DEF Credit, HealthRange, SUBSCRHEALTY

\* Arming and pinning a channel leave it armed, and take no health from it.
LEMMA ArmedChannel ==
  ASSUME NEW c \in [healthy : HealthRange, count : HealthRange, status : BOOLEAN],
         NEW pin \in BOOLEAN
  PROVE  LET a == Pinned(Setup(c), pin)
         IN  /\ a \in Armed
             /\ a.status = c.status
             /\ a.healthy >= c.healthy
             /\ c.healthy = 0 => a.healthy >= SUBINITHEALTHY
<1>1. Setup(c) \in Armed
  BY HealthConstants, SMT DEF Armed, HealthRange, Setup, SetupHealthy
<1>2. /\ Setup(c).status = c.status
      /\ Setup(c).healthy >= c.healthy
      /\ c.healthy = 0 => Setup(c).healthy >= SUBINITHEALTHY
  BY HealthConstants, SMT DEF HealthRange, Setup, SetupHealthy
<1>. QED
  BY <1>1, <1>2, HealthConstants, SMT DEF Armed, HealthRange, Pinned

\* A visit keeps the bytes of a channel in range.
LEMMA VisitBounds ==
  ASSUME NEW c \in Armed, NEW sent \in BOOLEAN
  PROVE  Visit(c, sent) \in
           [healthy : HealthRange, count : HealthRange, status : BOOLEAN]
<1>1. CASE c.status
  <2>1. Credit(c.healthy) \in HealthRange
    BY CreditBounds, HealthConstants, SMT DEF Armed, HealthRange
  <2>. QED  BY <1>1, <2>1, SMT DEF Visit, Answered
<1>2. CASE ~ c.status /\ Requests(c)
  <2>1. (c.healthy - SUBSDECREASE) % 256 = c.healthy - SUBSDECREASE
    BY <1>2, HealthConstants, SMT DEF Requests, Armed, HealthRange
  <2>2. c.healthy - SUBSDECREASE \in HealthRange
    BY <1>2, HealthConstants, SMT DEF Requests, Armed, HealthRange
  <2>3. {SUBMAXHEALTY, SUBINITHEALTHY} \subseteq HealthRange
    BY HealthConstants, SMT DEF HealthRange
  <2>4. Visit(c, sent) =
          IF sent THEN [c EXCEPT !.healthy = c.healthy - SUBSDECREASE,
                                 !.count = SUBMAXHEALTY]
                  ELSE [c EXCEPT !.count = SUBINITHEALTHY]
    BY <1>2, <2>1 DEF Visit
  <2>5. c \in [healthy : HealthRange, count : HealthRange, status : BOOLEAN]
    BY HealthConstants, SMT DEF Armed, HealthRange
  <2>. QED  BY <2>2, <2>3, <2>4, <2>5
<1>3. CASE ~ c.status /\ ~ Requests(c)
  BY <1>3, HealthConstants, SMT
     DEF Visit, Requests, Fails, Expired, Armed, HealthRange, SUBSCRHEALTY
<1>. QED  BY <1>1, <1>2, <1>3
-----------------------------------------------------------------------------
(* Type correctness.                                                       *)

ChannelRange == [healthy : HealthRange, count : HealthRange, status : BOOLEAN]

LEMMA ChannelType ==
  ASSUME TypeOK, NEW i \in Chan
  PROVE  channel(i) \in ChannelRange
  BY SubscriptionConstants, SMT
     DEF TypeOK, channel, ChannelRange, HealthRange, Chan, HealthyByte

\* What the visited channel becomes.
LEMMA VisitedChannel ==
  ASSUME TypeOK, NEW i \in Chan, NEW ok \in BOOLEAN
  PROVE  Visit(Pinned(Setup(channel(i)), i \in battery), ok) \in ChannelRange
<1>. DEFINE a == Pinned(Setup(channel(i)), i \in battery)
<1>1. channel(i) \in [healthy : HealthRange, count : HealthRange, status : BOOLEAN]
  BY ChannelType DEF ChannelRange
<1>2. (i \in battery) \in BOOLEAN
  OBVIOUS
<1>3. a \in Armed
  BY <1>1, <1>2, ArmedChannel
<1>. QED  BY <1>3, VisitBounds DEF ChannelRange

LEMMA MessageTypes ==
  ASSUME NEW p \in Peer
  PROVE  /\ Request(p) \in Message
         /\ Join(p) \in Message
         /\ JoinReset(p) \in Message
         /\ TypeOK => Answer(p) \in Message
  BY SMT DEF Request, Join, JoinReset, Answer, Message, TypeOK

LEMMA InitType == Init => TypeOK
<1>. SUFFICES ASSUME NEW after \in AfterHealthy,
                     addresses = InitialAddresses,
                     healthy = GatewayBoot(InitialAddresses, after).healthy,
                     count = [j \in Chan |-> 0],
                     status = [j \in Chan |-> FALSE],
                     outaddr = {},
                     battery \subseteq {0},
                     P_OUT = [j \in Chan |-> NoData],
                     Init
              PROVE  TypeOK
  BY DEF Init, GatewayBoot, Souliss_BatteryChannels
<1>1. InitialAddresses \in Seq(Peer) /\ Len(InitialAddresses) < NODES
  BY SubscriptionConstants DEF InitialAddresses
<1>2. healthy \in [HealthyByte -> HealthRange]
  BY SubscriptionConstants, HealthConstants DEF GatewayBoot, HealthRange
<1>. QED
  BY <1>1, <1>2, SubscriptionConstants, HealthConstants, SMT
     DEF Init, TypeOK, HealthRange, Value, Message

LEMMA RoundsType ==
  ASSUME TypeOK, NEW ok \in BOOLEAN, Souliss_CommunicationChannels(ok)
  PROVE  TypeOK'
<1>1. CASE roundrob_2 < NODES /\ roundrob_2 <= Len(addresses)
  <2>. DEFINE i == roundrob_2
              v == Visit(Pinned(Setup(channel(i)), i \in battery), ok)
  <2>1. i \in Chan /\ addresses[i] \in Peer /\ roundrob_2' \in 1 .. NODES
    BY <1>1, SubscriptionConstants, SMT
       DEF TypeOK, Chan, Souliss_CommunicationChannels
  <2>2. v \in ChannelRange
    BY <2>1, VisitedChannel
  <2>3. /\ healthy' = [healthy EXCEPT ![i] = v.healthy]
        /\ count' = [count EXCEPT ![i] = v.count]
        /\ status' = [status EXCEPT ![i] = v.status]
        /\ outaddr' = outaddr \cup {i}
    BY <1>1 DEF Souliss_CommunicationChannels, MaCaco_subscribe
  <2>4. /\ healthy' \in [HealthyByte -> HealthRange]
        /\ count' \in [Chan -> HealthRange]
        /\ status' \in [Chan -> BOOLEAN]
        /\ outaddr' \subseteq Chan
    <3>1. v.healthy \in HealthRange /\ v.count \in HealthRange /\ v.status \in BOOLEAN
      BY <2>2 DEF ChannelRange
    <3>2. i \in HealthyByte
      BY <2>1, SubscriptionConstants, SMT DEF Chan, HealthyByte
    <3>. QED  BY <2>1, <2>3, <3>1, <3>2 DEF TypeOK, HealthRange
  <2>5. missed' \in [Chan -> 0 .. SUBINITHEALTHY]
    <3>. DEFINE counted == IF Pinned(Setup(channel(i)), i \in battery).status
                                \/ healthy[i] = 0 THEN 0 ELSE missed[i]
                sends == Requests(Pinned(Setup(channel(i)), i \in battery))
                m == IF sends /\ ok /\ counted < SUBINITHEALTHY
                     THEN counted + 1 ELSE counted
    <3>1. missed' = [missed EXCEPT ![i] = m]
      BY <1>1 DEF Souliss_CommunicationChannels, MaCaco_subscribe
    <3>2. counted \in 0 .. SUBINITHEALTHY
      BY <2>1, HealthConstants DEF TypeOK
    <3>3. m \in 0 .. SUBINITHEALTHY
      BY <3>2, HealthConstants, SMT
    <3>. QED  BY <3>1, <3>3 DEF TypeOK
  <2>6. net' \subseteq Message
    BY <1>1, <2>1, MessageTypes
       DEF TypeOK, Souliss_CommunicationChannels, MaCaco_subscribe, Send
  <2>7. faults' \in 0 .. MaxFault
    BY <1>1, SubscriptionConstants, SMT
       DEF TypeOK, Souliss_CommunicationChannels, MaCaco_subscribe,
           SendOutcome, Fault
  <2>. QED
    BY <2>1, <2>4, <2>5, <2>6, <2>7
       DEF TypeOK, HealthRange, Souliss_CommunicationChannels, peerVars
<1>2. CASE ~ (roundrob_2 < NODES /\ roundrob_2 <= Len(addresses))
  <2>1. WrapRound /\ UNCHANGED <<addresses, battery, P_OUT, peerVars, changes>>
    BY <1>2 DEF Souliss_CommunicationChannels
  <2>2. SetupHealthy(healthy[roundrob_2]) \in HealthRange
    <3>1. healthy[roundrob_2] \in HealthRange
      BY DEF TypeOK, HealthyByte, HealthRange
    <3>. QED  BY <3>1, HealthConstants, SMT DEF HealthRange, SetupHealthy
  <2>3. healthy' \in [HealthyByte -> HealthRange]
    BY <2>1, <2>2 DEF TypeOK, WrapRound, HealthRange
  <2>4. roundrob_2' \in 1 .. NODES
    BY <2>1, SubscriptionConstants, SMT DEF WrapRound
  <2>. QED
    BY <2>1, <2>3, <2>4 DEF TypeOK, WrapRound, HealthRange, peerVars
<1>. QED  BY <1>1, <1>2

LEMMA GatewayType ==
  ASSUME TypeOK, Gateway
  PROVE  TypeOK'
<1>1. CASE \E ok \in BOOLEAN : Souliss_CommunicationChannels(ok)
  BY <1>1, RoundsType
<1>2. ASSUME NEW m \in net, NEW keep \in BOOLEAN, RecvJoin(m, keep)
      PROVE  TypeOK'
  <2>1. addresses' \in Seq(Peer) /\ Len(addresses') < NODES
    <3>1. m.peer \in Peer
      BY <1>2, SMT DEF RecvJoin, TypeOK, Message
    <3>. QED
      BY <1>2, <3>1, SubscriptionConstants, SMT DEF RecvJoin, TypeOK
  <2>2. count' \in [Chan -> HealthRange]
    BY <1>2, HealthConstants DEF RecvJoin, TypeOK, HealthRange
  <2>3. net' \subseteq Message /\ faults' \in 0 .. MaxFault
    BY <1>2, SubscriptionConstants DEF RecvJoin, Deliver, Fault, TypeOK
  <2>. QED
    BY <1>2, <2>1, <2>2, <2>3 DEF RecvJoin, TypeOK, HealthRange, peerVars
<1>3. ASSUME NEW m \in net, NEW keep \in BOOLEAN, RecvSubscrAns(m, keep)
      PROVE  TypeOK'
  <2>1. m.data \in Value
    <3>1. m \in Message /\ m.type = "SUBSCRANS"
      BY <1>3 DEF RecvSubscrAns, TypeOK
    <3>. QED  BY <3>1, SMT DEF Message
  <2>2. /\ status' \in [Chan -> BOOLEAN]
        /\ P_OUT' \in [Chan -> Value \cup {NoData}]
    BY <1>3, <2>1 DEF RecvSubscrAns, TypeOK
  <2>3. net' \subseteq Message /\ faults' \in 0 .. MaxFault
    BY <1>3, SubscriptionConstants DEF RecvSubscrAns, Deliver, Fault, TypeOK
  <2>. QED
    BY <1>3, <2>2, <2>3 DEF RecvSubscrAns, TypeOK, peerVars
<1>4. CASE UserDataReq
  <2>1. count' \in [Chan -> HealthRange]
    BY <1>4, HealthConstants DEF UserDataReq, TypeOK, HealthRange
  <2>2. faults' \in 0 .. MaxFault
    BY <1>4, SubscriptionConstants DEF UserDataReq, Fault, TypeOK
  <2>. QED
    BY <1>4, <2>1, <2>2 DEF UserDataReq, TypeOK, HealthRange, peerVars
<1>5. CASE UserHealtyReq
  <2>1. healthy' \in [HealthyByte -> HealthRange]
    BY <1>5, HealthConstants DEF UserHealtyReq, TypeOK, HealthRange
  <2>2. missed' \in [Chan -> 0 .. SUBINITHEALTHY]
    BY <1>5, HealthConstants DEF UserHealtyReq, TypeOK
  <2>3. faults' \in 0 .. MaxFault
    BY <1>5, SubscriptionConstants DEF UserHealtyReq, Fault, TypeOK
  <2>. QED
    BY <1>5, <2>1, <2>2, <2>3 DEF UserHealtyReq, TypeOK, HealthRange, peerVars
<1>. QED  BY <1>1, <1>2, <1>3, <1>4, <1>5 DEF Gateway

LEMMA PeerType ==
  ASSUME TypeOK, NEW p \in Peer, PeerNext(p)
  PROVE  TypeOK'
<1>1. ASSUME NEW keep \in BOOLEAN, RecvSubscrReq(p, keep)
      PROVE  TypeOK'
  <2>0. Answer(p) \in Message
    BY MessageTypes
  <2>1. net' \subseteq Message /\ faults' \in 0 .. MaxFault
    BY <1>1, <2>0, SubscriptionConstants
       DEF RecvSubscrReq, Send, Fault, TypeOK
  <2>. QED
    BY <1>1, <2>1 DEF RecvSubscrReq, TypeOK, gatewayVars, channelVars
<1>2. ASSUME NEW ok \in BOOLEAN, MaCaco_subAnswer(p, ok)
      PROVE  TypeOK'
  <2>0. Answer(p) \in Message
    BY MessageTypes
  <2>1. net' \subseteq Message /\ faults' \in 0 .. MaxFault
    BY <1>2, <2>0, SubscriptionConstants
       DEF MaCaco_subAnswer, Send, SendOutcome, Fault, TypeOK
  <2>. QED
    BY <1>2, <2>1 DEF MaCaco_subAnswer, TypeOK, gatewayVars, channelVars
<1>3. CASE LogicChange(p)
  <2>1. out' \in [Peer -> Value]
    BY <1>3 DEF LogicChange, TypeOK, Value
  <2>2. changes' \in 0 .. MaxChange
    BY <1>3, SubscriptionConstants DEF LogicChange, TypeOK
  <2>. QED
    BY <1>3, <2>1, <2>2 DEF LogicChange, TypeOK, gatewayVars, channelVars
<1>4. CASE Souliss_JoinNetwork(p) \/ Souliss_JoinAndReset(p)
  <2>1. net' \subseteq Message
    BY <1>4, MessageTypes
       DEF Souliss_JoinNetwork, Souliss_JoinAndReset, Send, TypeOK
  <2>. QED
    BY <1>4, <2>1 DEF Souliss_JoinNetwork, Souliss_JoinAndReset, TypeOK,
                      gatewayVars, channelVars, peerVars
<1>. QED  BY <1>1, <1>2, <1>3, <1>4 DEF PeerNext

\* The gateway that boots again, apart from the byte after its healthy area.
LEMMA BootType ==
  ASSUME TypeOK
  PROVE  LET g == GatewayBoot(InitialAddresses, healthy[NODES])
         IN  /\ g.addresses = InitialAddresses
             /\ g.healthy \in [HealthyByte -> HealthRange]
             /\ \A i \in Chan : g.healthy[i] = 0
             /\ g.count = [i \in Chan |-> 0]
             /\ g.status = [i \in Chan |-> FALSE]
             /\ g.outaddr = {}
             /\ g.battery \subseteq {0}
             /\ g.P_OUT = [i \in Chan |-> NoData]
<1>1. healthy[NODES] \in HealthRange
  BY SubscriptionConstants DEF TypeOK, HealthyByte, HealthRange
<1>2. \A i \in Chan : i \in HealthyByte /\ i # NODES
  BY SubscriptionConstants, SMT DEF Chan, HealthyByte
<1>3. 0 \in HealthRange
  BY HealthConstants, SMT DEF HealthRange
<1>. QED
  BY <1>1, <1>2, <1>3 DEF GatewayBoot, Souliss_BatteryChannels

LEMMA EnvironmentType ==
  ASSUME TypeOK, Environment
  PROVE  TypeOK'
<1>1. ASSUME NEW m \in net, Lose(m)
      PROVE  TypeOK'
  BY <1>1, SubscriptionConstants
     DEF Lose, Fault, TypeOK, gatewayVars, channelVars, peerVars
<1>2. ASSUME NEW p \in Peer, PeerRestart(p)
      PROVE  TypeOK'
  <2>1. out' \in [Peer -> Value]
    BY <1>2, SubscriptionConstants, SMT DEF PeerRestart, TypeOK, Value
  <2>2. faults' \in 0 .. MaxFault
    BY <1>2, SubscriptionConstants DEF PeerRestart, Fault, TypeOK
  <2>3. booting' \in [Peer -> BOOLEAN]
    BY <1>2, SubscriptionConstants DEF PeerRestart, TypeOK
  <2>. QED
    BY <1>2, <2>1, <2>2, <2>3 DEF PeerRestart, TypeOK, gatewayVars, channelVars
<1>3. CASE GatewayRestart
  <2>. DEFINE g == GatewayBoot(InitialAddresses, healthy[NODES])
  <2>0. /\ addresses' = g.addresses /\ healthy' = g.healthy
        /\ count' = g.count /\ status' = g.status /\ outaddr' = g.outaddr
        /\ battery' = g.battery /\ P_OUT' = g.P_OUT
    BY <1>3 DEF GatewayRestart
  <2>. HIDE DEF g
  <2>b. /\ g.addresses = InitialAddresses
        /\ g.healthy \in [HealthyByte -> HealthRange]
        /\ g.count = [i \in Chan |-> 0]
        /\ g.status = [i \in Chan |-> FALSE]
        /\ g.outaddr = {}
        /\ g.battery \subseteq {0}
        /\ g.P_OUT = [i \in Chan |-> NoData]
    BY BootType DEF g
  <2>1. addresses' \in Seq(Peer) /\ Len(addresses') < NODES
    BY <2>0, <2>b, SubscriptionConstants DEF InitialAddresses
  <2>2. healthy' \in [HealthyByte -> HealthRange]
    BY <2>0, <2>b
  <2>3. /\ count' \in [Chan -> HealthRange]
        /\ status' \in [Chan -> BOOLEAN]
        /\ outaddr' \subseteq Chan
        /\ battery' \subseteq {0} \cup Chan
        /\ P_OUT' \in [Chan -> Value \cup {NoData}]
    BY <2>0, <2>b, HealthConstants, SMT DEF HealthRange
  <2>4. /\ roundrob_2' \in 1 .. NODES
        /\ missed' \in [Chan -> 0 .. SUBINITHEALTHY]
        /\ faults' \in 0 .. MaxFault
    BY <1>3, SubscriptionConstants, HealthConstants, SMT
       DEF GatewayRestart, Fault, TypeOK
  <2>. QED
    BY <1>3, <2>1, <2>2, <2>3, <2>4
       DEF GatewayRestart, TypeOK, HealthRange, peerVars
<1>. QED  BY <1>1, <1>2, <1>3 DEF Environment

(***************************************************************************)
(* TypeOK holds in every reachable state: no healthy or delay byte of      *)
(* MaCaco_subscribe ever wraps, and the round robin never leaves the       *)
(* address table.                                                          *)
(***************************************************************************)
THEOREM TypeCorrect == Spec => []TypeOK
<1>1. TypeOK /\ [Next]_vars => TypeOK'
  <2>1. TypeOK /\ Next => TypeOK'
    BY GatewayType, PeerType, EnvironmentType DEF Next
  <2>2. TypeOK /\ UNCHANGED vars => TypeOK'
    BY DEF TypeOK, vars, gatewayVars, channelVars, peerVars
  <2>. QED  BY <2>1, <2>2
<1>. QED  BY InitType, <1>1, PTL DEF Spec
-----------------------------------------------------------------------------
(***************************************************************************)
(* A failed channel has used up its health.                                *)
(*                                                                         *)
(* NoEarlyFailure speaks of failed channels only.  What is inductive is    *)
(* that the health a live channel still has, and the requests it has paid  *)
(* for since its last credit, add up to the initial health.                *)
(***************************************************************************)

HealthPays ==
  \A i \in Chan :
    /\ healthy[i] # 0 => healthy[i] + missed[i] * SUBSDECREASE >= SUBINITHEALTHY
    /\ healthy[i] = 0 /\ i \in outaddr =>
         (missed[i] + 1) * SUBSDECREASE >= SUBINITHEALTHY

LEMMA Distribute ==
  ASSUME NEW n \in Nat
  PROVE  /\ (n + 1) * SUBSDECREASE = n * SUBSDECREASE + SUBSDECREASE
         /\ n * SUBSDECREASE \in Nat
         /\ n * SUBSDECREASE >= n
<1>1. SUBSDECREASE \in Nat /\ SUBSDECREASE >= 1
  BY HealthConstants, SMT
<1>. QED  BY <1>1, SMT

\* One visit, on the health and the misses of the visited channel.
LEMMA VisitPays ==
  ASSUME NEW c \in Armed, NEW ok \in BOOLEAN,
         NEW before \in 0 .. SUBINITHEALTHY,
         ~ c.status => c.healthy + before * SUBSDECREASE >= SUBINITHEALTHY
  PROVE  LET v == Visit(c, ok)
             after == IF c.status THEN 0
                      ELSE IF Requests(c) /\ ok /\ before < SUBINITHEALTHY
                      THEN before + 1 ELSE before
         IN  /\ v.healthy # 0 => v.healthy + after * SUBSDECREASE >= SUBINITHEALTHY
             /\ v.healthy = 0 => (after + 1) * SUBSDECREASE >= SUBINITHEALTHY
<1>. DEFINE v == Visit(c, ok)
            after == IF c.status THEN 0
                     ELSE IF Requests(c) /\ ok /\ before < SUBINITHEALTHY
                     THEN before + 1 ELSE before
            d == before * SUBSDECREASE
            Goal == /\ v.healthy # 0 =>
                         v.healthy + after * SUBSDECREASE >= SUBINITHEALTHY
                    /\ v.healthy = 0 =>
                         (after + 1) * SUBSDECREASE >= SUBINITHEALTHY
<1>. SUFFICES Goal
  OBVIOUS
<1>0. /\ c.healthy \in 1 .. SUBMAXHEALTY /\ c.healthy # 0
      /\ before \in Nat /\ SUBINITHEALTHY \in Nat /\ SUBSDECREASE \in Nat
      /\ SUBSDECREASE > 0 /\ SUBMAXHEALTY \in Nat /\ SUBMAXHEALTY < 256
  BY HealthConstants, SMT DEF Armed
<1>1. CASE c.status
  <2>1. v.healthy = Credit(c.healthy)
    BY <1>1 DEF Visit, Answered
  <2>2. Credit(c.healthy) \in HealthRange /\ Credit(c.healthy) >= SUBINITHEALTHY
    BY <1>0, CreditBounds, SMT DEF HealthRange
  <2>. QED
    BY <1>0, <1>1, <2>1, <2>2, SMT DEF HealthRange
<1>2. CASE ~ c.status /\ Requests(c) /\ ok
  <2>0. c.healthy + d >= SUBINITHEALTHY
    BY <1>2, Zenon
  <2>1. (c.healthy - SUBSDECREASE) % 256 = c.healthy - SUBSDECREASE
    <3>1. c.healthy > SUBSDECREASE
      BY <1>2 DEF Requests
    <3>. QED  BY <1>0, <3>1, SMT
  <2>2. v.healthy = c.healthy - SUBSDECREASE
    BY <1>2, <2>1, SMT DEF Visit, Armed
  <2>3. v.healthy > 0
    <3>1. c.healthy > SUBSDECREASE
      BY <1>2 DEF Requests
    <3>. QED  BY <1>0, <2>2, <3>1, SMT
  <2>4. v.healthy # 0
    BY <1>0, <2>2, <2>3, SMT
  <2>5. CASE before < SUBINITHEALTHY
    <3>1. (before + 1) * SUBSDECREASE = d + SUBSDECREASE /\ d \in Nat
      BY <1>0, Distribute
    <3>2. v.healthy + (before + 1) * SUBSDECREASE >= SUBINITHEALTHY
      BY <1>0, <2>0, <2>2, <3>1, SMT
    <3>3. after = before + 1
      BY <1>2, <2>5, Zenon
    <3>. QED  BY <2>4, <3>2, <3>3, Zenon
  <2>6. CASE ~ (before < SUBINITHEALTHY)
    <3>1. d \in Nat /\ d >= before
      BY <1>0, Distribute
    <3>2. v.healthy + d >= SUBINITHEALTHY
      BY <1>0, <2>3, <2>2, <2>6, <3>1, SMT
    <3>3. after = before
      BY <1>2, <2>6, Zenon
    <3>. QED  BY <2>4, <3>2, <3>3, Zenon
  <2>. QED  BY <2>5, <2>6
<1>3. CASE ~ c.status /\ Requests(c) /\ ~ ok
  <2>0. c.healthy + d >= SUBINITHEALTHY
    BY <1>3, Zenon
  <2>1. v.healthy = c.healthy
    BY <1>3, SMT DEF Visit, Armed
  <2>2. after = before
    BY <1>3
  <2>3. v.healthy # 0 /\ v.healthy + after * SUBSDECREASE >= SUBINITHEALTHY
    BY <1>0, <2>0, <2>1, <2>2, Zenon
  <2>. QED  BY <2>3, Zenon
<1>4. CASE ~ c.status /\ ~ Requests(c) /\ ~ Fails(c)
  <2>0. c.healthy + d >= SUBINITHEALTHY
    BY <1>4, Zenon
  <2>1. v.healthy = c.healthy
    BY <1>4, SMT DEF Visit, Armed
  <2>2. after = before
    BY <1>4
  <2>3. v.healthy # 0 /\ v.healthy + after * SUBSDECREASE >= SUBINITHEALTHY
    BY <1>0, <2>0, <2>1, <2>2, Zenon
  <2>. QED  BY <2>3, Zenon
<1>5. CASE ~ c.status /\ ~ Requests(c) /\ Fails(c)
  <2>0. c.healthy + d >= SUBINITHEALTHY
    BY <1>5, Zenon
  <2>1. v.healthy = 0
    BY <1>5, SMT DEF Visit, Armed
  <2>2. c.healthy <= SUBSDECREASE
    BY <1>0, <1>5, SMT DEF Fails
  <2>3. (before + 1) * SUBSDECREASE = d + SUBSDECREASE /\ d \in Nat
    BY <1>0, Distribute
  <2>4. (before + 1) * SUBSDECREASE >= SUBINITHEALTHY
    BY <1>0, <2>0, <2>2, <2>3, SMT
  <2>. QED  BY <1>5, <2>1, <2>4
<1>. QED  BY <1>1, <1>2, <1>3, <1>4, <1>5

LEMMA InitPays == Init => HealthPays
<1>1. \A i \in Chan : i \in HealthyByte /\ i # NODES
  BY SubscriptionConstants, SMT DEF Chan, HealthyByte
<1>. QED  BY <1>1 DEF Init, GatewayBoot, HealthPays

LEMMA RoundsPay ==
  ASSUME TypeOK, HealthPays, NEW ok \in BOOLEAN, Souliss_CommunicationChannels(ok)
  PROVE  HealthPays'
<1>0. /\ Chan \subseteq HealthyByte
      /\ healthy \in [HealthyByte -> HealthRange]
      /\ missed \in [Chan -> 0 .. SUBINITHEALTHY]
      /\ SUBINITHEALTHY \in Nat /\ SUBSDECREASE \in Nat
  <2>1. Chan \subseteq HealthyByte
    BY SubscriptionConstants, SMT DEF Chan, HealthyByte
  <2>2. SUBINITHEALTHY \in Nat /\ SUBSDECREASE \in Nat
    BY HealthConstants, SMT
  <2>3. healthy \in [HealthyByte -> HealthRange] /\ missed \in [Chan -> 0 .. SUBINITHEALTHY]
    BY Zenon DEF TypeOK, HealthRange
  <2>. QED  BY <2>1, <2>2, <2>3, Zenon
<1>1. CASE roundrob_2 < NODES /\ roundrob_2 <= Len(addresses)
  <2>. DEFINE i == roundrob_2
              c == Pinned(Setup(channel(i)), i \in battery)
              v == Visit(c, ok)
              before == IF c.status \/ healthy[i] = 0 THEN 0 ELSE missed[i]
              after == IF c.status THEN 0
                       ELSE IF Requests(c) /\ ok /\ before < SUBINITHEALTHY
                       THEN before + 1 ELSE before
  <2>1. i \in Chan
    BY <1>1, SubscriptionConstants, SMT DEF TypeOK, Chan
  <2>2. /\ c \in Armed /\ c.healthy >= healthy[i]
        /\ healthy[i] = 0 => c.healthy >= SUBINITHEALTHY
    <3>1. channel(i) \in [healthy : HealthRange, count : HealthRange, status : BOOLEAN]
      BY <2>1, ChannelType DEF ChannelRange
    <3>2. (i \in battery) \in BOOLEAN /\ channel(i).healthy = healthy[i]
      BY DEF channel
    <3>. QED  BY <3>1, <3>2, ArmedChannel
  <2>3. before \in 0 .. SUBINITHEALTHY
    BY <1>0, <2>1
  <2>4. ~ c.status => c.healthy + before * SUBSDECREASE >= SUBINITHEALTHY
    <3>1. CASE healthy[i] = 0
      <4>1. before = 0 /\ c.healthy \in Nat /\ c.healthy >= SUBINITHEALTHY
        BY <2>2, <3>1, SMT DEF Armed
      <4>. QED  BY <1>0, <4>1, SMT
    <3>2. CASE healthy[i] # 0
      <4>1. healthy[i] + missed[i] * SUBSDECREASE >= SUBINITHEALTHY
        BY <2>1, <3>2 DEF HealthPays
      <4>2. /\ healthy[i] \in Nat /\ c.healthy \in Nat
            /\ missed[i] * SUBSDECREASE \in Nat
        BY <1>0, <2>1, <2>2, Distribute, SMT DEF HealthRange, Armed
      <4>3. c.healthy + missed[i] * SUBSDECREASE >= SUBINITHEALTHY
        BY <1>0, <2>2, <4>1, <4>2, SMT
      <4>. QED  BY <3>2, <4>3, Zenon
    <3>. QED  BY <3>1, <3>2
  <2>5. /\ v.healthy # 0 => v.healthy + after * SUBSDECREASE >= SUBINITHEALTHY
        /\ v.healthy = 0 => (after + 1) * SUBSDECREASE >= SUBINITHEALTHY
    BY <2>2, <2>3, <2>4, VisitPays
  <2>6. /\ healthy' = [healthy EXCEPT ![i] = v.healthy]
        /\ missed' = [missed EXCEPT ![i] = after]
        /\ outaddr' = outaddr \cup {i}
    <3>1. missed' = [missed EXCEPT ![i] =
                       IF Requests(c) /\ ok /\ before < SUBINITHEALTHY
                       THEN before + 1 ELSE before]
      BY <1>1 DEF Souliss_CommunicationChannels, MaCaco_subscribe
    <3>2. c.status => ~ Requests(c) /\ before = 0
      BY DEF Requests, Expired
    <3>. QED
      BY <1>1, <3>1, <3>2 DEF Souliss_CommunicationChannels, MaCaco_subscribe
  <2>. HIDE DEF v, after
  <2>. QED  BY <1>0, <2>1, <2>5, <2>6 DEF HealthPays
<1>2. CASE ~ (roundrob_2 < NODES /\ roundrob_2 <= Len(addresses))
  <2>1. /\ healthy' = [healthy EXCEPT ![roundrob_2] = SetupHealthy(healthy[roundrob_2])]
        /\ UNCHANGED <<outaddr, missed>>
    BY <1>2 DEF Souliss_CommunicationChannels, WrapRound
  <2>. SUFFICES ASSUME NEW i \in Chan
                PROVE  /\ healthy'[i] # 0 =>
                            healthy'[i] + missed[i] * SUBSDECREASE >= SUBINITHEALTHY
                       /\ healthy'[i] = 0 /\ i \in outaddr =>
                            (missed[i] + 1) * SUBSDECREASE >= SUBINITHEALTHY
    BY <2>1 DEF HealthPays
  <2>2. CASE healthy'[i] = healthy[i]
    BY <2>2 DEF HealthPays
  <2>3. CASE healthy'[i] # healthy[i]
    <3>1. healthy'[i] = SUBINITHEALTHY
      BY <1>0, <2>1, <2>3 DEF SetupHealthy
    <3>2. missed[i] * SUBSDECREASE \in Nat
      BY <1>0, Distribute, SMT
    <3>. QED  BY <1>0, <3>1, <3>2, HealthConstants, SMT
  <2>. QED  BY <2>2, <2>3
<1>. QED  BY <1>1, <1>2

LEMMA StepPays ==
  ASSUME TypeOK, HealthPays, [Next]_vars
  PROVE  HealthPays'
<1>. USE DEF channelVars, gatewayVars, peerVars
<1>1. CASE \E ok \in BOOLEAN : Souliss_CommunicationChannels(ok)
  BY <1>1, RoundsPay
<1>2. CASE UNCHANGED <<healthy, missed, outaddr>>
  BY <1>2 DEF HealthPays
<1>3. CASE UserHealtyReq
  <2>. SUFFICES ASSUME NEW i \in Chan
                PROVE  /\ healthy'[i] # 0 =>
                            healthy'[i] + missed'[i] * SUBSDECREASE >= SUBINITHEALTHY
                       /\ healthy'[i] = 0 /\ i \in outaddr =>
                            (missed'[i] + 1) * SUBSDECREASE >= SUBINITHEALTHY
    BY <1>3 DEF HealthPays, UserHealtyReq
  <2>1. i \in HealthyByte /\ i # NODES
    BY SubscriptionConstants, SMT DEF Chan, HealthyByte
  <2>2. CASE healthy[i] < SUBSCRHEALTY
    <3>1. healthy'[i] = SUBINITHEALTHY /\ missed'[i] = 0
      BY <1>3, <2>1, <2>2 DEF UserHealtyReq
    <3>. QED  BY <3>1, HealthConstants, SMT
  <2>3. CASE ~ (healthy[i] < SUBSCRHEALTY)
    <3>1. healthy'[i] = healthy[i] /\ missed'[i] = missed[i]
      BY <1>3, <2>1, <2>3 DEF UserHealtyReq
    <3>. QED  BY <3>1 DEF HealthPays
  <2>. QED  BY <2>2, <2>3
<1>4. CASE GatewayRestart
  <2>1. outaddr' = {} /\ \A i \in Chan : healthy'[i] = 0
    BY <1>4, BootType DEF GatewayRestart
  <2>. QED  BY <2>1 DEF HealthPays
<1>5. CASE UNCHANGED vars
  BY <1>5, <1>2 DEF vars
<1>6. CASE Gateway
  <2>1. ASSUME NEW m \in net, NEW keep \in BOOLEAN,
               RecvJoin(m, keep) \/ RecvSubscrAns(m, keep)
        PROVE  HealthPays'
    BY <1>2, <2>1 DEF RecvJoin, RecvSubscrAns
  <2>2. CASE UserDataReq
    BY <1>2, <2>2 DEF UserDataReq
  <2>. QED  BY <1>1, <1>3, <1>6, <2>1, <2>2 DEF Gateway
<1>7. ASSUME NEW p \in Peer, PeerNext(p)
      PROVE  HealthPays'
  BY <1>2, <1>7
     DEF PeerNext, RecvSubscrReq, MaCaco_subAnswer, LogicChange,
         Souliss_JoinNetwork, Souliss_JoinAndReset
<1>8. CASE Environment
  BY <1>2, <1>4, <1>8 DEF Environment, Lose, PeerRestart
<1>. QED  BY <1>5, <1>6, <1>7, <1>8 DEF Next

(***************************************************************************)
(* A channel fails only after ceil(SUBINITHEALTHY / SUBSDECREASE) - 1      *)
(* requests in a row without a counted answer, whatever the interleaving   *)
(* of rounds, answers, joins, user requests and restarts.                  *)
(***************************************************************************)
THEOREM NoEarlyFailureHolds == Spec => []NoEarlyFailure
<1>1. Init => HealthPays
  BY InitPays
<1>2. TypeOK /\ HealthPays /\ [Next]_vars => HealthPays'
  BY StepPays
<1>3. TypeOK /\ HealthPays => NoEarlyFailure
  BY DEF TypeOK, HealthPays, NoEarlyFailure
<1>. QED  BY TypeCorrect, <1>1, <1>2, <1>3, PTL DEF Spec
-----------------------------------------------------------------------------
(***************************************************************************)
(* Data stays with its peer.                                               *)
(*                                                                         *)
(* The answer that is stored was produced by the peer that sent it, and is *)
(* stored under an index of the address table: both have to be said of the *)
(* frames in flight and of the recorded channels for NoCrossTalk to be     *)
(* inductive.  A restart of the gateway keeps the frames and empties the   *)
(* tables; a join only appends.                                            *)
(***************************************************************************)

OutputsOwn == \A p \in Peer : out[p][1] = p

AnswersOwn == \A m \in net : m.type = "SUBSCRANS" => m.data[1] = m.peer

ChannelsKnown == outaddr \subseteq DOMAIN addresses

DataOwned ==
  /\ OutputsOwn /\ AnswersOwn /\ ChannelsKnown
  /\ AddressesUnique /\ NoCrossTalk

LEMMA InitOwned == Init => DataOwned
<1>. SUFFICES ASSUME NEW after \in AfterHealthy,
                     addresses = InitialAddresses, outaddr = {}, net = {},
                     P_OUT = [j \in Chan |-> NoData],
                     out = [p \in Peer |-> <<p, 0>>]
              PROVE  DataOwned
  BY DEF Init, GatewayBoot
<1>1. AddressesUnique
  BY SubscriptionConstants, SMT DEF AddressesUnique, InitialAddresses
<1>. QED
  BY <1>1 DEF DataOwned, OutputsOwn, AnswersOwn, ChannelsKnown, NoCrossTalk

\* A peer's requests, joins and answers put only its own data in flight.
LEMMA SendOwned ==
  ASSUME DataOwned, NEW p \in Peer, NEW before \in SUBSET net,
         NEW m \in {Request(p), Answer(p), Join(p), JoinReset(p)},
         net' = before \cup {m}
  PROVE  AnswersOwn'
<1>1. m.type = "SUBSCRANS" => m.data[1] = m.peer
  BY DEF Request, Answer, Join, JoinReset, DataOwned, OutputsOwn
<1>. QED  BY <1>1 DEF AnswersOwn, DataOwned

LEMMA GatewayOwned ==
  ASSUME TypeOK, DataOwned, Gateway
  PROVE  DataOwned'
<1>. USE DEF channelVars, gatewayVars, peerVars
<1>1. ASSUME NEW ok \in BOOLEAN, Souliss_CommunicationChannels(ok)
      PROVE  DataOwned'
  <2>1. CASE roundrob_2 < NODES /\ roundrob_2 <= Len(addresses)
    <3>1. roundrob_2 \in DOMAIN addresses /\ addresses[roundrob_2] \in Peer
      BY <2>1, SMT DEF TypeOK
    <3>2. ChannelsKnown'
      BY <1>1, <2>1, <3>1
         DEF DataOwned, ChannelsKnown, Souliss_CommunicationChannels, MaCaco_subscribe
    <3>3. AnswersOwn'
      <4>1. CASE UNCHANGED net
        BY <4>1 DEF DataOwned, AnswersOwn
      <4>2. CASE Send(net, Request(addresses[roundrob_2]))
        BY <3>1, <4>2, SendOwned DEF Send
      <4>. QED
        BY <1>1, <2>1, <4>1, <4>2
           DEF Souliss_CommunicationChannels, MaCaco_subscribe
    <3>. QED
      BY <1>1, <3>2, <3>3
         DEF Souliss_CommunicationChannels, DataOwned, OutputsOwn,
             AddressesUnique, NoCrossTalk
  <2>2. CASE ~ (roundrob_2 < NODES /\ roundrob_2 <= Len(addresses))
    BY <1>1, <2>2
       DEF Souliss_CommunicationChannels, WrapRound, DataOwned, OutputsOwn,
           AnswersOwn, ChannelsKnown, AddressesUnique, NoCrossTalk
  <2>. QED  BY <2>1, <2>2
<1>2. ASSUME NEW m \in net, NEW keep \in BOOLEAN, RecvJoin(m, keep)
      PROVE  DataOwned'
  <2>1. CASE UNCHANGED addresses
    BY <1>2, <2>1
       DEF RecvJoin, Deliver, DataOwned, OutputsOwn, AnswersOwn, ChannelsKnown,
           AddressesUnique, NoCrossTalk
  <2>2. CASE ~ InTable(m.peer) /\ addresses' = Append(addresses, m.peer)
    <3>1. /\ addresses \in Seq(Peer) /\ m.peer \in Peer
      BY SMT DEF TypeOK, Message
    <3>2. /\ DOMAIN addresses' = 1 .. Len(addresses) + 1
          /\ DOMAIN addresses = 1 .. Len(addresses)
          /\ \A i \in DOMAIN addresses : addresses'[i] = addresses[i]
          /\ addresses'[Len(addresses) + 1] = m.peer
          /\ Len(addresses) \in Nat
      BY <2>2, <3>1, SMT
    <3>3. AddressesUnique'
      BY <2>2, <3>2 DEF InTable, AddressesUnique, DataOwned
    <3>4. ChannelsKnown' /\ NoCrossTalk'
      BY <1>2, <3>2 DEF RecvJoin, ChannelsKnown, NoCrossTalk, DataOwned
    <3>. QED
      BY <1>2, <3>3, <3>4
         DEF RecvJoin, Deliver, DataOwned, OutputsOwn, AnswersOwn
  <2>. QED  BY <1>2, <2>1, <2>2 DEF RecvJoin
<1>3. ASSUME NEW m \in net, NEW keep \in BOOLEAN, RecvSubscrAns(m, keep)
      PROVE  DataOwned'
  <2>1. m.data[1] = m.peer
    BY <1>3 DEF RecvSubscrAns, DataOwned, AnswersOwn
  <2>2. NoCrossTalk'
    <3>1. CASE UNCHANGED P_OUT
      BY <1>3, <3>1 DEF RecvSubscrAns, DataOwned, NoCrossTalk
    <3>2. ASSUME NEW i \in outaddr, addresses[i] = m.peer,
                 P_OUT' = [P_OUT EXCEPT ![i] = m.data]
          PROVE  NoCrossTalk'
      BY <1>3, <2>1, <3>2
         DEF RecvSubscrAns, DataOwned, NoCrossTalk, ChannelsKnown, TypeOK
    <3>. QED  BY <1>3, <3>1, <3>2 DEF RecvSubscrAns
  <2>. QED
    BY <1>3, <2>2
       DEF RecvSubscrAns, Deliver, DataOwned, OutputsOwn, AnswersOwn,
           ChannelsKnown, AddressesUnique
<1>4. CASE UserDataReq \/ UserHealtyReq
  BY <1>4
     DEF UserDataReq, UserHealtyReq, DataOwned, OutputsOwn, AnswersOwn,
         ChannelsKnown, AddressesUnique, NoCrossTalk
<1>. QED  BY <1>1, <1>2, <1>3, <1>4 DEF Gateway

LEMMA PeerOwned ==
  ASSUME TypeOK, DataOwned, NEW p \in Peer, PeerNext(p)
  PROVE  DataOwned'
<1>. USE DEF channelVars, gatewayVars, peerVars
<1>1. UNCHANGED <<addresses, outaddr, P_OUT>>
  BY DEF PeerNext, RecvSubscrReq, MaCaco_subAnswer, LogicChange,
         Souliss_JoinNetwork, Souliss_JoinAndReset
<1>2. OutputsOwn'
  <2>1. CASE LogicChange(p)
    BY <2>1 DEF LogicChange, DataOwned, OutputsOwn, TypeOK
  <2>2. CASE UNCHANGED out
    BY <2>2 DEF DataOwned, OutputsOwn
  <2>. QED
    BY <2>1, <2>2
       DEF PeerNext, RecvSubscrReq, MaCaco_subAnswer,
           Souliss_JoinNetwork, Souliss_JoinAndReset
<1>3. AnswersOwn'
  <2>1. CASE UNCHANGED net
    BY <2>1 DEF DataOwned, AnswersOwn
  <2>2. ASSUME NEW before \in SUBSET net,
               NEW m \in {Request(p), Answer(p), Join(p), JoinReset(p)},
               Send(before, m)
        PROVE  AnswersOwn'
    BY <2>2, SendOwned DEF Send
  <2>. QED
    BY <2>1, <2>2
       DEF PeerNext, RecvSubscrReq, MaCaco_subAnswer, LogicChange,
           Souliss_JoinNetwork, Souliss_JoinAndReset
<1>. QED
  BY <1>1, <1>2, <1>3
     DEF DataOwned, ChannelsKnown, AddressesUnique, NoCrossTalk

LEMMA EnvironmentOwned ==
  ASSUME TypeOK, DataOwned, Environment
  PROVE  DataOwned'
<1>. USE DEF channelVars, gatewayVars, peerVars
<1>1. ASSUME NEW m \in net, Lose(m)
      PROVE  DataOwned'
  BY <1>1 DEF Lose, DataOwned, OutputsOwn, AnswersOwn, ChannelsKnown,
              AddressesUnique, NoCrossTalk
<1>2. ASSUME NEW p \in Peer, PeerRestart(p)
      PROVE  DataOwned'
  <2>1. OutputsOwn'
    BY <1>2 DEF PeerRestart, DataOwned, OutputsOwn, TypeOK
  <2>. QED
    BY <1>2, <2>1 DEF PeerRestart, DataOwned, AnswersOwn, ChannelsKnown,
                      AddressesUnique, NoCrossTalk
<1>3. CASE GatewayRestart
  <2>1. /\ addresses' = InitialAddresses
        /\ outaddr' = {}
        /\ P_OUT' = [i \in Chan |-> NoData]
        /\ UNCHANGED <<net, out>>
    BY <1>3, BootType DEF GatewayRestart
  <2>2. AddressesUnique'
    BY <2>1, SubscriptionConstants, SMT DEF AddressesUnique, InitialAddresses
  <2>. QED
    BY <2>1, <2>2
       DEF DataOwned, OutputsOwn, AnswersOwn, ChannelsKnown, NoCrossTalk
<1>. QED  BY <1>1, <1>2, <1>3 DEF Environment

LEMMA OwnedInvariant == Spec => [](TypeOK /\ DataOwned)
<1>1. TypeOK /\ DataOwned /\ [Next]_vars => DataOwned'
  <2>1. TypeOK /\ DataOwned /\ UNCHANGED vars => DataOwned'
    BY DEF vars, gatewayVars, channelVars, peerVars, DataOwned, OutputsOwn,
           AnswersOwn, ChannelsKnown, AddressesUnique, NoCrossTalk
  <2>. QED  BY <2>1, GatewayOwned, PeerOwned, EnvironmentOwned DEF Next
<1>. QED  BY TypeCorrect, InitOwned, <1>1, PTL DEF Spec

(***************************************************************************)
(* The gateway never shows a peer's outputs under another peer's index.    *)
(***************************************************************************)
THEOREM NoCrossTalkHolds == Spec => []NoCrossTalk
<1>1. TypeOK /\ DataOwned => NoCrossTalk
  BY DEF DataOwned
<1>. QED  BY OwnedInvariant, <1>1, PTL

(***************************************************************************)
(* No address is recorded twice by join requests.                          *)
(***************************************************************************)
THEOREM AddressesUniqueHolds == Spec => []AddressesUnique
<1>1. TypeOK /\ DataOwned => AddressesUnique
  BY DEF DataOwned
<1>. QED  BY OwnedInvariant, <1>1, PTL
-----------------------------------------------------------------------------
(***************************************************************************)
(* Subscription implements Replica: seen per peer, joins, indexes,         *)
(* channels and tables are a lossy copy of the peers' outputs.             *)
(***************************************************************************)

\* The copies in flight.
Transit == {<<m.peer, m.data>> : m \in {n \in net : n.type = "SUBSCRANS"}}

Copies == [p \in Peer |-> copy(p)]

IsAnswer(m) == m.type = "SUBSCRANS"

(***************************************************************************)
(* Frames that are not answers are invisible; an answer is the pair it     *)
(* carries.                                                                *)
(***************************************************************************)
LEMMA AnswerIsPair ==
  ASSUME NEW m \in Message, NEW n \in Message, IsAnswer(m), IsAnswer(n),
         m.peer = n.peer, m.data = n.data
  PROVE  m = n
  BY SMT DEF Message, IsAnswer

LEMMA TransitRemove ==
  ASSUME TypeOK, NEW m \in net, net' = net \ {m}
  PROVE  Transit' = IF IsAnswer(m) THEN Transit \ {<<m.peer, m.data>>} ELSE Transit
<1>1. net \subseteq Message
  BY DEF TypeOK
<1>. QED  BY <1>1, AnswerIsPair DEF Transit, IsAnswer

LEMMA TransitAdd ==
  ASSUME NEW m, net' = net \cup {m}
  PROVE  Transit' = IF IsAnswer(m) THEN Transit \cup {<<m.peer, m.data>>} ELSE Transit
  BY DEF Transit, IsAnswer

\* The copy of the peer that has an index is what is stored under it.
LEMMA CopyAt ==
  ASSUME AddressesUnique, NEW i \in DOMAIN addresses
  PROVE  copy(addresses[i]) = P_OUT[i]
  BY DEF AddressesUnique, copy

\* Copies depend on the table and the stored outputs only.
LEMMA CopiesUnchanged ==
  ASSUME UNCHANGED <<addresses, P_OUT>>
  PROVE  Copies' = Copies
  BY DEF Copies, copy

\* Every index of the table is a channel.
LEMMA IndexIsChannel ==
  ASSUME TypeOK
  PROVE  DOMAIN addresses \subseteq Chan
<1>1. addresses \in Seq(Peer) /\ Len(addresses) < NODES
  BY DEF TypeOK
<1>. QED  BY <1>1, SubscriptionConstants, SMT DEF Chan

LEMMA InitReplica == Init => R!Init
<1>. SUFFICES ASSUME Init PROVE R!Init
  OBVIOUS
<1>1. TypeOK
  BY InitType
<1>2. P_OUT = [i \in Chan |-> NoData] /\ net = {}
  BY DEF Init, GatewayBoot
<1>3. DOMAIN addresses \subseteq Chan
  BY <1>1, IndexIsChannel
<1>4. \A p \in Peer : copy(p) = NoData
  BY <1>2, <1>3, CopyAt, InitOwned DEF copy, DataOwned
<1>. QED  BY <1>1, <1>2, <1>4 DEF R!Init, TypeOK

\* An action that leaves the outputs, the stored data and the answers in
\* flight alone is invisible.
LEMMA Invisible ==
  ASSUME UNCHANGED <<out, addresses, P_OUT>>, Transit' = Transit
  PROVE  UNCHANGED R!vars
  BY CopiesUnchanged DEF R!vars, Copies, Transit

LEMMA GatewayReplica ==
  ASSUME TypeOK, DataOwned, Gateway
  PROVE  [R!Next]_R!vars
<1>. USE DEF channelVars, gatewayVars, peerVars
<1>1. ASSUME NEW ok \in BOOLEAN, Souliss_CommunicationChannels(ok)
      PROVE  UNCHANGED R!vars
  <2>1. \/ UNCHANGED net
        \/ net' = net \cup {Request(addresses[roundrob_2])}
    BY <1>1 DEF Souliss_CommunicationChannels, MaCaco_subscribe, WrapRound, Send
  <2>2. Transit' = Transit
    BY <2>1, TransitAdd DEF Transit, Request, IsAnswer
  <2>. QED  BY <1>1, <2>2, Invisible DEF Souliss_CommunicationChannels
<1>2. ASSUME NEW m \in net, NEW keep \in BOOLEAN, RecvJoin(m, keep)
      PROVE  UNCHANGED R!vars
  <2>1. ~ IsAnswer(m)
    BY <1>2 DEF RecvJoin, IsAnswer
  <2>2. Transit' = Transit
    BY <1>2, <2>1, TransitRemove DEF RecvJoin, Deliver, Transit
  <2>3. CASE UNCHANGED addresses
    BY <1>2, <2>2, <2>3, Invisible DEF RecvJoin
  <2>4. CASE ~ InTable(m.peer) /\ Len(addresses) < NODES - 1
             /\ addresses' = Append(addresses, m.peer)
    <3>. DEFINE new == Len(addresses) + 1
    <3>1. /\ DOMAIN addresses' = 1 .. new
          /\ DOMAIN addresses = 1 .. Len(addresses)
          /\ \A i \in DOMAIN addresses : addresses'[i] = addresses[i]
          /\ addresses'[new] = m.peer
          /\ Len(addresses) \in Nat
      <4>1. addresses \in Seq(Peer) /\ m.peer \in Peer
        BY SMT DEF TypeOK, Message
      <4>. QED  BY <2>4, <4>1, SMT
    <3>2. AddressesUnique /\ AddressesUnique'
      BY GatewayOwned DEF DataOwned
    <3>3. P_OUT[new] = NoData
      <4>1. new \in Chan /\ new \notin DOMAIN addresses
        BY <2>4, <3>1, SubscriptionConstants, SMT DEF Chan
      <4>. QED  BY <4>1 DEF DataOwned, NoCrossTalk
    <3>4. ASSUME NEW p \in Peer
          PROVE  copy(p)' = copy(p)
      <4>1. CASE p = m.peer
        <5>1. copy(p) = NoData
          BY <2>4, <4>1 DEF copy, InTable
        <5>2. copy(p)' = P_OUT'[new]
          BY <3>1, <3>2, <4>1 DEF copy, AddressesUnique
        <5>. QED  BY <1>2, <3>3, <5>1, <5>2 DEF RecvJoin
      <4>2. CASE p # m.peer /\ ~ InTable(p)
        BY <3>1, <4>2, SMT DEF copy, InTable
      <4>3. ASSUME NEW i \in DOMAIN addresses, addresses[i] = p
            PROVE  copy(p)' = copy(p)
        <5>1. copy(p) = P_OUT[i]
          BY <3>2, <4>3, CopyAt
        <5>2. i \in DOMAIN addresses' /\ addresses'[i] = p
          BY <3>1, <4>3, SMT
        <5>3. copy(p)' = P_OUT'[i]
          BY <3>2, <5>2 DEF copy, AddressesUnique
        <5>. QED  BY <1>2, <5>1, <5>3 DEF RecvJoin
      <4>. QED  BY <4>1, <4>2, <4>3 DEF InTable
    <3>. QED  BY <1>2, <2>2, <3>4 DEF RecvJoin, R!vars, Transit
  <2>. QED  BY <1>2, <2>3, <2>4 DEF RecvJoin
<1>3. ASSUME NEW m \in net, NEW keep \in BOOLEAN, RecvSubscrAns(m, keep)
      PROVE  [R!Next]_R!vars
  <2>. DEFINE c == <<m.peer, m.data>>
  <2>1. /\ IsAnswer(m) /\ c \in Transit /\ m.peer \in Peer
    BY <1>3, SMT DEF RecvSubscrAns, IsAnswer, Transit, TypeOK, Message
  <2>2. Transit' \in {Transit, Transit \ {c}}
    BY <1>3, <2>1, TransitRemove DEF RecvSubscrAns, Deliver, Transit
  <2>3. CASE UNCHANGED P_OUT
    <3>1. UNCHANGED <<out, Copies>>
      BY <1>3, <2>3, CopiesUnchanged DEF RecvSubscrAns
    <3>2. CASE Transit' = Transit
      BY <1>3, <2>3, <3>2, Invisible DEF RecvSubscrAns
    <3>3. CASE Transit' = Transit \ {c}
      <4>1. R!Drop(c)
        BY <2>1, <3>1, <3>3 DEF R!Drop, Transit, Copies
      <4>. QED  BY <2>1, <4>1 DEF R!Next, Transit
    <3>. QED  BY <2>2, <3>2, <3>3
  <2>4. ASSUME NEW i \in outaddr, addresses[i] = m.peer,
               P_OUT' = [P_OUT EXCEPT ![i] = m.data]
        PROVE  R!Next
    <3>1. /\ AddressesUnique /\ i \in DOMAIN addresses
          /\ DOMAIN addresses \subseteq Chan /\ DOMAIN P_OUT = Chan
      BY IndexIsChannel DEF DataOwned, ChannelsKnown, TypeOK
    <3>2. UNCHANGED <<addresses, out>>
      BY <1>3 DEF RecvSubscrAns
    <3>3. ASSUME NEW p \in Peer
          PROVE  copy(p)' = IF p = m.peer THEN m.data ELSE copy(p)
      <4>1. CASE p = m.peer
        <5>1. copy(p)' = P_OUT'[i]
          BY <2>4, <3>1, <3>2, <4>1 DEF copy, AddressesUnique
        <5>. QED  BY <2>4, <3>1, <4>1, <5>1
      <4>2. ASSUME p # m.peer, NEW j \in DOMAIN addresses, addresses[j] = p
            PROVE  copy(p)' = copy(p)
        <5>1. copy(p) = P_OUT[j] /\ copy(p)' = P_OUT'[j]
          BY <3>1, <3>2, <4>2 DEF copy, AddressesUnique
        <5>. QED  BY <2>4, <3>1, <4>2, <5>1
      <4>3. CASE p # m.peer /\ \A j \in DOMAIN addresses : addresses[j] # p
        BY <3>2, <4>3 DEF copy
      <4>. QED  BY <4>1, <4>2, <4>3
    <3>4. Copies' = [Copies EXCEPT ![m.peer] = m.data]
      BY <2>1, <3>3 DEF Copies
    <3>5. R!Apply(c)
      BY <2>1, <2>2, <3>2, <3>4 DEF R!Apply, Transit, Copies
    <3>. QED  BY <2>1, <3>5 DEF R!Next, Transit
  <2>. QED  BY <1>3, <2>3, <2>4 DEF RecvSubscrAns
<1>4. CASE UserDataReq \/ UserHealtyReq
  <2>1. UNCHANGED <<out, addresses, P_OUT, net>>
    BY <1>4 DEF UserDataReq, UserHealtyReq
  <2>. QED  BY <2>1, Invisible DEF Transit
<1>. QED  BY <1>1, <1>2, <1>3, <1>4 DEF Gateway

\* A peer sends what it has: a publication, when the frame is an answer.
LEMMA AnswerReplica ==
  ASSUME NEW p \in Peer, net' = net \cup {Answer(p)},
         UNCHANGED <<out, addresses, P_OUT>>
  PROVE  R!Next
<1>1. Transit' = Transit \cup {<<p, out[p]>>}
  <2>1. /\ IsAnswer(Answer(p))
        /\ <<Answer(p).peer, Answer(p).data>> = <<p, out[p]>>
    BY DEF Answer, IsAnswer
  <2>. QED  BY <2>1, TransitAdd, Zenon
<1>2. R!Publish(p)
  BY <1>1, CopiesUnchanged DEF R!Publish, Transit, Copies
<1>. QED  BY <1>2 DEF R!Next

LEMMA PeerReplica ==
  ASSUME TypeOK, DataOwned, NEW p \in Peer, PeerNext(p)
  PROVE  [R!Next]_R!vars
<1>. USE DEF channelVars, gatewayVars, peerVars
<1>1. ASSUME NEW keep \in BOOLEAN, RecvSubscrReq(p, keep)
      PROVE  R!Next
  <2>1. ~ IsAnswer(Request(p))
    BY DEF Request, IsAnswer
  <2>2. /\ Transit = {<<m.peer, m.data>> : m \in
                        {n \in net \ {Request(p)} : n.type = "SUBSCRANS"}}
        /\ Answer(p).type = "SUBSCRANS"
        /\ <<Answer(p).peer, Answer(p).data>> = <<p, out[p]>>
    BY <2>1 DEF Transit, IsAnswer, Answer
  <2>3. Transit' = Transit \cup {<<p, out[p]>>}
    BY <1>1, <2>2 DEF RecvSubscrReq, Send, Transit
  <2>4. R!Publish(p)
    BY <1>1, <2>3, CopiesUnchanged DEF RecvSubscrReq, R!Publish, Transit, Copies
  <2>. QED  BY <2>4 DEF R!Next
<1>2. ASSUME NEW ok \in BOOLEAN, MaCaco_subAnswer(p, ok)
      PROVE  [R!Next]_R!vars
  <2>1. CASE UNCHANGED net
    BY <1>2, <2>1, Invisible DEF MaCaco_subAnswer, Transit
  <2>2. CASE net' = net \cup {Answer(p)}
    BY <1>2, <2>2, AnswerReplica DEF MaCaco_subAnswer
  <2>. QED  BY <1>2, <2>1, <2>2 DEF MaCaco_subAnswer, Send
<1>3. CASE LogicChange(p)
  <2>1. PICK n \in 0 .. MaxChange : out' = [out EXCEPT ![p] = <<p, n>>]
    BY <1>3 DEF LogicChange
  <2>2. <<p, n>> \in Value
    BY DEF Value
  <2>3. R!Change(p)
    BY <1>3, <2>1, <2>2, CopiesUnchanged
       DEF LogicChange, R!Change, Transit, Copies
  <2>. QED  BY <2>3 DEF R!Next
<1>4. CASE Souliss_JoinNetwork(p) \/ Souliss_JoinAndReset(p)
  <2>1. \E m \in {Join(p), JoinReset(p)} : net' = net \cup {m}
    BY <1>4 DEF Souliss_JoinNetwork, Souliss_JoinAndReset, Send
  <2>2. Transit' = Transit
    BY <2>1, TransitAdd DEF Join, JoinReset, IsAnswer
  <2>. QED
    BY <1>4, <2>2, Invisible DEF Souliss_JoinNetwork, Souliss_JoinAndReset
<1>. QED  BY <1>1, <1>2, <1>3, <1>4 DEF PeerNext

LEMMA EnvironmentReplica ==
  ASSUME TypeOK, DataOwned, Environment
  PROVE  [R!Next]_R!vars
<1>. USE DEF channelVars, gatewayVars, peerVars
<1>1. ASSUME NEW m \in net, Lose(m)
      PROVE  [R!Next]_R!vars
  <2>1. UNCHANGED <<out, addresses, P_OUT>> /\ UNCHANGED Copies
    BY <1>1, CopiesUnchanged DEF Lose
  <2>2. CASE ~ IsAnswer(m)
    BY <1>1, <2>1, <2>2, TransitRemove, Invisible DEF Lose
  <2>3. CASE IsAnswer(m)
    <3>. DEFINE c == <<m.peer, m.data>>
    <3>1. c \in Transit /\ Transit' = Transit \ {c}
      BY <1>1, <2>3, TransitRemove DEF Lose, Transit, IsAnswer
    <3>2. R!Drop(c)
      BY <2>1, <3>1 DEF R!Drop, Transit, Copies
    <3>. QED  BY <3>1, <3>2 DEF R!Next, Transit
  <2>. QED  BY <2>2, <2>3
<1>2. ASSUME NEW p \in Peer, PeerRestart(p)
      PROVE  [R!Next]_R!vars
  <2>1. <<p, 0>> \in Value
    BY SubscriptionConstants, SMT DEF Value
  <2>2. R!Change(p)
    BY <1>2, <2>1, CopiesUnchanged DEF PeerRestart, R!Change, Transit, Copies
  <2>. QED  BY <2>2 DEF R!Next
<1>3. CASE GatewayRestart
  <2>1. /\ P_OUT' = [i \in Chan |-> NoData]
        /\ UNCHANGED <<net, out>>
    BY <1>3, BootType DEF GatewayRestart
  <2>2. DOMAIN addresses' \subseteq Chan
    <3>1. TypeOK'
      BY <1>3, EnvironmentType DEF Environment
    <3>2. addresses' \in Seq(Peer) /\ Len(addresses') < NODES
      BY <3>1 DEF TypeOK
    <3>. QED  BY <3>2, SubscriptionConstants, SMT DEF Chan
  <2>3. \A p \in Peer : copy(p)' = NoData
    BY <2>1, <2>2 DEF copy
  <2>4. R!Forget
    BY <2>1, <2>3 DEF R!Forget, Transit, Copies
  <2>. QED  BY <2>4 DEF R!Next
<1>. QED  BY <1>1, <1>2, <1>3 DEF Environment

(***************************************************************************)
(* Subscription implements Replica: whatever the gateway holds for a peer  *)
(* is a copy this peer sent, and nothing but an answer of that peer or a   *)
(* reboot of the gateway changes it.                                       *)
(***************************************************************************)
THEOREM Implements == Spec => Replicates
<1>1. TypeOK /\ DataOwned /\ [Next]_vars => [R!Next]_R!vars
  <2>1. TypeOK /\ DataOwned /\ UNCHANGED vars => UNCHANGED R!vars
    BY Invisible DEF vars, gatewayVars, channelVars, peerVars, Transit
  <2>. QED  BY <2>1, GatewayReplica, PeerReplica, EnvironmentReplica DEF Next
<1>. QED
  BY InitReplica, OwnedInvariant, <1>1, PTL DEF Spec, Replicates, R!Spec
=============================================================================
