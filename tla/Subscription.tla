---------------------------- MODULE Subscription ----------------------------
(***************************************************************************)
(* A gateway that collects the outputs of its peers by subscription.       *)
(*                                                                         *)
(* Peers join (dynamic addressing) or are listed in the sketch (static);   *)
(* the gateway visits one subscription channel per round and sends a       *)
(* SUBSCRREQ when the channel's delay has expired; a peer records the      *)
(* gateway in its table, answers with its outputs, and sends them again    *)
(* whenever its data_changed flag is up.  vNet loses, duplicates and       *)
(* reorders frames; peers and the gateway reboot.                          *)
(*                                                                         *)
(* Every node runs one cooperative loop, so one action is one call of      *)
(* ProcessCommunication, CommunicationChannels or JoinNetwork, whole.      *)
(***************************************************************************)
EXTENDS Channel, Sequences, FiniteSets

CONSTANTS
  Peer,        \* the peers of the gateway
  NODES,       \* MaCaco_NODES: entries of the address table, the gateway's too
  Static,      \* addresses set by SetAsPeerNode (else by join requests)
  SetupOrder,  \* the peers in the order the sketch lists them (Static)
  BatteryPeer, \* peers declared with SetAsBatteryNode (Static)
  KeepJoining, \* the peers' loop has SLOW_PeerJoin (else START_PeerJoin)
  AfterHealthy, \* what the byte after the HEALTHY area may hold at boot
  MaxChange,   \* bound: changes of the peers' outputs
  MaxNet,      \* bound: frames in flight
  MaxFault     \* bound: faults and user requests

ASSUME SubscriptionConstants ==
  /\ NODES \in Nat /\ NODES > 1
  /\ Static \in BOOLEAN /\ KeepJoining \in BOOLEAN
  /\ SetupOrder \in Seq(Peer) /\ Len(SetupOrder) < NODES
  /\ \A i, j \in DOMAIN SetupOrder : SetupOrder[i] = SetupOrder[j] => i = j
  /\ BatteryPeer \subseteq Peer
  /\ AfterHealthy \subseteq 0 .. SUBMAXHEALTY
  /\ MaxChange \in Nat /\ MaxNet \in Nat /\ MaxFault \in Nat

Chan == 1 .. NODES - 1

\* The round robin reads and writes one healthy byte more: see HealthyByte.
HealthyByte == 1 .. NODES

\* The outputs of a peer, tagged with their producer; NoData is what the
\* gateway's cleared memory map holds.
Value == Peer \X (0 .. MaxChange)
NoData == <<>>

Message == [type : {"JOINNETWORK", "JOINANDRESET", "SUBSCRREQ"}, peer : Peer]
             \cup [type : {"SUBSCRANS"}, peer : Peer, data : Value]

VARIABLES
  addresses,     \* gateway: addresses of nodes 1, 2, ... (node 0 is itself)
  healthy,       \* gateway: HEALTHY area, and the byte that follows it
  count,         \* gateway: subscr_count
  status,        \* gateway: subscr_status
  outaddr,       \* gateway: channels recorded in subscr_outaddr
  battery,       \* gateway: channels flagged in subscr_battery
  roundrob_2,    \* gateway: channel to visit next
  P_OUT,         \* gateway: last outputs received from node i
  subscribed,    \* peer: the gateway is in its table of subscribers
  out,           \* peer: its outputs
  data_changed,  \* peer: trigger raised by the logic
  booting,       \* peer: still in GetAddress, its loop has not started
  net,           \* frames in flight
  missed,        \* history: requests on channel i since its last credit,
                 \* counted up to SUBINITHEALTHY
  changes, faults   \* bounds used up

channelVars == <<healthy, count, status, outaddr, battery, roundrob_2, missed>>
gatewayVars == <<addresses, channelVars, P_OUT>>
peerVars    == <<subscribed, out, data_changed, booting>>
vars == <<gatewayVars, peerVars, net, changes, faults>>
-----------------------------------------------------------------------------
(* Souliss_BatteryChannels compares the address of node roundrob_2, not of *)
(* node i, and returns at its first match: it can flag channel 0 only.     *)
Souliss_BatteryChannels(addrs, rr) ==
  IF rr \in DOMAIN addrs /\ addrs[rr] \in BatteryPeer THEN {0} ELSE {}

\* The state of the gateway when its loop starts.
GatewayBoot(addrs, after) ==
  [addresses |-> addrs,
   healthy   |-> [i \in HealthyByte |-> IF i = NODES THEN after ELSE 0],
   count     |-> [i \in Chan |-> 0],
   status    |-> [i \in Chan |-> FALSE],
   outaddr   |-> {},
   battery   |-> Souliss_BatteryChannels(addrs, 1),
   P_OUT     |-> [i \in Chan |-> NoData]]

InitialAddresses == IF Static THEN SetupOrder ELSE <<>>

Init ==
  \E after \in AfterHealthy :
    LET g == GatewayBoot(InitialAddresses, after)
    IN  /\ addresses = g.addresses
        /\ healthy = g.healthy
        /\ count = g.count
        /\ status = g.status
        /\ outaddr = g.outaddr
        /\ battery = g.battery
        /\ P_OUT = g.P_OUT
        /\ roundrob_2 = 1
        /\ missed = [i \in Chan |-> 0]
        /\ subscribed = [p \in Peer |-> FALSE]
        /\ out = [p \in Peer |-> <<p, 0>>]
        /\ data_changed = [p \in Peer |-> FALSE]
        /\ booting = [p \in Peer |-> ~ Static]
        /\ net = {}
        /\ changes = 0
        /\ faults = 0

\* A fault (or a user's request) consumes the bound.
Fault == faults < MaxFault /\ faults' = faults + 1
SendOutcome(ok) == IF ok THEN UNCHANGED faults ELSE Fault

\* Hand a frame to vNet; before is what else is in flight.
Send(before, m) ==
  /\ net' = before \cup {m}
  /\ Cardinality(net') <= MaxNet

Request(p) == [type |-> "SUBSCRREQ", peer |-> p]
Answer(p)  == [type |-> "SUBSCRANS", peer |-> p, data |-> out[p]]
Join(p)    == [type |-> "JOINNETWORK", peer |-> p]
JoinReset(p) == [type |-> "JOINANDRESET", peer |-> p]
-----------------------------------------------------------------------------
(* The gateway's rounds.                                                   *)

channel(i) == [healthy |-> healthy[i], count |-> count[i], status |-> status[i]]

\* MaCaco_subscribe on channel i whose healthy byte was just set up; ok is
\* the outcome of the transmission, if there is one.
MaCaco_subscribe(i, ok) ==
  LET c == Pinned(Setup(channel(i)), i \in battery)
      v == Visit(c, ok)
      sends == Requests(c)
  IN  /\ healthy' = [healthy EXCEPT ![i] = v.healthy]
      /\ count' = [count EXCEPT ![i] = v.count]
      /\ status' = [status EXCEPT ![i] = v.status]
      /\ outaddr' = outaddr \cup {i}
      /\ missed' = [missed EXCEPT ![i] =
                      LET counted == IF c.status \/ healthy[i] = 0 THEN 0 ELSE @
                      IN  IF sends /\ ok /\ counted < SUBINITHEALTHY
                          THEN counted + 1 ELSE counted]
      /\ IF sends /\ ok THEN Send(net, Request(addresses[i])) ELSE UNCHANGED net
      /\ IF sends THEN SendOutcome(ok) ELSE ok /\ UNCHANGED faults

\* The round robin is past the last node (entry empty, or the table is
\* full): start again.  The healthy byte is armed before this is noticed.
WrapRound ==
  /\ healthy' = [healthy EXCEPT ![roundrob_2] = SetupHealthy(@)]
  /\ roundrob_2' = 1
  /\ UNCHANGED <<count, status, outaddr, missed, net, faults>>

Souliss_CommunicationChannels(ok) ==
  /\ IF roundrob_2 < NODES /\ roundrob_2 <= Len(addresses)
     THEN MaCaco_subscribe(roundrob_2, ok) /\ roundrob_2' = roundrob_2 + 1
     ELSE ok /\ WrapRound
  /\ UNCHANGED <<addresses, battery, P_OUT, peerVars, changes>>
-----------------------------------------------------------------------------
(* The gateway's incoming frames.  keep: vNet delivers the frame once more *)
(* later.                                                                  *)

Deliver(m, keep) ==
  /\ m \in net
  /\ net' = IF keep THEN net ELSE net \ {m}
  /\ IF keep THEN Fault ELSE UNCHANGED faults

\* Mutant: the table is not scanned for the address.
InTable_NoScan(p) == FALSE

InTable(p) == \E i \in DOMAIN addresses : addresses[i] = p

\* Mutant: a new address takes the first entry and moves the others up.
RecvJoin_First(m, keep) ==
  LET records == ~ InTable(m.peer) /\ Len(addresses) < NODES - 1
      resets  == records \/ m.type = "JOINANDRESET"
  IN  /\ m.type \in {"JOINNETWORK", "JOINANDRESET"}
      /\ Deliver(m, keep)
      /\ addresses' = IF records THEN <<m.peer>> \o addresses ELSE addresses
      /\ count' = IF resets THEN [i \in Chan |-> 0] ELSE count
      /\ UNCHANGED <<healthy, status, outaddr, battery, roundrob_2, P_OUT,
                     missed, peerVars, changes>>

\* A join request: record the address in the first free entry and restart
\* the subscriptions; for a known address only JOINANDRESET restarts them.
RecvJoin(m, keep) ==
  LET records == ~ InTable(m.peer) /\ Len(addresses) < NODES - 1
      resets  == records \/ m.type = "JOINANDRESET"
  IN  /\ m.type \in {"JOINNETWORK", "JOINANDRESET"}
      /\ Deliver(m, keep)
      /\ addresses' = IF records THEN Append(addresses, m.peer) ELSE addresses
      /\ count' = IF resets THEN [i \in Chan |-> 0] ELSE count
      /\ UNCHANGED <<healthy, status, outaddr, battery, roundrob_2, P_OUT,
                     missed, peerVars, changes>>

\* Mutant: the answer is taken for one of the channel visited last.
RecvSubscrAns_LastVisited(m, keep) ==
  /\ m.type = "SUBSCRANS"
  /\ Deliver(m, keep)
  /\ roundrob_2 > 1
  /\ status' = [status EXCEPT ![roundrob_2 - 1] = TRUE]
  /\ P_OUT' = [P_OUT EXCEPT ![roundrob_2 - 1] = m.data]
  /\ UNCHANGED <<addresses, healthy, count, outaddr, battery, roundrob_2,
                 missed, peerVars, changes>>

\* A subscription answer: it counts for the first channel recorded with the
\* sender's address; the data goes to the node that has that address.  An
\* answer from an address no channel has is refused.
RecvSubscrAns(m, keep) ==
  /\ m.type = "SUBSCRANS"
  /\ Deliver(m, keep)
  /\ \/ \E i \in outaddr :
          /\ addresses[i] = m.peer
          /\ \A j \in outaddr : addresses[j] = m.peer => i <= j
          /\ status' = [status EXCEPT ![i] = TRUE]
          /\ P_OUT' = [P_OUT EXCEPT ![i] = m.data]
     \/ /\ \A i \in outaddr : addresses[i] # m.peer
        /\ UNCHANGED <<status, P_OUT>>
  /\ UNCHANGED <<addresses, healthy, count, outaddr, battery, roundrob_2,
                 missed, peerVars, changes>>

\* A user interface asks for fresh data of some nodes (DATAREQ), or of all
\* of them (STATEREQ): their delays are cut short.
UserDataReq ==
  /\ Fault
  /\ \E nodes \in {Chan} \cup {{i} : i \in Chan} :
       count' = [i \in Chan |-> IF i \in nodes THEN 0 ELSE count[i]]
  /\ UNCHANGED <<addresses, healthy, status, outaddr, battery, roundrob_2,
                 P_OUT, missed, peerVars, net, changes>>

\* A user interface asks for the healthy values (HEALTYREQ): nodes that
\* have failed are armed again.
UserHealtyReq ==
  /\ \E i \in Chan : healthy[i] < SUBSCRHEALTY
  /\ Fault
  /\ healthy' = [i \in HealthyByte |->
                   IF i # NODES /\ healthy[i] < SUBSCRHEALTY
                   THEN SUBINITHEALTHY ELSE healthy[i]]
  /\ missed' = [i \in Chan |-> IF healthy[i] < SUBSCRHEALTY THEN 0 ELSE missed[i]]
  /\ UNCHANGED <<addresses, count, status, outaddr, battery, roundrob_2,
                 P_OUT, peerVars, net, changes>>
-----------------------------------------------------------------------------
(* The peers.                                                              *)

\* SUBSCRREQ: record the subscriber and answer with the outputs.  A peer
\* that waits in GetAddress for a subscription goes on to its loop.
RecvSubscrReq(p, keep) ==
  /\ Request(p) \in net
  /\ Send(IF keep THEN net ELSE net \ {Request(p)}, Answer(p))
  /\ IF keep THEN Fault ELSE UNCHANGED faults
  /\ subscribed' = [subscribed EXCEPT ![p] = TRUE]
  /\ booting' = [booting EXCEPT ![p] = FALSE]
  /\ UNCHANGED <<gatewayVars, out, data_changed, changes>>

\* No frame to process and the trigger is up: send the outputs to the
\* subscribers.  After Macaco_MAXRETRY failures over IP the subscription is
\* deleted; the trigger is cleared whatever the outcome.
MaCaco_subAnswer(p, ok) ==
  /\ data_changed[p]
  /\ data_changed' = [data_changed EXCEPT ![p] = FALSE]
  /\ IF subscribed[p]
     THEN /\ SendOutcome(ok)
          /\ IF ok THEN Send(net, Answer(p)) ELSE UNCHANGED net
          /\ subscribed' = [subscribed EXCEPT ![p] = ok]
     ELSE ok /\ UNCHANGED <<net, subscribed, faults>>
  /\ UNCHANGED <<gatewayVars, out, booting, changes>>

\* The logic of the peer changes an output and raises the trigger.
LogicChange(p) ==
  /\ ~ booting[p]
  /\ changes < MaxChange
  /\ changes' = changes + 1
  /\ \E n \in 0 .. MaxChange :
       /\ <<p, n>> # out[p]
       /\ out' = [out EXCEPT ![p] = <<p, n>>]
  /\ data_changed' = [data_changed EXCEPT ![p] = TRUE]
  /\ UNCHANGED <<gatewayVars, subscribed, booting, net, faults>>

\* Mutant: a node that was subscribed once does not join again.
Souliss_JoinNetwork_Once(p) ==
  /\ ~ Static
  /\ ~ booting[p]
  /\ ~ subscribed[p]
  /\ Send(net, Join(p))
  /\ UNCHANGED <<gatewayVars, peerVars, changes, faults>>

\* The peer's loop joins: SLOW_PeerJoin always, START_PeerJoin only while
\* nobody has subscribed the node.
Souliss_JoinNetwork(p) ==
  /\ ~ Static
  /\ ~ booting[p]
  /\ KeepJoining \/ ~ subscribed[p]
  /\ Send(net, Join(p))
  /\ UNCHANGED <<gatewayVars, peerVars, changes, faults>>

\* GetAddress at boot (dynamic addressing): join and ask for a reset until
\* somebody subscribes.
Souliss_JoinAndReset(p) ==
  /\ booting[p]
  /\ Send(net, JoinReset(p))
  /\ UNCHANGED <<gatewayVars, peerVars, changes, faults>>
-----------------------------------------------------------------------------
(* The environment.                                                        *)

Lose(m) ==
  /\ m \in net
  /\ Fault
  /\ net' = net \ {m}
  /\ UNCHANGED <<gatewayVars, peerVars, changes>>

\* All of a node's tables are in RAM.
PeerRestart(p) ==
  /\ Fault
  /\ subscribed' = [subscribed EXCEPT ![p] = FALSE]
  /\ out' = [out EXCEPT ![p] = <<p, 0>>]
  /\ data_changed' = [data_changed EXCEPT ![p] = FALSE]
  /\ booting' = [booting EXCEPT ![p] = ~ Static]
  /\ UNCHANGED <<gatewayVars, net, changes>>

GatewayRestart ==
  LET g == GatewayBoot(InitialAddresses, healthy[NODES])
  IN  /\ Fault
      /\ addresses' = g.addresses
      /\ healthy' = g.healthy
      /\ count' = g.count
      /\ status' = g.status
      /\ outaddr' = g.outaddr
      /\ battery' = g.battery
      /\ P_OUT' = g.P_OUT
      /\ roundrob_2' = 1
      /\ missed' = [i \in Chan |-> 0]
      /\ UNCHANGED <<peerVars, net, changes>>

Gateway ==
  \/ \E ok \in BOOLEAN : Souliss_CommunicationChannels(ok)
  \/ \E m \in net, keep \in BOOLEAN : RecvJoin(m, keep) \/ RecvSubscrAns(m, keep)
  \/ UserDataReq
  \/ UserHealtyReq

PeerNext(p) ==
  \/ \E keep \in BOOLEAN : RecvSubscrReq(p, keep)
  \/ \E ok \in BOOLEAN : MaCaco_subAnswer(p, ok)
  \/ LogicChange(p)
  \/ Souliss_JoinNetwork(p)
  \/ Souliss_JoinAndReset(p)

Environment ==
  \/ \E m \in net : Lose(m)
  \/ \E p \in Peer : PeerRestart(p)
  \/ GatewayRestart

Next == Gateway \/ (\E p \in Peer : PeerNext(p)) \/ Environment

Spec == Init /\ [][Next]_vars

(***************************************************************************)
(* The loops never stop: the gateway visits its channels and processes     *)
(* every frame that arrives, a peer processes frames, sends its changes    *)
(* and joins as its sketch says.  Nothing is assumed of the logic, of the  *)
(* user or of the faults.                                                  *)
(***************************************************************************)
Fairness ==
  /\ WF_vars(Souliss_CommunicationChannels(TRUE))
  /\ \A m \in Message : WF_vars(RecvJoin(m, FALSE)) /\ WF_vars(RecvSubscrAns(m, FALSE))
  /\ \A p \in Peer :
       /\ WF_vars(RecvSubscrReq(p, FALSE))
       /\ WF_vars(MaCaco_subAnswer(p, TRUE))
       /\ WF_vars(Souliss_JoinNetwork(p))
       /\ WF_vars(Souliss_JoinAndReset(p))

FairSpec == Spec /\ Fairness
-----------------------------------------------------------------------------
(* Properties.                                                             *)

\* Every variable keeps its type; in particular the healthy and the delay
\* bytes stay bytes without wrapping past the largest healthy value.
TypeOK ==
  /\ addresses \in Seq(Peer) /\ Len(addresses) < NODES
  /\ healthy \in [HealthyByte -> 0 .. SUBMAXHEALTY]
  /\ count \in [Chan -> 0 .. SUBMAXHEALTY]
  /\ status \in [Chan -> BOOLEAN]
  /\ outaddr \subseteq Chan
  /\ battery \subseteq {0} \cup Chan
  /\ roundrob_2 \in 1 .. NODES
  /\ P_OUT \in [Chan -> Value \cup {NoData}]
  /\ subscribed \in [Peer -> BOOLEAN]
  /\ out \in [Peer -> Value]
  /\ data_changed \in [Peer -> BOOLEAN]
  /\ booting \in [Peer -> BOOLEAN]
  /\ net \subseteq Message
  /\ missed \in [Chan -> 0 .. SUBINITHEALTHY]
  /\ changes \in 0 .. MaxChange
  /\ faults \in 0 .. MaxFault

\* The outputs stored for a node were produced by the peer that has the
\* node's address, whatever order the peers joined in, before or after a
\* restart of the gateway that leaves answers of the old table in flight.
NoCrossTalk ==
  \A i \in Chan : P_OUT[i] # NoData =>
    i \in DOMAIN addresses /\ P_OUT[i][1] = addresses[i]

\* No peer is listed twice, however often its join is repeated, duplicated
\* or arrives late: one channel and one index belong to each peer.
AddressesUnique ==
  \A i, j \in DOMAIN addresses : addresses[i] = addresses[j] => i = j

\* What a reader of the gateway sees of peer p: the outputs stored under the
\* index its address has.
copy(p) ==
  IF \E i \in DOMAIN addresses : addresses[i] = p
  THEN P_OUT[CHOOSE i \in DOMAIN addresses : addresses[i] = p]
  ELSE NoData

R == INSTANCE Replica WITH
       src     <- out,
       transit <- {<<m.peer, m.data>> : m \in {n \in net : n.type = "SUBSCRANS"}},
       rep     <- [p \in Peer |-> copy(p)]

\* Joins, indexes, channels and tables together are a plain lossy copy of
\* each peer's outputs: data is never invented, never stored under another
\* peer's index and never moved by a later join.
Replicates == R!Spec

\* A channel is reported as failed only after as many requests in a row
\* went without a counted answer as the initial health pays for: losing one
\* frame, a user who asks for fresh data, or a restart never does it alone.
NoEarlyFailure ==
  \A i \in outaddr : healthy[i] = 0 =>
    (missed[i] + 1) * SUBSDECREASE >= SUBINITHEALTHY

\* Faults and changes being over, the gateway ends up with the outputs of
\* every peer and keeps them: lost answers, lost requests, deleted
\* subscriptions and reboots all heal through the periodic requests.
Converges ==
  <>[](\A p \in Peer : \E i \in DOMAIN addresses :
         addresses[i] = p /\ P_OUT[i] = out[p])
=============================================================================
