----------------------------- MODULE Addressing -----------------------------
(***************************************************************************)
(* Dynamic addressing on one bus or radio channel (base/NetworkSetup.cpp,  *)
(* frame/MaCaco/MaCaco.cpp): nodes without an address ask the gateway for  *)
(* a subnet and then for an address, join, and are recorded in its table.  *)
(* The gateway keeps one request open at a time, told by a random key.     *)
(*                                                                         *)
(* An address is a pair of bytes.  Frames reach everyone in the order they *)
(* were sent, unless they are lost; one that is repeated while the first   *)
(* is still on its way counts once.  The keys of the nodes differ; a node  *)
(* stands for its key.                                                     *)
(***************************************************************************)
EXTENDS Integers, Sequences, FiniteSets, FiniteSetsExt, Functions

CONSTANTS
  Node,          \* nodes that ask for an address
  Supernode,     \* those that are built with VNET_SUPERNODE
  NoEEPROM,      \* those that forget their address when they restart
  MaCaco_NODES,  \* entries of the table, the gateway's own included (code: 45)
  MaxFaults      \* bound on lost frames, restarts and action messages

NoKey == "none"     \* randomkeyid and keyidval are 0; a node is no string

ASSUME AddressingConstants ==
  /\ IsFiniteSet(Node) /\ NoKey \notin Node
  /\ Supernode \subseteq Node /\ NoEEPROM \subseteq Node
  /\ MaCaco_NODES \in Nat /\ MaCaco_NODES > 1 /\ MaxFaults \in Nat

Subnet == 206       \* high byte of the addresses of the channel (bus: 0xCE)
Unset == <<0, 0>>
SubnetAddr == <<Subnet, 0>>          \* vnet_addr_l of the media
Gateway == <<0, 77>>                 \* DYNAMICADDR_IPVNETNODE
Entry == 0 .. MaCaco_NODES - 1

VARIABLES
  addr,             \* address of each node, Unset or no more than the subnet
  keyidval,         \* key of each node, 0 until it first asks
  queue,            \* the QUEUE bytes of the memory map of each node
  due,              \* nodes that got an answer and look at it next
  net,              \* frames on their way
  table,            \* the gateway's address table
  randomkeyid,      \* the gateway's open request
  proposedaddress,  \* and the address it last gave
  faults,           \* lost frames, restarts, action messages so far
  forgot,           \* history: a restart lost an address that was given
  full              \* history: a join found no entry

nodeVars == <<addr, keyidval, queue, due>>
serverVars == <<table, randomkeyid, proposedaddress>>
vars == <<nodeVars, net, serverVars, faults, forgot, full>>

NoData == [key |-> NoKey, addr |-> Unset]
Recorded == {table[e] : e \in Entry}

Init ==
  /\ addr = [n \in Node |-> Unset]
  /\ keyidval = [n \in Node |-> NoKey]
  /\ queue = [n \in Node |-> NoData]
  /\ due = {} /\ net = << >>
  /\ table = [e \in Entry |-> IF e = 0 THEN Gateway ELSE Unset]
  /\ randomkeyid = NoKey /\ proposedaddress = Unset
  /\ faults = 0 /\ forgot = FALSE /\ full = FALSE

Fault == faults < MaxFaults /\ faults' = faults + 1
Frame(kind, key, a) == [kind |-> kind, key |-> key, addr |-> a]
Kinds == {"SUBNETREQ", "SUBNETANS", "DINADDRESSREQ", "DINADDRESSANS", "JOIN"}
Rest(kind, key, a) == Append(Tail(net), Frame(kind, key, a))
-----------------------------------------------------------------------------
(* A node.  It looks at the queue after every frame it gets, and after ten *)
(* seconds without one: its own last frame has gone by then.               *)

Waits(n) == \E k \in DOMAIN net : net[k].key = n

Sent(frame) == IF frame \in Range(net) THEN net ELSE Append(net, frame)

\* The queue holds an answer to this node.
Mine(n) == queue[n].key = n

HasAddress(n) == Mine(n) /\ queue[n].addr[2] # 0

\* Mutant: a node asks on when it has an address.
NeedsAddress_Always(n) == TRUE
\* No address, or that of the subnet.
NeedsAddress(n) == addr[n] = Unset

Souliss_DynamicAddressing(n) ==
  /\ NeedsAddress(n)
  /\ n \in due \/ ~Waits(n)
  /\ due' = due \ {n}
  /\ keyidval' = [keyidval EXCEPT ![n] = n]
  /\ \/ /\ HasAddress(n)
        /\ addr' = [addr EXCEPT ![n] = queue[n].addr]
        /\ queue' = [queue EXCEPT ![n] = NoData]
        /\ UNCHANGED net
     \/ /\ Mine(n) /\ ~HasAddress(n)
        /\ net' = Sent(Frame("DINADDRESSREQ", n, queue[n].addr))
        /\ UNCHANGED <<addr, queue>>
     \/ /\ ~Mine(n)
        /\ queue' = [queue EXCEPT ![n] = NoData]
        /\ net' = Sent(Frame(IF n \in Supernode THEN "DINADDRESSREQ"
                                               ELSE "SUBNETREQ", n, Unset))
        /\ UNCHANGED addr
  /\ UNCHANGED <<serverVars, faults, forgot, full>>

\* JoinAndReset at start-up, JoinNetwork every ten minutes.
Souliss_JoinNetwork(n) ==
  /\ addr[n] # Unset
  /\ net' = Sent(Frame("JOIN", keyidval[n], addr[n]))
  /\ UNCHANGED <<nodeVars, serverVars, faults, forgot, full>>
-----------------------------------------------------------------------------
(* The gateway.                                                            *)

\* The first address that is not in the table, after as many as there are.
NodeAddress ==
  LET first == 2 + Cardinality({e \in Entry : table[e][1] = Subnet})
      free == {a \in first .. first + MaCaco_NODES : <<Subnet, a>> \notin Recorded}
  IN  <<Subnet, Min(free)>>

\* A supernode gets the first address of the subnet, always: the mask of the
\* other nodes' addresses is 0 or 1, no subnet.  It is the gateway's own.
SupernodeAddress == <<Subnet, 1>>

SUBNETREQ ==
  /\ Head(net).kind = "SUBNETREQ"
  /\ net' = Rest("SUBNETANS", Head(net).key, SubnetAddr)
  /\ UNCHANGED <<nodeVars, serverVars, faults, forgot, full>>

\* Mutant: an open request of another node is replaced.
Accepts_All(key) == TRUE
Accepts(key) == randomkeyid \in {NoKey, key}

DINADDRESSREQ ==
  /\ Head(net).kind = "DINADDRESSREQ"
  /\ LET key == Head(net).key
     IN  \/ /\ Accepts(key)
            /\ randomkeyid' = key
            /\ proposedaddress' = IF Head(net).addr = Unset
                                    THEN SupernodeAddress ELSE NodeAddress
            /\ net' = Rest("DINADDRESSANS", key, proposedaddress')
         \/ ~Accepts(key) /\ net' = Tail(net) /\ UNCHANGED <<randomkeyid, proposedaddress>>
  /\ UNCHANGED <<nodeVars, table, faults, forgot, full>>

\* Mutant: only the key tells whether the open request is done.
Done_ByKey(key, t) == randomkeyid = key
\* The open request is done: by its key, or its address is in the table t.
Done(key, t) == randomkeyid = key \/ \E e \in Entry : t[e] = proposedaddress

\* Entries where the scan for address a may stop.
Places(a) == {e \in Entry : table[e] \in {a, Unset}}

JOIN ==
  /\ Head(net).kind = "JOIN" /\ net' = Tail(net)
  /\ LET a == Head(net).addr
     IN  /\ \/ /\ Places(a) # {}
               /\ table' = [table EXCEPT ![Min(Places(a))] = a] /\ UNCHANGED full
            \/ Places(a) = {} /\ full' = TRUE /\ UNCHANGED table
         /\ randomkeyid' = IF Done(Head(net).key, table') THEN NoKey ELSE randomkeyid
  /\ UNCHANGED <<nodeVars, proposedaddress, faults, forgot>>

\* An answer is a broadcast: it goes to the QUEUE of every node it reaches, an
\* answer that some do not get counts as a fault.  MaCaco_FLOODPROTECTION
\* leaves the nodes time to look before the next.
Answer ==
  /\ Head(net).kind \in {"SUBNETANS", "DINADDRESSANS"} /\ net' = Tail(net)
  /\ due = {}
  /\ \E R \in SUBSET Node :
       /\ queue' = [n \in Node |-> IF n \in R
                                     THEN [key |-> Head(net).key, addr |-> Head(net).addr]
                                     ELSE queue[n]]
       /\ due' = {n \in R : addr[n] = Unset}
       /\ IF R = Node THEN UNCHANGED faults ELSE Fault
  /\ UNCHANGED <<addr, keyidval, serverVars, forgot, full>>

Deliver == net # << >> /\ (SUBNETREQ \/ DINADDRESSREQ \/ JOIN \/ Answer)
-----------------------------------------------------------------------------
(* Faults.                                                                 *)

Lose == net # << >> /\ Fault /\ net' = Tail(net)
        /\ UNCHANGED <<nodeVars, serverVars, forgot, full>>

\* An action message is written over what is in the queue.
ACTIONMSG(n) ==
  /\ queue[n] # NoData /\ Fault
  /\ queue' = [queue EXCEPT ![n] = NoData]
  /\ UNCHANGED <<addr, keyidval, due, net, serverVars, forgot, full>>

\* Souliss_DynamicAddressing_FirstBoot reads the address from the EEPROM.
RestartNode(n) ==
  /\ keyidval[n] # NoKey /\ Fault
  /\ addr' = [addr EXCEPT ![n] = IF n \in NoEEPROM THEN Unset ELSE @]
  /\ keyidval' = [keyidval EXCEPT ![n] = NoKey]
  /\ queue' = [queue EXCEPT ![n] = NoData] /\ due' = due \ {n}
  /\ forgot' = (forgot \/ (n \in NoEEPROM /\ Waits(n)))
  /\ UNCHANGED <<net, serverVars, full>>

\* Return_PeerAddresses(.., n) reads n values of two bytes, from one byte
\* after the other: only the bytes 0 .. n of the peers' addresses come back.
Restored ==
  LET n == MaCaco_NODES - 1
  IN  [e \in Entry |-> IF e = 0 THEN Gateway
                       ELSE <<IF 2 * e - 1 <= n THEN table[e][1] ELSE 0,
                              IF 2 * e - 2 <= n THEN table[e][2] ELSE 0>>]

\* Addresses that are held, or on their way to a node.
Given == ({addr[n] : n \in Node} \cup {queue[n].addr : n \in Node}
          \cup {net[k].addr : k \in {j \in DOMAIN net : net[j].kind = "DINADDRESSANS"}})
         \ {Unset, SubnetAddr}

RestartGateway ==
  /\ Fault
  /\ table' = Restored /\ randomkeyid' = NoKey /\ proposedaddress' = Unset
  /\ forgot' = (forgot \/ \E a \in Given : \A e \in Entry : table'[e] # a)
  /\ UNCHANGED <<nodeVars, net, full>>
-----------------------------------------------------------------------------
NodeStep(n) == Souliss_DynamicAddressing(n) \/ Souliss_JoinNetwork(n)

Next ==
  \/ \E n \in Node : NodeStep(n) \/ ACTIONMSG(n) \/ RestartNode(n)
  \/ Deliver \/ Lose \/ RestartGateway

Spec == Init /\ [][Next]_vars
-----------------------------------------------------------------------------
(* Correctness.                                                            *)

Address == Nat \X Nat

\* Types of the variables; the open request, if any, has an address.
TypeOK ==
  /\ addr \in [Node -> Address] /\ keyidval \in [Node -> Node \cup {NoKey}]
  /\ queue \in [Node -> [key : Node \cup {NoKey}, addr : Address]]
  /\ due \subseteq Node
  /\ net \in Seq([kind : Kinds, key : Node \cup {NoKey}, addr : Address])
  /\ table \in [Entry -> Address]
  /\ randomkeyid \in Node \cup {NoKey} /\ proposedaddress \in Address
  /\ faults \in 0 .. MaxFaults /\ forgot \in BOOLEAN /\ full \in BOOLEAN
  /\ randomkeyid # NoKey => proposedaddress # Unset

EndNode == Node \ Supernode

\* Two nodes never hold the same address, whatever requests, answers and joins
\* cross, are lost or are repeated, and whoever restarts - as long as the table
\* has room and no restart of the gateway forgot an address it gave.
AddressesUnique ==
  forgot \/ full
    \/ \A m, n \in EndNode : m # n /\ addr[m] # Unset => addr[m] # addr[n]

\* A node that restarts, and one whose answers come twice, keeps its address;
\* another node's answer never replaces it.
AddressKept == [][\A n \in Node \ NoEEPROM : addr[n] # Unset => addr'[n] = addr[n]]_vars
=============================================================================
