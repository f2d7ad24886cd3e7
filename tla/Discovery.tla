------------------------------ MODULE Discovery ------------------------------
(***************************************************************************)
(* The poll of the nodes' typicals (Souliss_GetTypicals and the TYPREQ and *)
(* TYPANS of MaCaco).  A user interface asks the gateway; the gateway      *)
(* answers for itself, and its sketch then asks the peers one after the    *)
(* other, each again until it answers or the timeout runs out, and passes  *)
(* the answers on.  There is one record of who asked, one counter of the    *)
(* nodes left and one timeout, which an answer does not wind up again.     *)
(***************************************************************************)
EXTENDS Integers

CONSTANTS
  MaCaco_NODES,  \* entries of the address table                  (code: 45)
  TIMEOUT_SET,   \* rounds until the timeout                      (code: 32)
  Interface,     \* user interfaces
  MaxRequests    \* bound: requests of the interfaces

Nobody == "nobody"   \* the sketch asks on its own (MaCaco_InternalSubcription)

ASSUME DiscoveryConstants ==
  /\ MaCaco_NODES \in Nat /\ MaCaco_NODES > 1
  /\ TIMEOUT_SET \in Nat \ {0} /\ MaxRequests \in Nat
  /\ Nobody \notin Interface

VARIABLES
  size,          \* the peers in the address table are 1 .. size
  reqtyp_times,  \* nodes left, 0 when there is no request
  reqtyp_addr,   \* who gets the answers
  lasttyp_addr,  \* the peer that answered last, or 0
  roundrob_1,    \* entry of the table that is being asked
  timeout,
  frames,        \* requests and answers on their way
  requests,      \* bound used up
  asker,         \* history: who made the request that is being served,
  polled,        \* the peers that were asked for it,
  told,          \* those whose answer got to the asker,
  passed,        \* those that the timeout passed over,
  replaced,      \* whether another interface took the record over,
  late           \* and whether the timeout was out when the request came

discoveryVars == <<size, reqtyp_times, reqtyp_addr, lasttyp_addr, roundrob_1, timeout,
                   frames, requests, asker, polled, told, passed, replaced, late>>
serving == <<asker, polled, told, passed, replaced, late>>

Peers == 1 .. size
TYPREQ(n) == <<"TYPREQ", n>>
TYPANS(n) == <<"TYPANS", n>>

DiscoveryInit ==
  /\ size \in 1 .. MaCaco_NODES - 1
  /\ reqtyp_times \in {0, MaCaco_NODES}
  /\ reqtyp_addr = Nobody /\ lasttyp_addr = 0
  /\ roundrob_1 = 1 /\ timeout = TIMEOUT_SET
  /\ frames = {} /\ requests = 0
  /\ asker = Nobody /\ polled = {} /\ told = {} /\ passed = {}
  /\ replaced = FALSE /\ late = FALSE
-----------------------------------------------------------------------------
(* The interfaces.                                                         *)

Noted(u) ==
  /\ requests < MaxRequests
  /\ requests' = requests + 1
  /\ reqtyp_addr' = u

\* For all nodes: the poll begins again.
TYPREQ_All(u) ==
  /\ Noted(u)
  /\ reqtyp_times' = MaCaco_NODES
  /\ lasttyp_addr' = 0
  /\ asker' = u
  /\ polled' = {} /\ told' = {} /\ passed' = {}
  /\ replaced' = FALSE /\ late' = FALSE
  /\ UNCHANGED <<size, roundrob_1, timeout, frames>>

\* For one node, which is asked at once; the record changes hands.
TYPREQ_One(u, n) ==
  /\ Noted(u)
  /\ frames' = frames \cup {TYPREQ(n)}
  /\ replaced' = (replaced \/ u # asker)
  /\ UNCHANGED <<size, reqtyp_times, lasttyp_addr, roundrob_1, timeout>>
  /\ UNCHANGED <<asker, polled, told, passed, late>>
-----------------------------------------------------------------------------
(* The gateway's sketch: one call of Souliss_GetTypicals.                  *)

\* Behind the table lie the HEALTHY bytes, which are nobody's address but
\* not 0; 0 is the free entry after the last peer.
Address(r) == IF r \in Peers THEN r ELSE IF r < MaCaco_NODES THEN 0 ELSE -1

\* The timeout is out: the entry of the round robin is passed over, also when
\* it is that of the request before.
Expire ==
  /\ timeout = 0
  /\ timeout' = TIMEOUT_SET
  /\ roundrob_1' = roundrob_1 + 1
  /\ reqtyp_times' = reqtyp_times - 1
  /\ lasttyp_addr' = 0
  /\ passed' = passed \cup {roundrob_1}
  /\ late' = (late \/ reqtyp_times = MaCaco_NODES)
  /\ UNCHANGED <<frames, polled>>

\* A new request starts from the first node.
Start == reqtyp_times = MaCaco_NODES
Current == IF Start THEN 1 ELSE roundrob_1

\* Mutant: whoever has answered.
Answered_ByAny == ~ Start /\ lasttyp_addr # 0
Answered == ~ Start /\ Address(Current) # 0 /\ Address(Current) = lasttyp_addr

MoveOn ==
  /\ Answered
  /\ roundrob_1' = roundrob_1 + 1
  /\ reqtyp_times' = reqtyp_times - 1
  /\ UNCHANGED <<lasttyp_addr, frames, polled>>

\* The current peer is asked, or asked again; frames to nobody get lost.
Ask ==
  /\ ~ Answered /\ Address(Current) # 0
  /\ roundrob_1' = Current
  /\ reqtyp_times' = IF Start THEN reqtyp_times - 1 ELSE reqtyp_times
  /\ lasttyp_addr' = IF Start THEN 0 ELSE lasttyp_addr
  /\ frames' = frames \cup {TYPREQ(n) : n \in {Current} \cap Peers}
  /\ polled' = polled \cup {Current}

\* Behind the last peer.
End ==
  /\ Address(Current) = 0
  /\ roundrob_1' = 1 /\ reqtyp_times' = 0 /\ lasttyp_addr' = 0
  /\ UNCHANGED <<frames, polled>>

\* Mutant: the timeout is not counted.
Step_NoTimeout == (MoveOn \/ Ask \/ End) /\ UNCHANGED <<timeout, passed, late>>
Step ==
  \/ Expire
  \/ timeout > 0 /\ timeout' = timeout - 1 /\ (MoveOn \/ Ask \/ End) /\ UNCHANGED <<passed, late>>

Souliss_GetTypicals ==
  /\ reqtyp_times > 0
  /\ Step
  /\ UNCHANGED <<size, reqtyp_addr, requests, asker, told, replaced>>
-----------------------------------------------------------------------------
(* The network.                                                            *)

Answer(n) ==
  /\ TYPREQ(n) \in frames
  /\ frames' = (frames \ {TYPREQ(n)}) \cup {TYPANS(n)}
  /\ UNCHANGED <<size, reqtyp_times, reqtyp_addr, lasttyp_addr, roundrob_1, timeout, requests>>
  /\ UNCHANGED serving

\* The gateway notes who answered, and passes the answer on.
RecvTYPANS(n) ==
  /\ TYPANS(n) \in frames
  /\ frames' = frames \ {TYPANS(n)}
  /\ lasttyp_addr' = n
  /\ told' = IF reqtyp_addr = asker THEN told \cup {n} ELSE told
  /\ UNCHANGED <<size, reqtyp_times, reqtyp_addr, roundrob_1, timeout, requests>>
  /\ UNCHANGED <<asker, polled, passed, replaced, late>>

LoseFrame ==
  /\ \E f \in frames : frames' = frames \ {f}
  /\ UNCHANGED <<size, reqtyp_times, reqtyp_addr, lasttyp_addr, roundrob_1, timeout, requests>>
  /\ UNCHANGED serving

DiscoveryNext ==
  \/ \E u \in Interface : TYPREQ_All(u) \/ \E n \in Peers : TYPREQ_One(u, n)
  \/ \E n \in Peers : Answer(n) \/ RecvTYPANS(n)
  \/ Souliss_GetTypicals \/ LoseFrame

\* The sketch's loop calls GetTypicals again and again.
DiscoverySpec ==
  /\ DiscoveryInit /\ [][DiscoveryNext]_discoveryVars
  /\ WF_discoveryVars(Souliss_GetTypicals)
-----------------------------------------------------------------------------
(* Properties.                                                             *)

\* A poll that has ended has brought the asker the typicals of every peer that
\* the timeout did not pass over, whatever answers are lost, late or left from
\* the request before - if no other interface took over the record, and if
\* the timeout was not out when the request came.
NoneForgotten ==
  reqtyp_times = 0 /\ polled # {} => replaced \/ late \/ Peers \subseteq told \cup passed

\* Every poll ends, although peers may be silent and answers lost, and the
\* round robin may run behind the end of the table.
PollEnds == []<>(reqtyp_times = 0)

\* "Start from first node if is a new request from an user interface"
\* (base/Communication.cpp:144).
FirstAsked == requests > 0 /\ asker # Nobody /\ reqtyp_times < MaCaco_NODES => 1 \in polled
=============================================================================
