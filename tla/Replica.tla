------------------------------ MODULE Replica ------------------------------
(***************************************************************************)
(* What subscriptions promise to whoever reads the gateway: for every      *)
(* peer, the gateway holds nothing or outputs that this peer had when it   *)
(* sent them.  No order is promised: copies in transit may overtake each   *)
(* other, be lost or be repeated.                                          *)
(***************************************************************************)
CONSTANTS Peer,      \* producers
          Value,     \* outputs
          NoData     \* the gateway holds nothing

VARIABLES src,       \* peer: its outputs now
          transit,   \* copies on their way: pairs <<peer, outputs>>
          rep        \* peer: the copy the gateway holds

vars == <<src, transit, rep>>

Init ==
  /\ src \in [Peer -> Value]
  /\ transit = {}
  /\ rep = [p \in Peer |-> NoData]

\* The logic of a peer, or its reboot, changes its outputs.
Change(p) ==
  /\ \E v \in Value : src' = [src EXCEPT ![p] = v]
  /\ UNCHANGED <<transit, rep>>

\* A copy of what the peer has now is sent.
Publish(p) ==
  /\ transit' = transit \cup {<<p, src[p]>>}
  /\ UNCHANGED <<src, rep>>

\* A copy arrives; the network may hold on to it and deliver it again.
Apply(c) ==
  /\ c \in transit
  /\ rep' = [rep EXCEPT ![c[1]] = c[2]]
  /\ transit' \in {transit, transit \ {c}}
  /\ UNCHANGED src

\* A copy is lost, or refused.
Drop(c) ==
  /\ c \in transit
  /\ transit' = transit \ {c}
  /\ UNCHANGED <<src, rep>>

\* The gateway loses its memory.
Forget ==
  /\ rep' = [p \in Peer |-> NoData]
  /\ UNCHANGED <<src, transit>>

Next ==
  \/ \E p \in Peer : Change(p) \/ Publish(p)
  \/ \E c \in transit : Apply(c) \/ Drop(c)
  \/ Forget

Spec == Init /\ [][Next]_vars
=============================================================================
