----------------------------- MODULE MCNetwork -----------------------------
(* The two halves of the network: nodes that get their addresses, or       *)
(* devices with addresses that send over bridges.                          *)
EXTENDS Addressing, MCVNet

VARIABLE half

MCInit ==
  /\ Init /\ VNetInit /\ half \in {"addressing", "vnet"}
  /\ half = "addressing" => nw = Extended

MCNext ==
  \/ half = "addressing" /\ Next /\ UNCHANGED vnetVars /\ UNCHANGED half
  \/ half = "vnet" /\ VNetNext /\ UNCHANGED vars /\ UNCHANGED half

\* The loops of the nodes, of the gateway and of the bridges go on.
MCSpec ==
  /\ MCInit /\ [][MCNext]_<<vars, vnetVars, half>>
  /\ WF_vars(half = "addressing" /\ Deliver)
  /\ \A n \in Node : WF_vars(half = "addressing" /\ NodeStep(n))
  /\ VNetFair

\* Every node gets an address and is in the gateway's table in the end: nodes
\* that ask at the same time do not keep each other out for ever.
EveryoneJoins ==
  <>[](half = "addressing" =>
         full \/ \A n \in Node : addr[n] # Unset /\ addr[n] \in Recorded)
=============================================================================
