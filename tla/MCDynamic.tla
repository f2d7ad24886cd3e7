----------------------------- MODULE MCDynamic -----------------------------
(* Both sides of the subscriptions: what a gateway asks of peers that join *)
(* (Subscription), and whom a node sends its outputs (SubscrTable).  The   *)
(* parts share no state, and part tells which of them works:               *)
(*   gateway     the gateway and its peers                                 *)
(*   overflow    five nodes ask for four entries, and nothing is deleted   *)
(*   deletions   four nodes ask, and those behind IP may be deleted        *)
EXTENDS MCSubscription, MCSubscrTable

VARIABLE part

MCVars == <<vars, tableVars, part>>

MCInit == part \in {"gateway", "overflow", "deletions"} /\ Init /\ TableInit

MCNext ==
  /\ UNCHANGED part
  /\ \/ part = "gateway" /\ Next /\ UNCHANGED tableVars
     \/ /\ part = "overflow" /\ UNCHANGED vars
        /\ TableNext
        /\ deletions' = 0
     \/ /\ part = "deletions" /\ UNCHANGED vars
        /\ TableNext
        /\ \A a \in Five \ Four : asked'[a] = None

MCSpec == MCInit /\ [][MCNext]_MCVars
=============================================================================
