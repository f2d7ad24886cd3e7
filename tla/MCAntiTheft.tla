---------------------------- MODULE MCAntiTheft ----------------------------
(* Two installations: the one the cfg describes, a pair of nodes with      *)
(* faults, and a ring of three of which one is off from the start, on a    *)
(* network that delivers.                                                  *)
EXTENDS AntiTheft

Ring == INSTANCE AntiTheft WITH
  N <- 3, Dead <- {1}, Lossy <- FALSE, SensorEvent <- Alarm, ArmDelay <- 0,
  MaxSensor <- 0, MaxFault <- 0

VARIABLE ring   \* the installation is the ring

MCInit == (ring = FALSE /\ Init) \/ (ring = TRUE /\ Ring!Init)

MCNext ==
  \/ ~ ring /\ Next /\ UNCHANGED ring
  \/ ring /\ Ring!Next /\ UNCHANGED ring

\* The phases of the ring's nodes and its network are as fair as in FairSpec.
MCSpec ==
  /\ MCInit /\ [][MCNext]_<<vars, ring>>
  /\ \A n \in Ring!Node : WF_vars(ring /\ Ring!Logic(n)) /\ WF_vars(ring /\ Ring!Souliss_Watchdog(n))
  /\ WF_vars(ring /\ Ring!Souliss_T41_Timer)
  /\ \A m \in {AlarmFrame} \cup {Kick(n) : n \in Ring!Node} : WF_vars(ring /\ Ring!Receive(m))
  /\ SF_vars(ring /\ Ring!Logic(Main) /\ input[Main] = Alarm)

\* "A fail of one node will result in a fail of the watch-dog and so rising
\* an alarm": in the ring, where the successor of the dead node is a peer.
RingRaisesAlarm == ring => Ring!DeadNodeRaisesAlarm
=============================================================================
