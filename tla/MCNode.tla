------------------------------- MODULE MCNode -------------------------------
(* What the loop of a node's sketch does beside its typicals: the rounds   *)
(* themselves, the push buttons, the serial bus and, on a gateway, one of  *)
(* the two buffers for external protocols and the poll of the nodes'       *)
(* typicals.  The parts share no state, and part tells which of them       *)
(* works; the others rest in an initial state.                             *)
EXTENDS Persistence, LastIn, Discovery, Scheduler, Buttons, Serial

VARIABLE part

nodeVars ==
  <<vars, lastinVars, discoveryVars, schedVars, buttonVars, serialVars, part>>

\* Two frames, one of which has the byte of the preamble in its payload.
Frames == <<<<9, 10>>, <<PREAMBLE, PREAMBLE>>>>

MCInit ==
  /\ part \in {"PERSISTENCE", "LASTIN", "poll", "rounds", "buttons", "serial"}
  /\ Init /\ LastInInit /\ DiscoveryInit /\ SchedInit /\ ButtonsInit
  /\ SerialInit
  /\ part # "poll" => size = 1 /\ reqtyp_times = 0
  /\ part # "rounds" => now = 0
  /\ part # "buttons" => elapsed = 0 /\ \A p \in Pin : helper[p] = "DigInHold"

\* A step of one part leaves the others alone.
Only(p) ==
  /\ part = p /\ part' = part
  /\ p # "PERSISTENCE" => UNCHANGED vars
  /\ p # "LASTIN" => UNCHANGED lastinVars
  /\ p # "poll" => UNCHANGED discoveryVars
  /\ p # "rounds" => UNCHANGED schedVars
  /\ p # "buttons" => UNCHANGED buttonVars
  /\ p # "serial" => UNCHANGED serialVars

MCNext ==
  \/ Only("PERSISTENCE") /\ Next
  \/ Only("LASTIN") /\ LastInNext
  \/ Only("poll") /\ DiscoveryNext
  \/ Only("rounds") /\ SchedNext
  \/ Only("buttons") /\ ButtonsNext
  \/ Only("serial") /\ SerialNext

\* The loop of the sketch goes over all ids, and calls GetTypicals, again and
\* again.
MCSpec ==
  /\ MCInit
  /\ [][MCNext]_nodeVars
  /\ WF_vars(\E n \in Node : Read(n))
  /\ \A n \in Node : WF_lastinVars(ReadLastIn(n))
  /\ WF_discoveryVars(Souliss_GetTypicals)

\* When the changes pause, the interface has read the last data of every node
\* that lost no entry, although Persistence_IsData looks at the first entry
\* only, and whatever the order of the entries of LASTIN.
EventuallySeen ==
  /\ \A n \in Peer : []<>(n \in overwritten \/ out[n] = seen[n])
  /\ \A n \in Node : []<>(n \in l_overwritten \/ best[n] = last[n])
=============================================================================
