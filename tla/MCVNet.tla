------------------------------- MODULE MCVNet -------------------------------
(* Networks for VNet.                                                      *)
EXTENDS VNet

\* A radio channel with two supernodes, each with a bus behind it.
TwoBuses ==
  [addr |-> [g |-> {<<101, 1>>, <<206, 1>>}, s |-> {<<101, 2>>, <<207, 1>>},
             w |-> {<<101, 3>>}, b |-> {<<206, 2>>}, c |-> {<<207, 2>>}],
   super |-> {"g", "s"}, loops |-> FALSE, deaf |-> {}, max |-> 3]

\* A radio node out of the reach of the gateway, behind a range extender.
Extended ==
  [addr |-> [g |-> {<<101, 1>>, <<206, 1>>}, r |-> {<<102, 1>>},
             w |-> {<<102, 2>>}, b |-> {<<206, 2>>}],
   super |-> {"g", "r"}, loops |-> FALSE, deaf |-> {{"g", "w"}}, max |-> 3]

\* Two supernodes that bridge the same bus and the same radio channel, built
\* with VNET_LOOPS: without it they pass a broadcast round for ever.
Circle ==
  [addr |-> [g |-> {<<101, 1>>, <<206, 1>>}, s |-> {<<101, 2>>, <<206, 3>>},
             b |-> {<<206, 2>>}],
   super |-> {"g", "s"}, loops |-> TRUE, deaf |-> {}, max |-> 2]

SoundNetworks == {TwoBuses, Extended, Circle}
=============================================================================
