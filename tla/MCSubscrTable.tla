--------------------------- MODULE MCSubscrTable ---------------------------
(* Instances of SubscrTable for TLC: addresses on several subnets, so that *)
(* the high bytes differ.                                                  *)
EXTENDS SubscrTable

\* Radio nodes 0x6501 and 0x6502, IP nodes 0x0203 and 0x0304.
Four == {<<1, 101>>, <<2, 101>>, <<3, 2>>, <<4, 3>>}

\* A fifth, so that a table of four entries overflows.
Five == Four \cup {<<5, 101>>}
=============================================================================
