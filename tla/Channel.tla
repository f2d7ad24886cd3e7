------------------------------ MODULE Channel ------------------------------
(***************************************************************************)
(* The health bookkeeping of one outgoing subscription channel, as kept by *)
(* MaCaco_subscribe (frame/MaCaco/MaCaco.cpp).                             *)
(*                                                                         *)
(* A gateway subscribes the outputs of its peers.  For every peer it keeps *)
(* a "healthy" value, a delay counter that runs down to the next request,  *)
(* and a flag telling that an answer came in since the last visit.  All    *)
(* are single bytes: arithmetic wraps modulo 256.                          *)
(***************************************************************************)
EXTENDS Integers

CONSTANTS
  SUBINITHEALTHY,  \* value of a channel that was just set up      (code: 37)
  SUBSINCREASE,    \* credit for an answer                         (code: 80)
  SUBSDECREASE,    \* debit for a request                          (code: 12)
  SUBMAXHEALTY     \* largest value                                (code: 255)

(***************************************************************************)
(* The order conf/frame/MaCacoCfg.h gives the four constants.  The sum     *)
(* that computes the new healthy value has to fit in a byte.               *)
(***************************************************************************)
ASSUME HealthConstants ==
  /\ {SUBINITHEALTHY, SUBSINCREASE, SUBSDECREASE, SUBMAXHEALTY} \subseteq Nat
  /\ 0 < SUBSDECREASE
  /\ SUBSDECREASE < SUBINITHEALTHY
  /\ SUBINITHEALTHY <= SUBSINCREASE
  /\ SUBSINCREASE < SUBMAXHEALTY
  /\ SUBMAXHEALTY < 256

\* Below this value a channel has failed: zero is the failed value.
SUBSCRHEALTY == 1

U8 == 0 .. 255

ChannelState == [healthy : U8, count : U8, status : BOOLEAN]

\* A channel never used: the memory map and the tables are cleared at boot.
Idle == [healthy |-> 0, count |-> 0, status |-> FALSE]

\* The caller arms a channel whose healthy byte is zero.
SetupHealthy(h) == IF h = 0 THEN SUBINITHEALTHY ELSE h

Setup(c) == [c EXCEPT !.healthy = SetupHealthy(@)]

\* No healthy check for a battery operated peer: it spends its time asleep.
Pinned(c, battery) == IF battery THEN [c EXCEPT !.healthy = SUBMAXHEALTY] ELSE c

\* Credit for an answer; the channel is left alone for as many visits as
\* its new healthy value.
Credit(h) ==
  IF h < SUBSCRHEALTY THEN (2 * SUBSCRHEALTY) % 256
  ELSE IF h < SUBMAXHEALTY - SUBSINCREASE THEN (h + SUBSINCREASE) % 256
  ELSE SUBMAXHEALTY

Answered(c) ==
  [healthy |-> Credit(c.healthy), count |-> Credit(c.healthy), status |-> FALSE]

Expired(c) == ~ c.status /\ c.count < SUBSCRHEALTY

\* The visit sends a subscription request.
Requests(c) == Expired(c) /\ c.healthy > SUBSDECREASE

\* The visit declares the channel failed.
Fails(c) == Expired(c) /\ ~ (c.healthy > SUBSDECREASE)

\* Mutant: the debit is taken whether or not vNet took the request.
Visit_AlwaysDebits(c, sent) ==
  IF c.status THEN Answered(c)
  ELSE IF Requests(c)
       THEN [c EXCEPT !.healthy = (@ - SUBSDECREASE) % 256, !.count = SUBMAXHEALTY]
  ELSE IF Fails(c) THEN [c EXCEPT !.healthy = 0]
  ELSE [c EXCEPT !.count = @ - 1]

\* One visit to an armed channel; sent tells whether vNet took the request,
\* when the visit sends one.
Visit(c, sent) ==
  IF c.status THEN Answered(c)
  ELSE IF Requests(c) THEN
         IF sent
         THEN [c EXCEPT !.healthy = (@ - SUBSDECREASE) % 256,
                        !.count = SUBMAXHEALTY]
         ELSE [c EXCEPT !.count = SUBINITHEALTHY]
  ELSE IF Fails(c) THEN [c EXCEPT !.healthy = 0]
  ELSE [c EXCEPT !.count = @ - 1]

\* What the visit returns: the channel is healthy, or it has failed.
SUBSCRANSWER(c) == c.healthy >= SUBSCRHEALTY
=============================================================================
