-------------------------------- MODULE T5n --------------------------------
(***************************************************************************)
(* Analog values (base/T5n.cpp, base/T6n.cpp): T51, a measure that is      *)
(* published when it has left a dead band, and T61, a setpoint.            *)
(*                                                                         *)
(* A value is a half-precision float in the two slots, here one number.    *)
(* The zero of an empty mailbox is also the number 0.0, which is therefore *)
(* never taken; a sensor that fails gives NaN.                             *)
(***************************************************************************)
EXTENDS Slot

VARIABLES
  wanted,  \* history: the last value that was written to the inputs
  taken    \* history: a logic has seen it

valueVars == <<wanted, taken>>

Typicals == {"T51", "T61"}

NaN == 65024   \* 0xFE00

\* Bounds: what is measured or set, and the dead band of the sketch.
Values == {RstCmd, 1, 2, 3, 5, NaN}
Deadband == 1

Init ==
  /\ \E t \in Typicals :
       /\ TYP_s = t
       /\ IN_s = NaN /\ OUT_s = NaN /\ sent = NaN
       /\ AUXIN_s = 0 /\ trigger = FALSE /\ due = FALSE /\ commands = 0
  /\ wanted = NaN /\ taken = FALSE

Near(v, w) == NaN \notin {v, w} /\ v - w \in -Deadband .. Deadband

\* Mutant: a number does not replace NaN, from which nothing is far.
Changed_NoNaN(v) == IF TYP_s = "T51" THEN NaN \notin {v, OUT_s} /\ ~ Near(v, OUT_s) ELSE v # OUT_s

\* Whether a number is stored and published.
Changed(v) == IF TYP_s = "T51" THEN ~ Near(v, OUT_s) ELSE v # OUT_s

\* Souliss_Logic_T51 and T61.  NaN is stored without a trigger, and what is
\* not stored stays in the inputs.
Logic ==
  /\ TYP_s \in Typicals
  /\ SlotLogic(
       IF IN_s = RstCmd THEN Slot(IN_s, OUT_s, AUXIN_s, FALSE)
       ELSE IF IN_s = NaN THEN Slot(IN_s, NaN, AUXIN_s, FALSE)
       ELSE IF Changed(IN_s) THEN Slot(RstCmd, IN_s, AUXIN_s, TRUE)
       ELSE Slot(IN_s, OUT_s, AUXIN_s, FALSE))
  /\ taken' = TRUE
  /\ UNCHANGED wanted

Written == wanted' = IN_s' /\ taken' = FALSE

\* The sketch measures in a slower phase (Souliss_ImportAnalog, AnalogIn).
Measure ==
  /\ TYP_s = "T51"
  /\ \E v \in Values : SlotTimer(Slot(v, OUT_s, AUXIN_s, FALSE))
  /\ Written

\* A user sets a value.
User ==
  /\ TYP_s = "T61"
  /\ \E v \in Values : Command(v)
  /\ Written

\* A setpoint has no timer; the turn goes by.
NoTimer ==
  /\ TYP_s = "T61"
  /\ SlotTimer(Slot(IN_s, OUT_s, AUXIN_s, FALSE))
  /\ UNCHANGED valueVars

Publish == Communicate /\ UNCHANGED valueVars

Next == Logic \/ Measure \/ User \/ NoTimer \/ Publish

Spec == Init /\ [][Next]_<<slotVars, valueVars>>
-----------------------------------------------------------------------------
(* Properties.                                                             *)

\* Once a value has been taken and published, what the subscribers have is
\* within the dead band of it, or is it in the case of a setpoint, however
\* small steps, failures of the sensor and lost readings followed each other;
\* only 0.0 does not count.
Tracks ==
  taken /\ ~ trigger /\ wanted \notin {RstCmd, NaN} =>
    IF TYP_s = "T51" THEN Near(sent, wanted) ELSE sent = wanted
=============================================================================
