----------------------------- MODULE MCTypicals -----------------------------
(* One slot with any of the typicals of T1n, T2n, T31 and T5n in it.       *)
EXTENDS T2n

VARIABLES
  IN_c, OUT_c, AUXIN_c, contact, InPin_c, byUser, left,
  in_temp, in_setpnt, actual_temp, actual_setpnt, calm,
  wanted, taken

Light == INSTANCE T1n
Thermo == INSTANCE T3n
Analog == INSTANCE T5n

lightVars == <<IN_c, OUT_c, AUXIN_c, contact, InPin_c, byUser, left>>
thermoVars == <<in_temp, in_setpnt, actual_temp, actual_setpnt, calm>>
valueVars == <<wanted, taken>>
allVars == <<slotVars, doorVars, lightVars, thermoVars, valueVars>>

NoDoor == InPin = {} /\ pos = 0 /\ ran = 0
NoLight ==
  /\ IN_c = Light!Dark /\ OUT_c = Light!Dark /\ AUXIN_c = Light!Dark
  /\ contact = FALSE /\ InPin_c = RstCmd /\ byUser = FALSE /\ left = Light!None
NoThermo ==
  /\ in_temp = 0 /\ in_setpnt = 0 /\ actual_temp = 0 /\ actual_setpnt = 0
  /\ calm = FALSE
NoValue == wanted = 0 /\ taken = FALSE

MCInit ==
  \/ Init /\ NoLight /\ NoThermo /\ NoValue
  \/ Light!Init /\ NoDoor /\ NoThermo /\ NoValue
  \/ Thermo!Init /\ NoDoor /\ NoLight /\ NoValue
  \/ Analog!Init /\ NoDoor /\ NoLight /\ NoThermo

MCNext ==
  \/ TYP_s \in Typicals /\ Next /\ UNCHANGED <<lightVars, thermoVars, valueVars>>
  \/ TYP_s \in Light!Typicals /\ Light!Next /\ UNCHANGED <<doorVars, thermoVars, valueVars>>
  \/ TYP_s = "T31" /\ Thermo!Next /\ UNCHANGED <<doorVars, lightVars, valueVars>>
  \/ TYP_s \in Analog!Typicals /\ Analog!Next /\ UNCHANGED <<doorVars, lightVars, thermoVars>>

\* The phases of the sketch come round for ever: logic, which sets due, and
\* timer, which clears it, take turns.
MCSpec == MCInit /\ [][MCNext]_allVars /\ WF_due(due' = ~ due)
-----------------------------------------------------------------------------
(* The properties of each typical, and what they share.                    *)

NotEarly == Light!NotEarly
ManualHolds == Light!ManualHolds
PulseHonest == Light!PulseHonest
OffIsDark == Light!OffIsDark

NeverBoth == TYP_s = "T31" => Thermo!NeverBoth
Regulates == TYP_s = "T31" => Thermo!Regulates
Tracks == TYP_s \in Analog!Typicals => Analog!Tracks

\* With no command pending and no notification due, the subscribers know the
\* state of every typical that publishes all it does: not so the end of a
\* pulse (T14, T18), a good night while its timer runs (T16, T19), the stop of
\* a door (T21, which keeps its command), the fans of T31 and a failed sensor.
Quiet == IN_s = RstCmd /\ ~ trigger
Silent == {"T14", "T18", "T19", "T31"} \cup (IF OUT_s = Light!GoodNight THEN {"T16"} ELSE {})
          \cup (IF OUT_s = Analog!NaN THEN Analog!Typicals ELSE {})
OutputsKnown == Quiet /\ TYP_s \notin Silent => sent = OUT_s

\* The users and the sensors being done, whatever ends by itself has ended:
\* a motor, a timed light, a pulse, a good night, a ramp.
ComesToRest == <>[](IF TYP_s \in Typicals THEN OUT_s \notin Coils ELSE ~ Light!Ongoing)
=============================================================================
