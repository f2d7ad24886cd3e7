-------------------------------- MODULE T3n --------------------------------
(***************************************************************************)
(* T31, the thermostat (base/T3n.cpp): heating, cooling and three fans.    *)
(*                                                                         *)
(* Temperatures are in quarters of a degree, which a half-precision float  *)
(* holds exactly at room temperature: the hysteresis is one quarter, and a *)
(* difference above the dead bands of 0.1 degrees is any difference.       *)
(* OUT_s is the control byte; the measure and the setpoint have two more   *)
(* slots each, as input and as output.                                     *)
(***************************************************************************)
EXTENDS Slot

VARIABLES
  in_temp, in_setpnt,          \* the inputs
  actual_temp, actual_setpnt,  \* the outputs
  calm                         \* history: the last round found no command

thermoVars == <<in_temp, in_setpnt, actual_temp, actual_setpnt, calm>>

\* Typicals.h: the commands and the bits of the control byte.
InSetPoint == 1
OutSetPoint == 2
AsMeasured == 3
Cooling == 4
Heating == 5
FanOff == 6
FanLow == 7
FanMed == 8
FanHigh == 9
FanAuto == 10
FanManual == 11
SetTemp == 12
ShutDown == 13

SystemOn == 1
HeatingOn == 2
CoolingOn == 4
Fan(n) == <<8, 16, 32>>[n]
Fans == {Fan(1), Fan(2), Fan(3)}
FanAutoState == 64
CoolingMode == 128
AllBits == {SystemOn, HeatingOn, CoolingOn, FanAutoState, CoolingMode} \cup Fans

BitsOf(out) == {b \in AllBits : (out \div b) % 2 = 1}
ByteOf(bits) ==
  LET v(b) == IF b \in bits THEN b ELSE 0
  IN  v(SystemOn) + v(HeatingOn) + v(CoolingOn) + v(Fan(1)) + v(Fan(2)) + v(Fan(3))
      + v(FanAutoState) + v(CoolingMode)

Degree == 4
Hysteresis == 1
ThMed == 4     \* 1.2 degrees: 1.25 is above it
ThHigh == 12
-----------------------------------------------------------------------------
(* One call of the logic, on the bits of the control byte.                 *)

\* Mutant: cooling does not take over from heating.
Control_NoExclusion(b, temp, setp) ==
  IF SystemOn \notin b THEN b
  ELSE IF CoolingMode \notin b
       THEN IF temp < setp - Hysteresis THEN b \cup {HeatingOn}
            ELSE IF temp > setp + Hysteresis THEN b \ {HeatingOn} ELSE b
       ELSE IF temp > setp + Hysteresis THEN b \cup {CoolingOn}
            ELSE IF temp < setp - Hysteresis THEN b \ {CoolingOn} ELSE b

\* Mutant: the band is on one side only.
Control_OneSided(b, temp, setp) ==
  LET heats == CoolingMode \notin b
      mine == IF heats THEN HeatingOn ELSE CoolingOn
      other == IF heats THEN CoolingOn ELSE HeatingOn
      needed == IF heats THEN temp < setp - Hysteresis ELSE temp > setp
      enough == IF heats THEN temp > setp + Degree ELSE temp < setp - Hysteresis
  IN  IF SystemOn \notin b THEN b
      ELSE (IF needed THEN b \cup {mine} ELSE IF enough THEN b \ {mine} ELSE b) \ {other}

\* The mode decides which of heating and cooling may be on; the band around
\* the setpoint decides whether it is.
Control(b, temp, setp) ==
  LET heats == CoolingMode \notin b
      mine == IF heats THEN HeatingOn ELSE CoolingOn
      other == IF heats THEN CoolingOn ELSE HeatingOn
      needed == IF heats THEN temp < setp - Hysteresis ELSE temp > setp + Hysteresis
      enough == IF heats THEN temp > setp + Hysteresis ELSE temp < setp - Hysteresis
  IN  IF SystemOn \notin b THEN b
      ELSE (IF needed THEN b \cup {mine} ELSE IF enough THEN b \ {mine} ELSE b) \ {other}

\* In automatic mode the fans follow the deviation.
FanControl(b, temp, setp) ==
  LET deviation == IF HeatingOn \in b THEN setp - temp
                   ELSE IF CoolingOn \in b THEN temp - setp ELSE 0
  IN  IF FanAutoState \notin b THEN b
      ELSE IF {HeatingOn, CoolingOn} \cap b = {} THEN b \ Fans
      ELSE IF deviation > ThHigh THEN b \cup Fans
      ELSE IF deviation > ThMed THEN (b \cup {Fan(1), Fan(2)}) \ {Fan(3)}
      ELSE IF deviation > Hysteresis THEN (b \cup {Fan(1)}) \ {Fan(2), Fan(3)}
      ELSE b

\* What a command makes of the bits, ...
CommandBits(c, b) ==
  {SystemOn} \cup
  CASE c = Cooling -> b \cup {CoolingMode}
    [] c = Heating -> b \ {CoolingMode}
    [] c = FanAuto -> b \cup {FanAutoState}
    [] c = FanManual -> b \ {FanAutoState}
    [] c = FanOff -> b \ Fans
    [] c = FanLow -> (b \cup {Fan(1)}) \ {Fan(2), Fan(3)}
    [] c = FanMed -> (b \cup {Fan(1), Fan(2)}) \ {Fan(3)}
    [] c = FanHigh -> b \cup Fans
    [] OTHER -> b

\* ... and of the setpoint.
CommandSetpoint(c, temp, setp) ==
  CASE c = InSetPoint -> setp + Degree
    [] c = OutSetPoint -> setp - Degree
    [] c = AsMeasured -> ((temp + Degree \div 2) \div Degree) * Degree
    [] OTHER -> setp

Valid(v) == v > Degree

\* Souliss_Logic_T31.  A setpoint in the inputs stays there: a round later it
\* takes back the step a button has made.  SetTemp and ShutDown return before
\* the measure is stored, and raise no trigger of their own.
Souliss_Logic_T31 ==
  LET setp == IF Valid(in_setpnt) THEN in_setpnt ELSE actual_setpnt
      temp == IF Valid(in_temp) THEN in_temp ELSE actual_temp
      b == BitsOf(OUT_s)
      c == Control(b, temp, setp)
      f == FanControl(c, temp, setp)
      shutDown == f \ ({SystemOn, HeatingOn, CoolingOn} \cup Fans)
      changed == c # b
  IN  CASE IN_s = SetTemp ->
             /\ SlotLogic(Slot(RstCmd, ByteOf(f), AUXIN_s, changed))
             /\ actual_setpnt' = in_setpnt
             /\ actual_temp' = actual_temp
        [] IN_s = ShutDown ->
             /\ SlotLogic(Slot(RstCmd, ByteOf(shutDown), AUXIN_s, changed))
             /\ UNCHANGED <<actual_setpnt, actual_temp>>
        [] IN_s = RstCmd ->
             /\ SlotLogic(Slot(RstCmd, ByteOf(f), AUXIN_s, changed))
             /\ actual_setpnt' = setp
             /\ actual_temp' = temp
        [] OTHER ->
             /\ SlotLogic(Slot(RstCmd, ByteOf(CommandBits(IN_s, f)), AUXIN_s, TRUE))
             /\ actual_setpnt' = CommandSetpoint(IN_s, temp, setp)
             /\ actual_temp' = temp
-----------------------------------------------------------------------------
(* The sketch and the room.  Bounds: what the sensor measures (18 to 25    *)
(* degrees) and what the users ask for (20 or 21).                         *)
Temps == {72, 79, 82, 100}
Setpoints == {80, 84}

Init ==
  /\ SlotInit("T31", 0)
  /\ in_temp = 0 /\ in_setpnt = 0
  /\ actual_temp = 0 /\ actual_setpnt = 0
  /\ calm = FALSE

Logic ==
  /\ TYP_s = "T31"
  /\ Souliss_Logic_T31
  /\ calm' = (IN_s = RstCmd)
  /\ UNCHANGED <<in_temp, in_setpnt>>

\* The sketch measures in a slower phase (AnalogIn).
Measure ==
  /\ TYP_s = "T31"
  /\ in_temp' \in Temps
  /\ SlotTimer(Slot(IN_s, OUT_s, AUXIN_s, FALSE))
  /\ UNCHANGED <<in_setpnt, actual_temp, actual_setpnt, calm>>

\* A command of the user; the setpoint comes with SetTemp or on its own.
User ==
  /\ TYP_s = "T31"
  /\ \E c \in 0 .. ShutDown : Command(c)
  /\ in_setpnt' \in IF IN_s' \in {RstCmd, SetTemp} THEN Setpoints ELSE {in_setpnt}
  /\ UNCHANGED <<in_temp, actual_temp, actual_setpnt, calm>>

Publish == Communicate /\ UNCHANGED thermoVars

Next == Logic \/ Measure \/ User \/ Publish

Spec == Init /\ [][Next]_<<slotVars, thermoVars>>
-----------------------------------------------------------------------------
(* Properties.                                                             *)

\* Heating and cooling are never driven together, whatever the modes, the
\* setpoints and the measures do between two rounds, and nothing is driven
\* while the system is off.
NeverBoth ==
  LET b == BitsOf(OUT_s) IN
  /\ ~ {HeatingOn, CoolingOn} \subseteq b
  /\ SystemOn \notin b => b \cap ({HeatingOn, CoolingOn} \cup Fans) = {}

\* After a round without a command the coils agree with the measure and the
\* setpoint that are published with them: nothing is heated above the band
\* or left cold below it, and automatic fans serve what is on.
Regulates ==
  LET b == BitsOf(OUT_s)
      heats == CoolingMode \notin b
      cold == actual_temp < actual_setpnt - Hysteresis
      warm == actual_temp > actual_setpnt + Hysteresis
      far == actual_temp - actual_setpnt \notin -ThHigh .. ThHigh
  IN  calm /\ SystemOn \in b =>
        /\ HeatingOn \in b => heats /\ ~ warm
        /\ CoolingOn \in b => ~ heats /\ ~ cold
        /\ heats /\ cold => HeatingOn \in b
        /\ ~ heats /\ warm => CoolingOn \in b
        /\ FanAutoState \in b => IF {HeatingOn, CoolingOn} \cap b = {}
                                 THEN Fans \cap b = {}
                                 ELSE far => Fans \subseteq b
=============================================================================
