---------------------------- MODULE TypicalsProofs ----------------------------
(* Proofs for the typicals in a slot, beside the doors of T2nProofs: the   *)
(* thermostat, the analog values and the lights.                           *)
EXTENDS MCTypicals, TLAPS

-----------------------------------------------------------------------------
(* T31: the control byte and its bits.                                     *)

Bit == Thermo!AllBits

LEMMA BitValues ==
  /\ Thermo!SystemOn = 1 /\ Thermo!HeatingOn = 2 /\ Thermo!CoolingOn = 4
  /\ Thermo!Fan(1) = 8 /\ Thermo!Fan(2) = 16 /\ Thermo!Fan(3) = 32
  /\ Thermo!FanAutoState = 64 /\ Thermo!CoolingMode = 128
  /\ Thermo!Fans = {8, 16, 32}
  /\ Bit = {1, 2, 4, 8, 16, 32, 64, 128}
  BY DEF Bit, Thermo!AllBits, Thermo!SystemOn, Thermo!HeatingOn, Thermo!CoolingOn, Thermo!Fan,
         Thermo!FanAutoState, Thermo!CoolingMode, Thermo!Fans

\* The byte made of some bits has these bits.
LEMMA BitsOfByte ==
  ASSUME NEW bits \in SUBSET Bit
  PROVE  Thermo!BitsOf(Thermo!ByteOf(bits)) = bits
<1>. DEFINE v(b) == IF b \in bits THEN b ELSE 0
            n == Thermo!ByteOf(bits)
<1>1. n = v(1) + v(2) + v(4) + v(8) + v(16) + v(32) + v(64) + v(128)
  BY BitValues DEF Thermo!ByteOf
<1>2. \A b \in Bit : (n \div b) % 2 = 1 <=> v(b) = b
  <2>1. /\ v(1) \in {0, 1} /\ v(2) \in {0, 2} /\ v(4) \in {0, 4} /\ v(8) \in {0, 8}
        /\ v(16) \in {0, 16} /\ v(32) \in {0, 32} /\ v(64) \in {0, 64} /\ v(128) \in {0, 128}
    OBVIOUS
  <2>. HIDE DEF n, v
  <2>2. SUFFICES ASSUME NEW b \in Bit PROVE (n \div b) % 2 = 1 <=> v(b) = b
    OBVIOUS
  <2>3. CASE b = 1
    <3>1. (n \div 1) % 2 = 1 <=> v(1) = 1
      BY <1>1, <2>1
    <3>. QED  BY <2>3, <3>1
  <2>4. CASE b = 2
    <3>1. (n \div 2) % 2 = 1 <=> v(2) = 2
      BY <1>1, <2>1
    <3>. QED  BY <2>4, <3>1
  <2>5. CASE b = 4
    <3>1. (n \div 4) % 2 = 1 <=> v(4) = 4
      BY <1>1, <2>1
    <3>. QED  BY <2>5, <3>1
  <2>6. CASE b = 8
    <3>1. (n \div 8) % 2 = 1 <=> v(8) = 8
      BY <1>1, <2>1
    <3>. QED  BY <2>6, <3>1
  <2>7. CASE b = 16
    <3>1. (n \div 16) % 2 = 1 <=> v(16) = 16
      BY <1>1, <2>1
    <3>. QED  BY <2>7, <3>1
  <2>8. CASE b = 32
    <3>1. (n \div 32) % 2 = 1 <=> v(32) = 32
      BY <1>1, <2>1
    <3>. QED  BY <2>8, <3>1
  <2>9. CASE b = 64
    <3>1. (n \div 64) % 2 = 1 <=> v(64) = 64
      BY <1>1, <2>1
    <3>. QED  BY <2>9, <3>1
  <2>10. CASE b = 128
    <3>1. (n \div 128) % 2 = 1 <=> v(128) = 128
      BY <1>1, <2>1
    <3>. QED  BY <2>10, <3>1
  <2>. QED  BY BitValues, <2>3, <2>4, <2>5, <2>6, <2>7, <2>8, <2>9, <2>10
<1>3. \A b \in Bit : v(b) = b <=> b \in bits
  BY BitValues
<1>4. Thermo!BitsOf(n) = {b \in Bit : (n \div b) % 2 = 1}
  BY DEF Thermo!BitsOf, Bit
<1>. HIDE DEF n, v
<1>5. Thermo!BitsOf(n) = bits
  BY <1>2, <1>3, <1>4
<1>. QED  BY <1>5 DEF n

\* What NeverBoth says of the bits.
Sound(b) ==
  /\ b \subseteq Bit
  /\ ~ (2 \in b /\ 4 \in b)
  /\ 1 \notin b => 2 \notin b /\ 4 \notin b /\ 8 \notin b /\ 16 \notin b /\ 32 \notin b

\* What Regulates says of the bits, the measure and the setpoint.
Regular(b, temp, setp) ==
  1 \in b =>
    /\ 2 \in b => 128 \notin b /\ ~ (temp > setp + 1)
    /\ 4 \in b => 128 \in b /\ ~ (temp < setp - 1)
    /\ 128 \notin b /\ temp < setp - 1 => 2 \in b
    /\ 128 \in b /\ temp > setp + 1 => 4 \in b
    /\ 64 \in b => IF 2 \notin b /\ 4 \notin b THEN 8 \notin b /\ 16 \notin b /\ 32 \notin b
                   ELSE (temp - setp < -12 \/ temp - setp > 12) =>
                          8 \in b /\ 16 \in b /\ 32 \in b

LEMMA ControlSound ==
  ASSUME NEW b, Sound(b), NEW temp, NEW setp
  PROVE  Sound(Thermo!Control(b, temp, setp))
  BY BitValues DEF Sound, Thermo!Control

LEMMA FanSound ==
  ASSUME NEW b, Sound(b), NEW temp, NEW setp
  PROVE  Sound(Thermo!FanControl(b, temp, setp))
<1>. DEFINE f == Thermo!FanControl(b, temp, setp)
<1>1. \/ f = b
      \/ 2 \notin b /\ 4 \notin b /\ f = b \ {8, 16, 32}
      \/ /\ 2 \in b \/ 4 \in b
         /\ \/ f = b \cup {8, 16, 32}
            \/ f = (b \cup {8, 16}) \ {32}
            \/ f = (b \cup {8}) \ {16, 32}
  <2>1. {2, 4} \cap b = {} <=> 2 \notin b /\ 4 \notin b
    OBVIOUS
  <2>. QED  BY <2>1, BitValues DEF Thermo!FanControl
<1>. HIDE DEF f
<1>2. \A x : x \in f => x \in b \/ x = 8 \/ x = 16 \/ x = 32
  BY <1>1
<1>3. \A x : x \in Bit <=> x = 1 \/ x = 2 \/ x = 4 \/ x = 8 \/ x = 16 \/ x = 32 \/ x = 64 \/ x = 128
  BY BitValues
<1>4. f \subseteq Bit
  BY <1>2, <1>3 DEF Sound
<1>5. (1 \in f <=> 1 \in b) /\ (2 \in f <=> 2 \in b) /\ (4 \in f <=> 4 \in b)
  <2>1. 1 \in f <=> 1 \in b
    BY <1>1
  <2>2. 2 \in f <=> 2 \in b
    BY <1>1
  <2>3. 4 \in f <=> 4 \in b
    BY <1>1
  <2>. QED  BY <2>1, <2>2, <2>3
<1>6. 1 \notin f => 8 \notin f /\ 16 \notin f /\ 32 \notin f
  <2>1. 1 \notin b => 2 \notin b /\ 4 \notin b /\ 8 \notin b /\ 16 \notin b /\ 32 \notin b
    BY DEF Sound
  <2>2. 2 \notin b /\ 4 \notin b => f \subseteq b
    BY <1>1
  <2>. QED  BY <1>5, <2>1, <2>2
<1>7. Sound(f)
  BY <1>4, <1>5, <1>6 DEF Sound
<1>. QED  BY <1>7 DEF f

LEMMA CommandSound ==
  ASSUME NEW b, Sound(b), NEW c
  PROVE  Sound(Thermo!CommandBits(c, b))
<1>. DEFINE r == Thermo!CommandBits(c, b)
<1>1. \/ r = {1} \cup (b \cup {128})
      \/ r = {1} \cup (b \ {128})
      \/ r = {1} \cup (b \cup {64})
      \/ r = {1} \cup (b \ {64})
      \/ r = {1} \cup (b \ {8, 16, 32})
      \/ r = {1} \cup ((b \cup {8}) \ {16, 32})
      \/ r = {1} \cup ((b \cup {8, 16}) \ {32})
      \/ r = {1} \cup (b \cup {8, 16, 32})
      \/ r = {1} \cup b
  BY BitValues DEF Thermo!CommandBits
<1>. HIDE DEF r
<1>2. \A x : x \in r => x \in b \/ x = 1 \/ x = 8 \/ x = 16 \/ x = 32 \/ x = 64 \/ x = 128
  BY <1>1
<1>3. \A x : x \in Bit <=> x = 1 \/ x = 2 \/ x = 4 \/ x = 8 \/ x = 16 \/ x = 32 \/ x = 64 \/ x = 128
  BY BitValues
<1>4. r \subseteq Bit
  BY <1>2, <1>3 DEF Sound
<1>5. 1 \in r /\ (2 \in r <=> 2 \in b) /\ (4 \in r <=> 4 \in b)
  BY <1>1
<1>6. Sound(r)
  BY <1>4, <1>5 DEF Sound
<1>. QED  BY <1>6 DEF r

LEMMA RoundRegular ==
  ASSUME NEW b, Sound(b), NEW temp \in Int, NEW setp \in Int
  PROVE  Regular(Thermo!FanControl(Thermo!Control(b, temp, setp), temp, setp), temp, setp)
<1>. DEFINE c == Thermo!Control(b, temp, setp)
            f == Thermo!FanControl(c, temp, setp)
<1>1. Sound(c)
  BY ControlSound
<1>2. 1 \in c =>
        /\ 2 \in c => 128 \notin c /\ ~ (temp > setp + 1)
        /\ 4 \in c => 128 \in c /\ ~ (temp < setp - 1)
        /\ 128 \notin c /\ temp < setp - 1 => 2 \in c
        /\ 128 \in c /\ temp > setp + 1 => 4 \in c
  BY BitValues DEF Sound, Thermo!Control, Thermo!Hysteresis
<1>. HIDE DEF c
<1>3. \A x \in {1, 2, 4, 64, 128} : x \in f <=> x \in c
  BY BitValues DEF Thermo!FanControl
<1>4. 64 \in c =>
        IF 2 \notin c /\ 4 \notin c THEN 8 \notin f /\ 16 \notin f /\ 32 \notin f
        ELSE (IF 2 \in c THEN setp - temp ELSE temp - setp) > 12 =>
               8 \in f /\ 16 \in f /\ 32 \in f
  BY BitValues DEF Thermo!FanControl, Thermo!ThHigh
<1>. HIDE DEF f
<1>5. Regular(f, temp, setp)
  BY <1>1, <1>2, <1>3, <1>4 DEF Regular, Sound
<1>. QED  BY <1>5 DEF c, f
-----------------------------------------------------------------------------
(* Who takes a step.                                                       *)

\* A step is one of the typical that is in the slot, which stays the same.
LEMMA Families ==
  ASSUME [MCNext]_allVars
  PROVE  /\ TYP_s' = TYP_s
         /\ TYP_s = "T31" =>
              Thermo!Next \/ UNCHANGED <<slotVars, thermoVars>>
         /\ TYP_s \in Analog!Typicals =>
              Analog!Next \/ UNCHANGED <<slotVars, valueVars>>
         /\ TYP_s \in Light!Typicals =>
              Light!Next \/ UNCHANGED <<slotVars, lightVars>>
         /\ TYP_s \in Typicals => [Next]_vars
<1>1. TYP_s' = TYP_s
  <2>1. CASE Next
    BY <2>1 DEF Next, Logic, Timer, User, Publish, Move, SlotLogic, SlotTimer, Command, Communicate
  <2>2. CASE Light!Next
    BY <2>2 DEF Light!Next, Light!Logic, Light!Sensor, Light!StepRelay, Light!Timer, Light!User,
                Light!ByHand, Light!Publish, Light!RunLogic, Light!SlotLogic, Light!SlotTimer,
                Light!Command, Light!Communicate
  <2>3. CASE Thermo!Next
    BY <2>3 DEF Thermo!Next, Thermo!Logic, Thermo!Measure, Thermo!User, Thermo!Publish,
                Thermo!Souliss_Logic_T31, Thermo!SlotLogic, Thermo!SlotTimer, Thermo!Command,
                Thermo!Communicate
  <2>4. CASE Analog!Next
    BY <2>4 DEF Analog!Next, Analog!Logic, Analog!Measure, Analog!User, Analog!NoTimer,
                Analog!Publish, Analog!SlotLogic, Analog!SlotTimer, Analog!Command,
                Analog!Communicate
  <2>5. CASE UNCHANGED allVars
    BY <2>5 DEF allVars, slotVars
  <2>. QED  BY <2>1, <2>2, <2>3, <2>4, <2>5 DEF MCNext
<1>2. /\ "T31" \notin Typicals \cup Light!Typicals \cup Analog!Typicals
      /\ Typicals \cap Light!Typicals = {} /\ Typicals \cap Analog!Typicals = {}
      /\ Light!Typicals \cap Analog!Typicals = {}
  BY DEF Typicals, Light!Typicals, Analog!Typicals
<1>3. CASE UNCHANGED allVars
  BY <1>1, <1>3 DEF allVars, slotVars, doorVars, vars
<1>. QED  BY <1>1, <1>2, <1>3 DEF MCNext
-----------------------------------------------------------------------------
(* T31: the invariant of the thermostat.                                   *)

ThermoInv ==
  TYP_s = "T31" =>
    /\ in_temp \in Int /\ in_setpnt \in Int
    /\ actual_temp \in Int /\ actual_setpnt \in Int
    /\ Sound(Thermo!BitsOf(OUT_s))
    /\ calm => Regular(Thermo!BitsOf(OUT_s), actual_temp, actual_setpnt)

LEMMA ThermoInv_Init == MCInit => ThermoInv
<1>. SUFFICES ASSUME MCInit, TYP_s = "T31" PROVE ThermoInv
  BY DEF ThermoInv
<1>1. Thermo!Init
  BY DEF MCInit, Init, SlotInit, Typicals, Light!Init, Light!SlotInit, Light!Typicals,
         Analog!Init, Analog!Typicals
<1>2. OUT_s = 0 /\ ~ calm /\ in_temp = 0 /\ in_setpnt = 0 /\ actual_temp = 0 /\ actual_setpnt = 0
  BY <1>1 DEF Thermo!Init, Thermo!SlotInit
<1>3. Thermo!BitsOf(0) = {}
  <2>1. SUFFICES ASSUME NEW b \in Bit PROVE (0 \div b) % 2 # 1
    BY DEF Thermo!BitsOf, Bit
  <2>. QED  BY BitValues
<1>. QED  BY <1>2, <1>3 DEF ThermoInv, Sound

\* A round of the logic.
LEMMA ThermoInv_Logic ==
  ASSUME ThermoInv, TYP_s = "T31", Thermo!Logic
  PROVE  ThermoInv'
<1>. DEFINE setp == IF Thermo!Valid(in_setpnt) THEN in_setpnt ELSE actual_setpnt
            temp == IF Thermo!Valid(in_temp) THEN in_temp ELSE actual_temp
            b == Thermo!BitsOf(OUT_s)
            f == Thermo!FanControl(Thermo!Control(b, temp, setp), temp, setp)
            down == f \ ({1, 2, 4} \cup {8, 16, 32})
<1>1. setp \in Int /\ temp \in Int
  BY DEF ThermoInv
<1>2. Sound(f) /\ Regular(f, temp, setp)
  BY <1>1, ControlSound, FanSound, RoundRegular DEF ThermoInv
<1>3. Sound(down)
  BY <1>2 DEF Sound
<1>4. /\ calm' = (IN_s = 0) /\ in_temp' = in_temp /\ in_setpnt' = in_setpnt
      /\ \/ IN_s # 0 /\ OUT_s' = Thermo!ByteOf(f) /\ actual_setpnt' = in_setpnt
            /\ actual_temp' = actual_temp
         \/ IN_s # 0 /\ OUT_s' = Thermo!ByteOf(down) /\ actual_setpnt' = actual_setpnt
            /\ actual_temp' = actual_temp
         \/ OUT_s' = Thermo!ByteOf(f) /\ actual_setpnt' = setp /\ actual_temp' = temp
         \/ IN_s # 0 /\ OUT_s' = Thermo!ByteOf(Thermo!CommandBits(IN_s, f))
            /\ actual_setpnt' = Thermo!CommandSetpoint(IN_s, temp, setp) /\ actual_temp' = temp
  BY BitValues DEF Thermo!Logic, Thermo!Souliss_Logic_T31, Thermo!SlotLogic, Thermo!Slot,
        Thermo!SetTemp, Thermo!ShutDown, Thermo!RstCmd
<1>. HIDE DEF setp, temp, f, down
<1>5. Thermo!CommandSetpoint(IN_s, temp, setp) \in Int
  BY <1>1 DEF Thermo!CommandSetpoint, Thermo!Degree
<1>6. in_temp' \in Int /\ in_setpnt' \in Int /\ actual_temp' \in Int /\ actual_setpnt' \in Int
  BY <1>1, <1>4, <1>5 DEF ThermoInv
<1>7. \A d : Sound(d) => Thermo!BitsOf(Thermo!ByteOf(d)) = d
  BY BitsOfByte DEF Sound
<1>8. Sound(Thermo!CommandBits(IN_s, f))
  BY <1>2, CommandSound
<1>9. Sound(Thermo!BitsOf(OUT_s'))
  BY <1>2, <1>3, <1>4, <1>7, <1>8
<1>10. calm' => Regular(Thermo!BitsOf(OUT_s'), actual_temp', actual_setpnt')
  BY <1>2, <1>4, <1>7
<1>. QED  BY <1>6, <1>9, <1>10 DEF ThermoInv, Thermo!BitsOf

LEMMA ThermoInv_Next == ThermoInv /\ [MCNext]_allVars => ThermoInv'
<1>. SUFFICES ASSUME ThermoInv, [MCNext]_allVars, TYP_s' = "T31" PROVE ThermoInv'
  BY DEF ThermoInv
<1>1. TYP_s = "T31" /\ (Thermo!Next \/ UNCHANGED <<slotVars, thermoVars>>)
  BY Families
<1>2. CASE Thermo!Logic
  BY <1>1, <1>2, ThermoInv_Logic
<1>3. CASE Thermo!Measure
  <2>1. \A v \in Thermo!Temps : v \in Int
    BY DEF Thermo!Temps
  <2>. QED  BY <1>1, <1>3, <2>1 DEF ThermoInv, Thermo!Measure, Thermo!SlotTimer, Thermo!Slot, Thermo!BitsOf
<1>4. CASE Thermo!User
  <2>1. /\ OUT_s' = OUT_s /\ in_temp' = in_temp /\ calm' = calm
        /\ actual_temp' = actual_temp /\ actual_setpnt' = actual_setpnt
        /\ in_setpnt' \in Thermo!Setpoints \cup {in_setpnt}
    BY <1>4 DEF Thermo!User, Thermo!Command
  <2>2. in_setpnt' \in Int
    BY <1>1, <2>1 DEF ThermoInv, Thermo!Setpoints
  <2>. QED  BY <1>1, <2>1, <2>2 DEF ThermoInv, Thermo!BitsOf
<1>5. CASE Thermo!Publish \/ UNCHANGED <<slotVars, thermoVars>>
  BY <1>1, <1>5 DEF ThermoInv, Thermo!Publish, Thermo!Communicate, Thermo!thermoVars, thermoVars,
                    slotVars, Thermo!BitsOf
<1>. QED  BY <1>1, <1>2, <1>3, <1>4, <1>5 DEF Thermo!Next

LEMMA ThermoInv_Always == MCSpec => []ThermoInv
  BY ThermoInv_Init, ThermoInv_Next, PTL DEF MCSpec

\* Heating and cooling are never driven together, and nothing is driven while
\* the system is off: for any sequence of commands and measures.
THEOREM NeverBothHolds == MCSpec => []NeverBoth
<1>1. ThermoInv => NeverBoth
  BY BitValues DEF ThermoInv, Sound, NeverBoth, Thermo!NeverBoth
<1>. QED  BY <1>1, ThermoInv_Always, PTL

\* After a round without a command the coils and the fans agree with the
\* measure and the setpoint that are published with them.
THEOREM RegulatesHolds == MCSpec => []Regulates
<1>1. ThermoInv => Regulates
  <2>. SUFFICES ASSUME ThermoInv, TYP_s = "T31" PROVE Thermo!Regulates
    BY DEF Regulates
  <2>. DEFINE b == Thermo!BitsOf(OUT_s)
  <2>1. actual_temp \in Int /\ actual_setpnt \in Int /\ (calm => Regular(b, actual_temp, actual_setpnt))
    BY DEF ThermoInv
  <2>2. actual_temp - actual_setpnt \notin -12 .. 12 <=>
          (actual_temp - actual_setpnt < -12 \/ actual_temp - actual_setpnt > 12)
    BY <2>1
  <2>3. /\ {2, 4} \cap b = {} <=> 2 \notin b /\ 4 \notin b
        /\ Thermo!Fans \cap b = {} <=> 8 \notin b /\ 16 \notin b /\ 32 \notin b
        /\ Thermo!Fans \subseteq b <=> 8 \in b /\ 16 \in b /\ 32 \in b
    BY BitValues
  <2>. HIDE DEF b
  <2>4. SUFFICES ASSUME calm, 1 \in b
                 PROVE  /\ 2 \in b => 128 \notin b /\ ~ (actual_temp > actual_setpnt + 1)
                        /\ 4 \in b => 128 \in b /\ ~ (actual_temp < actual_setpnt - 1)
                        /\ 128 \notin b /\ actual_temp < actual_setpnt - 1 => 2 \in b
                        /\ 128 \in b /\ actual_temp > actual_setpnt + 1 => 4 \in b
                        /\ 64 \in b => IF {2, 4} \cap b = {} THEN Thermo!Fans \cap b = {}
                                       ELSE actual_temp - actual_setpnt \notin -12 .. 12 =>
                                              Thermo!Fans \subseteq b
    BY BitValues DEF Thermo!Regulates, b, Thermo!Hysteresis, Thermo!ThHigh
  <2>. QED  BY <2>1, <2>2, <2>3, <2>4 DEF Regular
<1>. QED  BY <1>1, ThermoInv_Always, PTL
-----------------------------------------------------------------------------
(* T51 and T61: the invariant of the analog values.                        *)

\* What is pending in the inputs is the last value written, and the output is
\* that value, or near it, as soon as a logic has seen it; a number that is
\* stored is published.
AnalogInv ==
  TYP_s \in Analog!Typicals =>
    /\ wanted \in Analog!Values /\ OUT_s \in Analog!Values
    /\ IN_s = RstCmd \/ IN_s = wanted
    /\ ~ taken => IN_s = wanted
    /\ taken /\ wanted \notin {RstCmd, Analog!NaN} =>
         IF TYP_s = "T51" THEN Analog!Near(OUT_s, wanted) ELSE OUT_s = wanted
    /\ trigger \/ sent = OUT_s \/ OUT_s = Analog!NaN

LEMMA AnalogValues ==
  /\ Analog!NaN = 65024 /\ RstCmd = 0 /\ Analog!RstCmd = 0
  /\ \A v \in Analog!Values : v \in Int
  /\ {RstCmd, Analog!NaN} \subseteq Analog!Values
  /\ \A v \in Analog!Values \ {Analog!NaN} : Analog!Near(v, v)
  /\ \A v, w \in Analog!Values : Analog!Near(v, w) => Analog!Near(w, v)
  BY DEF Analog!NaN, RstCmd, Analog!RstCmd, Analog!Values, Analog!Near, Analog!Deadband

LEMMA AnalogInv_Init == MCInit => AnalogInv
<1>. SUFFICES ASSUME MCInit, TYP_s \in Analog!Typicals PROVE AnalogInv
  BY DEF AnalogInv
<1>1. Analog!Init
  BY DEF MCInit, Init, SlotInit, Typicals, Light!Init, Light!SlotInit, Light!Typicals,
         Thermo!Init, Thermo!SlotInit, Analog!Typicals
<1>2. IN_s = Analog!NaN /\ OUT_s = Analog!NaN /\ wanted = Analog!NaN /\ ~ taken
  BY <1>1 DEF Analog!Init
<1>. QED  BY <1>2, AnalogValues DEF AnalogInv

LEMMA AnalogInv_Next == AnalogInv /\ [MCNext]_allVars => AnalogInv'
<1>. SUFFICES ASSUME AnalogInv, [MCNext]_allVars, TYP_s' \in Analog!Typicals PROVE AnalogInv'
  BY DEF AnalogInv
<1>1. /\ TYP_s' = TYP_s /\ TYP_s \in Analog!Typicals
      /\ Analog!Next \/ UNCHANGED <<slotVars, valueVars>>
  BY Families
<1>a. /\ wanted \in Analog!Values /\ OUT_s \in Analog!Values
      /\ IN_s = RstCmd \/ IN_s = wanted
      /\ ~ taken => IN_s = wanted
      /\ taken /\ wanted \notin {RstCmd, Analog!NaN} =>
           IF TYP_s = "T51" THEN Analog!Near(OUT_s, wanted) ELSE OUT_s = wanted
      /\ trigger \/ sent = OUT_s \/ OUT_s = Analog!NaN
  BY <1>1 DEF AnalogInv
<1>2. CASE Analog!Logic
  <2>1. /\ taken' = TRUE /\ wanted' = wanted /\ sent' = sent
        /\ \/ IN_s = RstCmd /\ IN_s' = IN_s /\ OUT_s' = OUT_s /\ (trigger => trigger')
           \/ IN_s = Analog!NaN /\ IN_s' = IN_s /\ OUT_s' = Analog!NaN /\ (trigger => trigger')
           \/ /\ IN_s \notin {RstCmd, Analog!NaN} /\ IN_s' = RstCmd /\ OUT_s' = IN_s
              /\ trigger'
           \/ /\ IN_s \notin {RstCmd, Analog!NaN} /\ ~ Analog!Changed(IN_s)
              /\ IN_s' = IN_s /\ OUT_s' = OUT_s /\ (trigger => trigger')
    <3>. DEFINE r == IF IN_s = Analog!RstCmd THEN Analog!Slot(IN_s, OUT_s, AUXIN_s, FALSE)
                     ELSE IF IN_s = Analog!NaN THEN Analog!Slot(IN_s, Analog!NaN, AUXIN_s, FALSE)
                     ELSE IF Analog!Changed(IN_s)
                          THEN Analog!Slot(Analog!RstCmd, IN_s, AUXIN_s, TRUE)
                     ELSE Analog!Slot(IN_s, OUT_s, AUXIN_s, FALSE)
    <3>1. Analog!SlotLogic(r) /\ taken' = TRUE /\ wanted' = wanted
      BY <1>2 DEF Analog!Logic
    <3>b. Analog!RstCmd = RstCmd
      BY AnalogValues
    <3>3. CASE IN_s = RstCmd
      <4>1. r.in = IN_s /\ r.out = OUT_s
        BY <3>3, <3>b DEF Analog!Slot
      <4>. HIDE DEF r
      <4>. QED  BY <3>1, <3>3, <4>1 DEF Analog!SlotLogic
    <3>4. CASE IN_s # RstCmd /\ IN_s = Analog!NaN
      <4>1. r.in = IN_s /\ r.out = Analog!NaN
        BY <3>4, <3>b DEF Analog!Slot
      <4>. HIDE DEF r
      <4>. QED  BY <3>1, <3>4, <4>1 DEF Analog!SlotLogic
    <3>5. CASE IN_s \notin {RstCmd, Analog!NaN} /\ Analog!Changed(IN_s)
      <4>1. r.in = RstCmd /\ r.out = IN_s /\ r.trig
        BY <3>5, <3>b DEF Analog!Slot
      <4>. HIDE DEF r
      <4>. QED  BY <3>1, <3>5, <4>1 DEF Analog!SlotLogic
    <3>6. CASE IN_s \notin {RstCmd, Analog!NaN} /\ ~ Analog!Changed(IN_s)
      <4>1. r.in = IN_s /\ r.out = OUT_s
        BY <3>6, <3>b DEF Analog!Slot
      <4>. HIDE DEF r
      <4>. QED  BY <3>1, <3>6, <4>1 DEF Analog!SlotLogic
    <3>. QED  BY <3>3, <3>4, <3>5, <3>6
  <2>2. IN_s # RstCmd => IN_s = wanted
    BY <1>a
  <2>3. wanted' \notin {RstCmd, Analog!NaN} =>
          IF TYP_s' = "T51" THEN Analog!Near(OUT_s', wanted') ELSE OUT_s' = wanted'
    <3>1. CASE IN_s = RstCmd \/ IN_s = Analog!NaN
      BY <1>1, <1>a, <2>1, <3>1, AnalogValues
    <3>2. CASE IN_s \notin {RstCmd, Analog!NaN} /\ OUT_s' = IN_s
      BY <1>1, <1>a, <2>1, <2>2, <3>2, AnalogValues
    <3>3. CASE IN_s \notin {RstCmd, Analog!NaN} /\ OUT_s' = OUT_s /\ ~ Analog!Changed(IN_s)
      <4>1. IF TYP_s = "T51" THEN Analog!Near(IN_s, OUT_s) ELSE IN_s = OUT_s
        BY <3>3 DEF Analog!Changed
      <4>. QED  BY <1>1, <1>a, <2>1, <2>2, <3>3, <4>1, AnalogValues
    <3>. QED  BY <2>1, <3>1, <3>2, <3>3
  <2>4. OUT_s' \in Analog!Values
    BY <1>a, <2>1, <2>2, AnalogValues
  <2>5. IN_s' = RstCmd \/ IN_s' = wanted'
    BY <1>a, <2>1
  <2>6. trigger' \/ sent' = OUT_s' \/ OUT_s' = Analog!NaN
    BY <1>a, <2>1
  <2>. QED  BY <1>a, <2>1, <2>3, <2>4, <2>5, <2>6 DEF AnalogInv, Analog!Near
<1>3. CASE Analog!Measure \/ Analog!User
  <2>1. /\ wanted' = IN_s' /\ taken' = FALSE /\ IN_s' \in Analog!Values
        /\ OUT_s' = OUT_s /\ sent' = sent /\ trigger' = trigger
    BY <1>3 DEF Analog!Measure, Analog!User, Analog!Written, Analog!SlotTimer, Analog!Slot,
                Analog!Command
  <2>. QED  BY <1>a, <2>1 DEF AnalogInv
<1>4. CASE Analog!NoTimer \/ UNCHANGED <<slotVars, valueVars>>
  <2>1. UNCHANGED <<TYP_s, IN_s, OUT_s, sent, trigger, wanted, taken>>
    BY <1>4 DEF Analog!NoTimer, Analog!SlotTimer, Analog!Slot, slotVars, valueVars, Analog!valueVars
  <2>. QED  BY <1>a, <2>1 DEF AnalogInv, Analog!Near
<1>5. CASE Analog!Publish
  <2>1. UNCHANGED <<TYP_s, IN_s, OUT_s, wanted, taken>> /\ sent' = OUT_s
    BY <1>5 DEF Analog!Publish, Analog!Communicate, Analog!valueVars
  <2>. QED  BY <1>a, <2>1 DEF AnalogInv, Analog!Near
<1>. QED  BY <1>1, <1>2, <1>3, <1>4, <1>5 DEF Analog!Next

LEMMA AnalogInv_Always == MCSpec => []AnalogInv
  BY AnalogInv_Init, AnalogInv_Next, PTL DEF MCSpec

\* What the subscribers have of a measure is within the dead band of the last
\* value that was taken, and of a setpoint it is that value.
THEOREM TracksHolds == MCSpec => []Tracks
<1>1. AnalogInv => Tracks
  <2>. SUFFICES ASSUME AnalogInv, TYP_s \in Analog!Typicals, taken, ~ trigger,
                       wanted \notin {RstCmd, Analog!NaN}
                PROVE  IF TYP_s = "T51" THEN Analog!Near(sent, wanted) ELSE sent = wanted
    BY AnalogValues DEF Tracks, Analog!Tracks
  <2>1. /\ IF TYP_s = "T51" THEN Analog!Near(OUT_s, wanted) ELSE OUT_s = wanted
        /\ sent = OUT_s \/ OUT_s = Analog!NaN
    BY DEF AnalogInv
  <2>2. OUT_s # Analog!NaN
    BY <2>1 DEF Analog!Near
  <2>. QED  BY <2>1, <2>2
<1>. QED  BY <1>1, AnalogInv_Always, PTL
-----------------------------------------------------------------------------
(* The lights: what one call of a logic makes of a slot.                   *)

LEMMA LightCodes ==
  /\ Light!RstCmd = 0 /\ Light!ToggleCmd = 1 /\ Light!OnCmd = 2 /\ Light!OffCmd = 4
  /\ Light!AutoCmd = 8 /\ Light!BrightUp = 16 /\ Light!BrightSwitch = 21 /\ Light!BrightDown = 32
  /\ Light!Flash = 33 /\ Light!Set = 34 /\ Light!OnFeedback = 35 /\ Light!OffFeedback = 36
  /\ Light!Timed = 48 /\ Light!PositionOnCmd = 49 /\ Light!Timed_StdVal = 64
  /\ Light!OffCoil = 0 /\ Light!OnCoil = 1 /\ Light!AutoState = 240 /\ Light!GoodNight = 241
  /\ Light!ResetCoil = 161 /\ Light!PulseCoil = 165 /\ Light!None = -1
  BY DEF Light!RstCmd, Light!ToggleCmd, Light!OnCmd, Light!OffCmd, Light!AutoCmd, Light!BrightUp,
         Light!BrightSwitch, Light!BrightDown, Light!Flash, Light!Set, Light!OnFeedback,
         Light!OffFeedback, Light!Timed, Light!PositionOnCmd, Light!Timed_StdVal, Light!OffCoil,
         Light!OnCoil, Light!AutoState, Light!GoodNight, Light!ResetCoil, Light!PulseCoil,
         Light!None

\* Done, and Published after it, on a slot with in and aux.
LEMMA DoneSlot ==
  ASSUME NEW in, NEW aux, NEW x, NEW d, d = Light!Done(Light!Whole(in, aux), x)
  PROVE  /\ DOMAIN d = {"in", "out", "aux", "trig", "inc", "outc", "auxc"}
         /\ d.in = 0 /\ d.out = x /\ d.aux = aux /\ (d.trig \/ x = OUT_s)
         /\ \A p : p = Light!Published(d) => p.in = 0 /\ p.out = x /\ p.aux = aux /\ p.trig
<1>. DEFINE w == Light!Whole(in, aux)
<1>1. /\ w.in = in /\ w.out = OUT_s /\ w.aux = aux /\ w.trig = FALSE
      /\ w = [in |-> in, out |-> OUT_s, aux |-> aux, trig |-> FALSE,
              inc |-> IN_c, outc |-> OUT_c, auxc |-> AUXIN_c]
  BY DEF Light!Whole
<1>2. d = [w EXCEPT !.in = 0, !.out = x, !.trig = @ \/ w.out # x]
  BY LightCodes DEF Light!Done, w
<1>. HIDE DEF w
<1>3. /\ DOMAIN d = {"in", "out", "aux", "trig", "inc", "outc", "auxc"}
      /\ d.in = 0 /\ d.out = x /\ d.aux = aux /\ (d.trig \/ x = OUT_s)
  BY <1>1, <1>2
<1>4. \A p : p = Light!Published(d) => p.in = 0 /\ p.out = x /\ p.aux = aux /\ p.trig
  BY <1>1, <1>2 DEF Light!Published
<1>. QED  BY <1>3, <1>4

\* T11 on a slot with in and aux.
LEMMA Logic_T11 ==
  ASSUME NEW in, NEW aux, NEW r, r = Light!Souliss_Logic_T11(Light!Whole(in, aux))
  PROVE  /\ r.trig \/ r.out = OUT_s
         /\ \/ in > 48 /\ r.in = 0 /\ r.out = 1 /\ r.aux = in
            \/ /\ ~ (in > 48) /\ (in = 4 \/ aux = 48)
               /\ r.in = 0 /\ r.out = 0 /\ r.aux = 0
            \/ /\ ~ (in > 48) /\ in = 2 /\ aux # 48
               /\ r.in = 0 /\ r.out = 1 /\ r.aux = aux
            \/ /\ ~ (in > 48) /\ in = 1 /\ aux # 48
               /\ r.in = 0 /\ r.out = (IF OUT_s = 1 THEN 0 ELSE 1) /\ r.aux = aux
            \/ /\ ~ (in > 48) /\ in \notin {1, 2, 4} /\ aux # 48
               /\ r.in = in /\ r.out = OUT_s /\ r.aux = aux
  BY LightCodes, ZenonT(30) DEF Light!Souliss_Logic_T11, Light!Whole, Light!Done, Light!Published

\* T12 on a slot with in and aux.
LEMMA Logic_T12 ==
  ASSUME NEW in, NEW aux, NEW r, r = Light!Souliss_Logic_T12(Light!Whole(in, aux)),
         OUT_s \in {0, 1, 240, 241}
  PROVE  /\ r.trig \/ r.out = OUT_s
         /\ r.aux = aux
         /\ \/ OUT_s \in {240, 241} /\ aux > 0 /\ r.in = in /\ r.out = 240
            \/ OUT_s \in {240, 241} /\ ~ (aux > 0) /\ in > 8 /\ r.in = in /\ r.out = 241
            \/ /\ ~ (OUT_s \in {240, 241} /\ aux > 0) /\ ~ (in > 8 /\ OUT_s \in {240, 241})
               /\ r.in = 0
               /\ \/ in = 4 /\ r.out = 0
                  \/ in = 2 /\ r.out = 1
                  \/ in = 1 /\ r.out = (IF OUT_s \in {1, 241} THEN 0 ELSE 1)
                  \/ in = 8 /\ r.out = 240
                  \/ in = 0 /\ OUT_s = 241 /\ r.out = 240
                  \/ in \notin {1, 2, 4, 8} /\ ~ (in = 0 /\ OUT_s = 241) /\ r.out = OUT_s
<1>. DEFINE w == Light!Whole(in, aux)
<1>1. /\ w.in = in /\ w.out = OUT_s /\ w.aux = aux /\ w.trig = FALSE
      /\ w = [in |-> in, out |-> OUT_s, aux |-> aux, trig |-> FALSE,
              inc |-> IN_c, outc |-> OUT_c, auxc |-> AUXIN_c]
  BY DEF Light!Whole
<1>2. /\ Light!IsAuto(OUT_s) <=> OUT_s \in {240, 241}
      /\ Light!Lit(OUT_s) <=> OUT_s \in {1, 241}
      /\ Light!FromSensor(w) <=> in > 8 /\ OUT_s \in {240, 241}
  BY <1>1, LightCodes DEF Light!IsAuto, Light!Lit, Light!FromSensor
<1>. HIDE DEF w
<1>3. CASE OUT_s \in {240, 241} /\ aux > 0
  <2>1. r.in = in /\ r.aux = aux /\ r.out = 240
    BY <1>2, <1>3, LightCodes DEF Light!Souliss_Logic_T12, Light!Whole
  <2>2. CASE OUT_s = 241
    <3>1. r = [w EXCEPT !.out = 240, !.trig = @ \/ w.out \in {1, 241}]
      BY <1>1, <1>2, <1>3, LightCodes DEF Light!Souliss_Logic_T12, Light!Lit, w
    <3>2. r.trig
      BY <1>1, <2>2, <3>1
    <3>. QED  BY <1>3, <2>1, <3>2
  <2>. QED  BY <1>3, <2>1, <2>2
<1>4. CASE ~ (OUT_s \in {240, 241} /\ aux > 0) /\ (in > 8 /\ OUT_s \in {240, 241})
  <2>1. r.in = in /\ r.aux = aux /\ r.out = 241
    BY <1>2, <1>4, LightCodes DEF Light!Souliss_Logic_T12, Light!Whole, Light!IsAuto, Light!FromSensor
  <2>2. CASE OUT_s = 240
    <3>. DEFINE dark == ~ Light!Lit(OUT_s)
    <3>1. dark = TRUE
      BY <2>2, LightCodes DEF Light!Lit
    <3>3. r = [w EXCEPT !.out = Light!AutoState + Light!OnCoil, !.trig = @ \/ dark]
      BY <1>1, <1>2, <1>4, LightCodes DEF Light!Souliss_Logic_T12, w
    <3>. HIDE DEF dark
    <3>2. r.trig
      BY <1>1, <3>1, <3>3
    <3>. QED  BY <1>4, <2>1, <3>2
  <2>. QED  BY <1>4, <2>1, <2>2
<1>5. CASE ~ (OUT_s \in {240, 241} /\ aux > 0) /\ ~ (in > 8 /\ OUT_s \in {240, 241})
  <2>1. r = IF in = 4 THEN Light!Done(w, 0)
            ELSE IF in = 2 THEN Light!Done(w, 1)
            ELSE IF in = 1 THEN Light!Published(Light!Done(w, IF OUT_s \in {1, 241} THEN 0 ELSE 1))
            ELSE IF in = 8 \/ (in = 0 /\ OUT_s = 241) THEN Light!Published(Light!Done(w, 240))
            ELSE [w EXCEPT !.in = 0]
    BY <1>1, <1>2, <1>5, LightCodes DEF Light!Souliss_Logic_T12, w
  <2>2. \A x : r = Light!Done(w, x) =>
          r.in = 0 /\ r.out = x /\ r.aux = aux /\ (r.trig \/ x = OUT_s)
    BY DoneSlot DEF w
  <2>3. \A x : r = Light!Published(Light!Done(w, x)) =>
          r.in = 0 /\ r.out = x /\ r.aux = aux /\ r.trig
    BY DoneSlot DEF w
  <2>4. CASE in = 4
    <3>1. r = Light!Done(w, 0)
      BY <2>1, <2>4
    <3>. QED  BY <1>5, <2>2, <2>4, <3>1
  <2>5. CASE in = 2
    <3>1. r = Light!Done(w, 1)
      BY <2>1, <2>5
    <3>. QED  BY <1>5, <2>2, <2>5, <3>1
  <2>6. CASE in = 1
    <3>1. r = Light!Published(Light!Done(w, IF OUT_s \in {1, 241} THEN 0 ELSE 1))
      BY <2>1, <2>6
    <3>. QED  BY <1>5, <2>3, <2>6, <3>1
  <2>7. CASE in = 8 \/ (in = 0 /\ OUT_s = 241)
    <3>1. r = Light!Published(Light!Done(w, 240))
      BY <2>1, <2>7
    <3>. QED  BY <1>5, <2>3, <2>7, <3>1
  <2>8. CASE in \notin {1, 2, 4, 8} /\ ~ (in = 0 /\ OUT_s = 241)
    <3>1. r = [w EXCEPT !.in = 0]
      BY <2>1, <2>8
    <3>2. r.in = 0 /\ r.out = OUT_s /\ r.aux = aux
      BY <1>1, <3>1
    <3>. QED  BY <1>5, <2>8, <3>2
  <2>. QED  BY <2>4, <2>5, <2>6, <2>7, <2>8
<1>. QED  BY <1>3, <1>4, <1>5

\* T1B on a slot with in and aux.
LEMMA Logic_T1B ==
  ASSUME NEW in, NEW aux, NEW r, r = Light!Souliss_Logic_T1B(Light!Whole(in, aux))
  PROVE  /\ r.trig \/ r.out = OUT_s
         /\ \/ in = 4 /\ r.in = 0 /\ r.out = 0 /\ r.aux = 0
            \/ in = 2 /\ r.in = 0 /\ r.out = 1 /\ r.aux = 0
            \/ in = 49 /\ r.in = 0 /\ r.out = 1 /\ r.aux = 63
            \/ /\ in \notin {2, 4, 49} /\ aux > 48
               /\ r.in = in /\ r.out = OUT_s /\ r.aux = aux - 1
            \/ /\ in \notin {2, 4, 49} /\ ~ (aux > 48) /\ aux # 0
               /\ r.in = 0 /\ r.out = 0 /\ r.aux = 0
            \/ /\ in \notin {2, 4, 49} /\ aux = 0
               /\ r.in = in /\ r.out = OUT_s /\ r.aux = aux
<1>. DEFINE w == Light!Whole(in, aux)
            c == IF in = 4 THEN [Light!Done(w, 0) EXCEPT !.aux = 0]
                 ELSE IF in = 2 THEN [Light!Done(w, 1) EXCEPT !.aux = 0]
                 ELSE IF in = 49 THEN [Light!Done(w, 1) EXCEPT !.aux = 64]
                 ELSE w
<1>1. /\ w.in = in /\ w.out = OUT_s /\ w.aux = aux /\ w.trig = FALSE
      /\ w = [in |-> in, out |-> OUT_s, aux |-> aux, trig |-> FALSE,
              inc |-> IN_c, outc |-> OUT_c, auxc |-> AUXIN_c]
  BY DEF Light!Whole
<1>2. r = IF c.aux > 48 THEN [c EXCEPT !.aux = @ - 1]
          ELSE IF c.aux # 0 THEN [Light!Done(c, 0) EXCEPT !.aux = 0]
          ELSE c
  BY <1>1, LightCodes DEF Light!Souliss_Logic_T1B, w
<1>. HIDE DEF c
<1>4. CASE in = 4
  <2>. DEFINE d == Light!Done(Light!Whole(in, aux), 0)
  <2>a. /\ DOMAIN d = {"in", "out", "aux", "trig", "inc", "outc", "auxc"}
        /\ d.in = 0 /\ d.out = 0 /\ d.aux = aux /\ (d.trig \/ 0 = OUT_s)
    BY DoneSlot
  <2>1. c = [d EXCEPT !.aux = 0]
    BY <1>4 DEF c
  <2>. HIDE DEF d
  <2>b. DOMAIN c = DOMAIN d /\ c.in = d.in /\ c.out = d.out /\ c.aux = 0 /\ c.trig = d.trig
    BY <2>a, <2>1
  <2>2. c.in = 0 /\ c.out = 0 /\ c.aux = 0 /\ (c.trig \/ 0 = OUT_s)
    BY <2>a, <2>b
  <2>. QED  BY <1>2, <1>4, <2>2
<1>5. CASE in = 2
  <2>. DEFINE d == Light!Done(Light!Whole(in, aux), 1)
  <2>a. /\ DOMAIN d = {"in", "out", "aux", "trig", "inc", "outc", "auxc"}
        /\ d.in = 0 /\ d.out = 1 /\ d.aux = aux /\ (d.trig \/ 1 = OUT_s)
    BY DoneSlot
  <2>1. c = [d EXCEPT !.aux = 0]
    BY <1>5 DEF c
  <2>. HIDE DEF d
  <2>b. DOMAIN c = DOMAIN d /\ c.in = d.in /\ c.out = d.out /\ c.aux = 0 /\ c.trig = d.trig
    BY <2>a, <2>1
  <2>2. c.in = 0 /\ c.out = 1 /\ c.aux = 0 /\ (c.trig \/ 1 = OUT_s)
    BY <2>a, <2>b
  <2>. QED  BY <1>2, <1>5, <2>2
<1>6. CASE in = 49
  <2>. DEFINE d == Light!Done(Light!Whole(in, aux), 1)
  <2>a. /\ DOMAIN d = {"in", "out", "aux", "trig", "inc", "outc", "auxc"}
        /\ d.in = 0 /\ d.out = 1 /\ d.aux = aux /\ (d.trig \/ 1 = OUT_s)
    BY DoneSlot
  <2>1. c = [d EXCEPT !.aux = 64]
    BY <1>6 DEF c
  <2>. HIDE DEF d
  <2>b. DOMAIN c = DOMAIN d /\ c.in = d.in /\ c.out = d.out /\ c.aux = 64 /\ c.trig = d.trig
    BY <2>a, <2>1
  <2>2. /\ DOMAIN c = {"in", "out", "aux", "trig", "inc", "outc", "auxc"}
        /\ c.in = 0 /\ c.out = 1 /\ c.aux = 64 /\ (c.trig \/ 1 = OUT_s)
    BY <2>a, <2>b
  <2>3. r = [c EXCEPT !.aux = 63]
    BY <1>2, <2>2
  <2>4. r.in = c.in /\ r.out = c.out /\ r.aux = 63 /\ r.trig = c.trig
    BY <2>2, <2>3
  <2>. QED  BY <1>6, <2>2, <2>4
<1>7. CASE in \notin {2, 4, 49}
  <2>1. c = w
    BY <1>7 DEF c
  <2>. HIDE DEF w
  <2>2. CASE aux > 48
    <3>1. r = [w EXCEPT !.aux = aux - 1]
      BY <1>1, <1>2, <2>1, <2>2
    <3>2. r.in = in /\ r.out = OUT_s /\ r.aux = aux - 1
      BY <1>1, <3>1
    <3>. QED  BY <1>7, <2>2, <3>2
  <2>3. CASE ~ (aux > 48) /\ aux # 0
    <3>. DEFINE d == Light!Done(Light!Whole(in, aux), 0)
    <3>a. /\ DOMAIN d = {"in", "out", "aux", "trig", "inc", "outc", "auxc"}
          /\ d.in = 0 /\ d.out = 0 /\ d.aux = aux /\ (d.trig \/ 0 = OUT_s)
      BY DoneSlot
    <3>1. r = [d EXCEPT !.aux = 0]
      BY <1>1, <1>2, <2>1, <2>3 DEF w
    <3>. HIDE DEF d
    <3>b. r.in = d.in /\ r.out = d.out /\ r.aux = 0 /\ r.trig = d.trig
      BY <3>a, <3>1
    <3>2. r.in = 0 /\ r.out = 0 /\ r.aux = 0 /\ (r.trig \/ 0 = OUT_s)
      BY <3>a, <3>b
    <3>. QED  BY <1>7, <2>3, <3>2
  <2>4. CASE aux = 0
    BY <1>1, <1>2, <1>7, <2>1, <2>4
  <2>. QED  BY <2>2, <2>3, <2>4
<1>. QED  BY <1>4, <1>5, <1>6, <1>7
-----------------------------------------------------------------------------
(* T11, T12 and T1B: the invariant of the timed lights.                    *)

\* T11: what is pending is the user's, and the timer counts what is left of
\* the time asked for.
Inv_T11 ==
  /\ IN_s \in {0, 1, 2, 4} \/ (IN_s \in Int /\ IN_s > 48)
  /\ OUT_s \in {0, 1}
  /\ AUXIN_s = 0 \/ (AUXIN_s \in Int /\ AUXIN_s >= 48 /\ left = AUXIN_s - 48)
  /\ IN_s # 0 => byUser

\* T12: what is pending and not the user's is the time of the sensor, in the
\* AUTO mode; a lit AUTO mode has such a time or a command of the user.
Inv_T12 ==
  /\ OUT_s \in {0, 1, 240, 241}
  /\ AUXIN_s \in Nat
  /\ AUXIN_s > 0 => OUT_s = 240
  /\ byUser => IN_s \in {0, 1, 2, 4, 8}
  /\ ~ byUser => \/ IN_s = 0 /\ OUT_s # 241
                 \/ IN_s \in Int /\ IN_s >= 8 /\ left = IN_s - 8 /\ OUT_s \in {240, 241}

\* T1B: the same as T11, with a timer that the logic counts.
Inv_T1B ==
  /\ IN_s \in {0, 2, 4, 49}
  /\ OUT_s \in {0, 1}
  /\ AUXIN_s = 0 \/ (AUXIN_s \in Int /\ AUXIN_s >= 48 /\ left = AUXIN_s - 48)
  /\ IN_s # 0 => byUser

TimedInv ==
  /\ TYP_s = "T11" => Inv_T11
  /\ TYP_s = "T12" => Inv_T12
  /\ TYP_s = "T1B" => Inv_T1B

\* The steps of a light other than the step relay.
LEMMA LightSteps ==
  ASSUME TYP_s \in Light!Typicals \ {"T18"}, Light!Next \/ UNCHANGED <<slotVars, lightVars>>
  PROVE  \/ Light!RunLogic(IN_s, AUXIN_s)
         \/ TYP_s = "T12" /\ Light!Sensor
         \/ Light!Timer
         \/ Light!User
         \/ UNCHANGED <<IN_s, OUT_s, AUXIN_s, IN_c, OUT_c, AUXIN_c, byUser, left>>
  BY DEF Light!Next, Light!Logic, Light!Sensor, Light!StepRelay, Light!ByHand, Light!Publish,
         Light!Communicate, slotVars, lightVars, Light!lightVars

LEMMA LogicOfTimed ==
  \A s : /\ Light!LogicOf("T11", s) = Light!Souliss_Logic_T11(s)
         /\ Light!LogicOf("T12", s) = Light!Souliss_Logic_T12(s)
         /\ Light!LogicOf("T1B", s) = Light!Souliss_Logic_T1B(s)
         /\ Light!TimerOf("T11", s) = Light!Souliss_T11_Timer(s)
         /\ Light!TimerOf("T12", s) = Light!Souliss_T12_Timer(s)
         /\ Light!TimerOf("T1B", s) = s
  BY DEF Light!LogicOf, Light!TimerOf

\* A step of T11.
LEMMA Step_T11 ==
  ASSUME Inv_T11, TYP_s = "T11", Light!Next \/ UNCHANGED <<slotVars, lightVars>>
  PROVE  /\ Inv_T11'
         /\ Light!Lit(OUT_s) /\ ~ Light!Lit(OUT_s') => byUser \/ left = 0
<1>1. "T11" \in Light!Typicals \ {"T18"}
  BY DEF Light!Typicals
<1>2. CASE Light!RunLogic(IN_s, AUXIN_s)
  <2>. DEFINE r == Light!Souliss_Logic_T11(Light!Whole(IN_s, AUXIN_s))
  <2>1. /\ IN_s' = r.in /\ OUT_s' = r.out /\ AUXIN_s' = r.aux
        /\ byUser /\ r.in = IN_s /\ r.in # 0 => byUser'
        /\ left' = IF IN_s > 48 THEN IN_s - 48 ELSE IF IN_s = 4 THEN -1 ELSE left
    <3>1. r = Light!LogicOf(TYP_s, Light!Whole(IN_s, AUXIN_s))
      BY LogicOfTimed
    <3>. HIDE DEF r
    <3>2. IN_s' = r.in /\ OUT_s' = r.out /\ AUXIN_s' = r.aux
      BY <1>2, <3>1 DEF Light!RunLogic, Light!SlotLogic
    <3>3. byUser /\ r.in = IN_s /\ r.in # 0 => byUser'
      BY <1>2, <3>1, LightCodes DEF Light!RunLogic
    <3>4. left' = IF IN_s > 48 THEN IN_s - 48 ELSE IF IN_s = 4 THEN -1 ELSE left
      BY <1>2, LightCodes DEF Light!RunLogic, Inv_T11
    <3>. QED  BY <3>2, <3>3, <3>4
  <2>2. \/ IN_s > 48 /\ r.in = 0 /\ r.out = 1 /\ r.aux = IN_s
        \/ /\ ~ (IN_s > 48) /\ (IN_s = 4 \/ AUXIN_s = 48)
           /\ r.in = 0 /\ r.out = 0 /\ r.aux = 0
        \/ /\ ~ (IN_s > 48) /\ IN_s = 2 /\ AUXIN_s # 48
           /\ r.in = 0 /\ r.out = 1 /\ r.aux = AUXIN_s
        \/ /\ ~ (IN_s > 48) /\ IN_s = 1 /\ AUXIN_s # 48
           /\ r.in = 0 /\ r.out = (IF OUT_s = 1 THEN 0 ELSE 1) /\ r.aux = AUXIN_s
        \/ /\ ~ (IN_s > 48) /\ IN_s \notin {1, 2, 4} /\ AUXIN_s # 48
           /\ r.in = IN_s /\ r.out = OUT_s /\ r.aux = AUXIN_s
    BY Logic_T11
  <2>. HIDE DEF r
  <2>3. Inv_T11'
    BY <2>1, <2>2 DEF Inv_T11
  <2>4. OUT_s = 1 /\ OUT_s' = 0 => byUser \/ left = 0
    BY <2>1, <2>2 DEF Inv_T11
  <2>. QED  BY <2>3, <2>4, LightCodes DEF Inv_T11, Light!Lit
<1>3. CASE Light!Timer
  <2>1. /\ IN_s' = IN_s /\ OUT_s' = OUT_s /\ (byUser => byUser')
        /\ AUXIN_s' = (IF AUXIN_s > 48 THEN AUXIN_s - 1 ELSE AUXIN_s)
        /\ left' = (IF left > 0 THEN left - 1 ELSE left)
    <3>. DEFINE r == Light!TimerOf(TYP_s, Light!Whole(IN_s, AUXIN_s))
    <3>1. /\ r.in = IN_s /\ r.out = OUT_s
          /\ r.aux = (IF AUXIN_s > 48 THEN AUXIN_s - 1 ELSE AUXIN_s)
      BY LogicOfTimed, LightCodes DEF Light!Souliss_T11_Timer, Light!Whole
    <3>2. /\ IN_s' = r.in /\ OUT_s' = r.out /\ AUXIN_s' = r.aux
          /\ (byUser /\ r.in = IN_s => byUser')
          /\ left' = (IF left > 0 THEN left - 1 ELSE left)
      BY <1>3 DEF Light!Timer, Light!SlotTimer, Light!Less
    <3>. HIDE DEF r
    <3>. QED  BY <3>1, <3>2
  <2>. QED  BY <2>1 DEF Inv_T11
<1>4. CASE Light!User
  <2>1. /\ OUT_s' = OUT_s /\ AUXIN_s' = AUXIN_s /\ left' = left /\ byUser'
        /\ IN_s' \in Light!UserCommands("T11")
    BY <1>4 DEF Light!User, Light!Command
  <2>2. \A c \in Light!UserCommands("T11") : c \in {1, 2, 4} \/ (c \in Int /\ c > 48)
    BY LightCodes DEF Light!UserCommands, Light!TimedCmds
  <2>. QED  BY <2>1, <2>2 DEF Inv_T11
<1>5. CASE UNCHANGED <<IN_s, OUT_s, AUXIN_s, IN_c, OUT_c, AUXIN_c, byUser, left>>
  BY <1>5 DEF Inv_T11
<1>. QED  BY <1>1, <1>2, <1>3, <1>4, <1>5, LightSteps

\* A step of T12.
LEMMA Step_T12 ==
  ASSUME Inv_T12, TYP_s = "T12", Light!Next \/ UNCHANGED <<slotVars, lightVars>>
  PROVE  /\ Inv_T12'
         /\ Light!Lit(OUT_s) /\ ~ Light!Lit(OUT_s') => byUser \/ left = 0
         /\ ~ Light!IsAuto(OUT_s) /\ OUT_s' # OUT_s => byUser
<1>1. "T12" \in Light!Typicals \ {"T18"}
  BY DEF Light!Typicals
<1>a. /\ \A out : Light!Lit(out) <=> out \in {1, 241}
      /\ \A out : Light!IsAuto(out) <=> out \in {240, 241}
  BY LightCodes DEF Light!Lit, Light!IsAuto
<1>. SUFFICES /\ Inv_T12'
              /\ OUT_s \in {1, 241} /\ OUT_s' \notin {1, 241} => byUser \/ left = 0
              /\ OUT_s \notin {240, 241} /\ OUT_s' # OUT_s => byUser
  BY <1>a
<1>2. CASE Light!RunLogic(IN_s, AUXIN_s)
  <2>. DEFINE r == Light!Souliss_Logic_T12(Light!Whole(IN_s, AUXIN_s))
  <2>1. /\ IN_s' = r.in /\ OUT_s' = r.out /\ AUXIN_s' = r.aux
        /\ byUser' <=> (byUser /\ r.in = IN_s /\ r.in # 0)
        /\ left' = left
    <3>1. r = Light!LogicOf(TYP_s, Light!Whole(IN_s, AUXIN_s))
      BY LogicOfTimed
    <3>. HIDE DEF r
    <3>2. IN_s' = r.in /\ OUT_s' = r.out /\ AUXIN_s' = r.aux
      BY <1>2, <3>1 DEF Light!RunLogic, Light!SlotLogic
    <3>3. byUser' <=> (byUser /\ r.in = IN_s /\ r.in # 0)
      BY <1>2, <3>1, LightCodes DEF Light!RunLogic
    <3>4. left' = left
      BY <1>2 DEF Light!RunLogic
    <3>. QED  BY <3>2, <3>3, <3>4
  <2>2. /\ r.aux = AUXIN_s
        /\ \/ OUT_s \in {240, 241} /\ AUXIN_s > 0 /\ r.in = IN_s /\ r.out = 240
           \/ OUT_s \in {240, 241} /\ ~ (AUXIN_s > 0) /\ IN_s > 8 /\ r.in = IN_s /\ r.out = 241
           \/ /\ ~ (OUT_s \in {240, 241} /\ AUXIN_s > 0) /\ ~ (IN_s > 8 /\ OUT_s \in {240, 241})
              /\ r.in = 0
              /\ \/ IN_s = 4 /\ r.out = 0
                 \/ IN_s = 2 /\ r.out = 1
                 \/ IN_s = 1 /\ r.out = (IF OUT_s \in {1, 241} THEN 0 ELSE 1)
                 \/ IN_s = 8 /\ r.out = 240
                 \/ IN_s = 0 /\ OUT_s = 241 /\ r.out = 240
                 \/ IN_s \notin {1, 2, 4, 8} /\ ~ (IN_s = 0 /\ OUT_s = 241) /\ r.out = OUT_s
    BY Logic_T12 DEF Inv_T12
  <2>. HIDE DEF r
  <2>3. CASE byUser
    BY <2>1, <2>2, <2>3 DEF Inv_T12
  <2>4. CASE ~ byUser
    BY <2>1, <2>2, <2>4 DEF Inv_T12
  <2>. QED  BY <2>3, <2>4
<1>3. CASE Light!Sensor
  <2>1. PICK c \in Light!SensorCmds, d \in Light!Delays :
           /\ d = 0 \/ OUT_s = Light!AutoState
           /\ LET r == Light!LogicOf("T12", Light!Whole(c, IF d = 0 THEN AUXIN_s ELSE d))
              IN  IN_s' = r.in /\ OUT_s' = r.out /\ AUXIN_s' = r.aux
           /\ left' = c - Light!AutoCmd
    BY <1>3 DEF Light!Sensor
  <2>. DEFINE aux == IF d = 0 THEN AUXIN_s ELSE d
              r == Light!Souliss_Logic_T12(Light!Whole(c, aux))
  <2>2. /\ d \in Nat /\ (d = 0 \/ OUT_s = 240)
        /\ c \in Int /\ c > 8 /\ left' = c - 8
    BY <2>1, LightCodes DEF Light!SensorCmds, Light!Delays
  <2>3. IN_s' = r.in /\ OUT_s' = r.out /\ AUXIN_s' = r.aux
    BY <2>1, LogicOfTimed
  <2>4. ~ byUser'
    BY <1>3 DEF Light!Sensor
  <2>5. /\ r.aux = aux
        /\ \/ OUT_s \in {240, 241} /\ aux > 0 /\ r.in = c /\ r.out = 240
           \/ OUT_s \in {240, 241} /\ ~ (aux > 0) /\ c > 8 /\ r.in = c /\ r.out = 241
           \/ /\ ~ (c > 8 /\ OUT_s \in {240, 241})
              /\ r.in = 0
              /\ \/ c = 4 \/ c = 2 \/ c = 1 \/ c = 8 \/ c = 0
                 \/ r.out = OUT_s
    BY Logic_T12 DEF Inv_T12
  <2>. HIDE DEF r
  <2>6. aux \in Nat /\ (aux > 0 => OUT_s = 240)
    BY <2>2 DEF Inv_T12
  <2>. HIDE DEF aux
  <2>. QED  BY <2>2, <2>3, <2>4, <2>5, <2>6 DEF Inv_T12
<1>4. CASE Light!Timer
  <2>1. /\ OUT_s' = OUT_s
        /\ \/ AUXIN_s > 0 /\ AUXIN_s' = AUXIN_s - 1 /\ IN_s' = IN_s /\ left' = left
           \/ /\ ~ (AUXIN_s > 0) /\ AUXIN_s' = AUXIN_s /\ IN_s > 8 /\ IN_s' = IN_s - 1
              /\ left' = (IF left > 0 THEN left - 1 ELSE left)
           \/ /\ ~ (AUXIN_s > 0) /\ AUXIN_s' = AUXIN_s /\ ~ (IN_s > 8) /\ IN_s' = IN_s
              /\ left' = (IF left > 0 THEN left - 1 ELSE left)
        /\ byUser' <=> (byUser /\ IN_s' = IN_s)
    <3>. DEFINE r == Light!TimerOf(TYP_s, Light!Whole(IN_s, AUXIN_s))
    <3>1. /\ r.out = OUT_s
          /\ \/ AUXIN_s > 0 /\ r.aux = AUXIN_s - 1 /\ r.in = IN_s
             \/ ~ (AUXIN_s > 0) /\ r.aux = AUXIN_s /\ IN_s > 8 /\ r.in = IN_s - 1
             \/ ~ (AUXIN_s > 0) /\ r.aux = AUXIN_s /\ ~ (IN_s > 8) /\ r.in = IN_s
      BY LogicOfTimed, LightCodes DEF Light!Souliss_T12_Timer, Light!Whole
    <3>2. /\ IN_s' = r.in /\ OUT_s' = r.out /\ AUXIN_s' = r.aux
          /\ byUser' <=> (byUser /\ r.in = IN_s)
          /\ left' = IF AUXIN_s = 0 THEN (IF left > 0 THEN left - 1 ELSE left) ELSE left
      BY <1>4 DEF Light!Timer, Light!SlotTimer, Light!Less
    <3>. HIDE DEF r
    <3>3. AUXIN_s > 0 <=> AUXIN_s # 0
      BY DEF Inv_T12
    <3>. QED  BY <3>1, <3>2, <3>3
  <2>2. CASE byUser
    BY <2>1, <2>2 DEF Inv_T12
  <2>3. CASE ~ byUser
    BY <2>1, <2>3 DEF Inv_T12
  <2>. QED  BY <2>2, <2>3
<1>5. CASE Light!User
  <2>1. /\ OUT_s' = OUT_s /\ AUXIN_s' = AUXIN_s /\ byUser'
        /\ IN_s' \in Light!UserCommands("T12")
    BY <1>5 DEF Light!User, Light!Command
  <2>2. Light!UserCommands("T12") = {0, 1, 2, 4, 8}
    BY LightCodes DEF Light!UserCommands
  <2>. QED  BY <2>1, <2>2 DEF Inv_T12
<1>6. CASE UNCHANGED <<IN_s, OUT_s, AUXIN_s, IN_c, OUT_c, AUXIN_c, byUser, left>>
  BY <1>6 DEF Inv_T12
<1>. QED  BY <1>1, <1>2, <1>3, <1>4, <1>5, <1>6, LightSteps

\* A step of T1B.
LEMMA Step_T1B ==
  ASSUME Inv_T1B, TYP_s = "T1B", Light!Next \/ UNCHANGED <<slotVars, lightVars>>
  PROVE  /\ Inv_T1B'
         /\ Light!Lit(OUT_s) /\ ~ Light!Lit(OUT_s') => byUser \/ left = 0
<1>1. "T1B" \in Light!Typicals \ {"T18"}
  BY DEF Light!Typicals
<1>2. CASE Light!RunLogic(IN_s, AUXIN_s)
  <2>. DEFINE r == Light!Souliss_Logic_T1B(Light!Whole(IN_s, AUXIN_s))
  <2>1. /\ IN_s' = r.in /\ OUT_s' = r.out /\ AUXIN_s' = r.aux
        /\ byUser /\ r.in = IN_s /\ r.in # 0 => byUser'
        /\ left' = IF IN_s = 49 THEN 15 ELSE IF IN_s \in {2, 4} THEN -1
                   ELSE IF left > 0 THEN left - 1 ELSE left
    <3>1. r = Light!LogicOf(TYP_s, Light!Whole(IN_s, AUXIN_s))
      BY LogicOfTimed
    <3>. HIDE DEF r
    <3>2. IN_s' = r.in /\ OUT_s' = r.out /\ AUXIN_s' = r.aux
      BY <1>2, <3>1 DEF Light!RunLogic, Light!SlotLogic
    <3>3. byUser /\ r.in = IN_s /\ r.in # 0 => byUser'
      BY <1>2, <3>1, LightCodes DEF Light!RunLogic
    <3>4. left' = IF IN_s = 49 THEN 15 ELSE IF IN_s \in {2, 4} THEN -1
                  ELSE IF left > 0 THEN left - 1 ELSE left
      <4>1. CASE IN_s = 49
        BY <1>2, <4>1, LightCodes DEF Light!RunLogic
      <4>2. CASE IN_s \in {2, 4}
        BY <1>2, <4>2, LightCodes DEF Light!RunLogic
      <4>3. CASE IN_s = 0
        BY <1>2, <4>3, LightCodes DEF Light!RunLogic, Light!Less
      <4>. QED  BY <4>1, <4>2, <4>3 DEF Inv_T1B
    <3>. QED  BY <3>2, <3>3, <3>4
  <2>2. \/ IN_s = 4 /\ r.in = 0 /\ r.out = 0 /\ r.aux = 0
        \/ IN_s = 2 /\ r.in = 0 /\ r.out = 1 /\ r.aux = 0
        \/ IN_s = 49 /\ r.in = 0 /\ r.out = 1 /\ r.aux = 63
        \/ /\ IN_s \notin {2, 4, 49} /\ AUXIN_s > 48
           /\ r.in = IN_s /\ r.out = OUT_s /\ r.aux = AUXIN_s - 1
        \/ /\ IN_s \notin {2, 4, 49} /\ ~ (AUXIN_s > 48) /\ AUXIN_s # 0
           /\ r.in = 0 /\ r.out = 0 /\ r.aux = 0
        \/ /\ IN_s \notin {2, 4, 49} /\ AUXIN_s = 0
           /\ r.in = IN_s /\ r.out = OUT_s /\ r.aux = AUXIN_s
    BY Logic_T1B
  <2>. HIDE DEF r
  <2>3. Inv_T1B'
    BY <2>1, <2>2 DEF Inv_T1B
  <2>4. OUT_s = 1 /\ OUT_s' = 0 => byUser \/ left = 0
    BY <2>1, <2>2 DEF Inv_T1B
  <2>. QED  BY <2>3, <2>4, LightCodes DEF Inv_T1B, Light!Lit
<1>3. CASE Light!Timer
  <2>1. /\ IN_s' = IN_s /\ OUT_s' = OUT_s /\ (byUser => byUser')
        /\ AUXIN_s' = AUXIN_s /\ left' = left
    <3>. DEFINE r == Light!TimerOf(TYP_s, Light!Whole(IN_s, AUXIN_s))
    <3>1. r.in = IN_s /\ r.out = OUT_s /\ r.aux = AUXIN_s
      BY LogicOfTimed DEF Light!Whole
    <3>2. /\ IN_s' = r.in /\ OUT_s' = r.out /\ AUXIN_s' = r.aux
          /\ (byUser /\ r.in = IN_s => byUser') /\ left' = left
      BY <1>3 DEF Light!Timer, Light!SlotTimer
    <3>. HIDE DEF r
    <3>. QED  BY <3>1, <3>2
  <2>. QED  BY <2>1 DEF Inv_T1B
<1>4. CASE Light!User
  <2>1. /\ OUT_s' = OUT_s /\ AUXIN_s' = AUXIN_s /\ left' = left /\ byUser'
        /\ IN_s' \in Light!UserCommands("T1B")
    BY <1>4 DEF Light!User, Light!Command
  <2>2. Light!UserCommands("T1B") = {2, 4, 49}
    BY LightCodes DEF Light!UserCommands
  <2>. QED  BY <2>1, <2>2 DEF Inv_T1B
<1>5. CASE UNCHANGED <<IN_s, OUT_s, AUXIN_s, IN_c, OUT_c, AUXIN_c, byUser, left>>
  BY <1>5 DEF Inv_T1B
<1>. QED  BY <1>1, <1>2, <1>3, <1>4, <1>5, LightSteps

LEMMA TimedInv_Init == MCInit => TimedInv
<1>. SUFFICES ASSUME MCInit, TYP_s \in {"T11", "T12", "T1B"} PROVE TimedInv
  BY DEF TimedInv
<1>1. Light!Init
  BY DEF MCInit, Init, SlotInit, Typicals, Thermo!Init, Thermo!SlotInit, Analog!Init,
         Analog!Typicals
<1>2. IN_s = 0 /\ OUT_s = 0 /\ AUXIN_s = 0 /\ ~ byUser
  BY <1>1, LightCodes DEF Light!Init, Light!SlotInit
<1>. QED  BY <1>2 DEF TimedInv, Inv_T11, Inv_T12, Inv_T1B

\* A step of the slot from the view of the timed lights.
LEMMA TimedStep ==
  ASSUME TimedInv, [MCNext]_allVars
  PROVE  /\ TimedInv'
         /\ TYP_s \in {"T11", "T12", "T1B"} /\ Light!Lit(OUT_s) /\ ~ Light!Lit(OUT_s') =>
              byUser \/ left = 0
         /\ TYP_s = "T12" /\ ~ Light!IsAuto(OUT_s) /\ OUT_s' # OUT_s => byUser
<1>1. TYP_s' = TYP_s
  BY Families
<1>2. TYP_s \in {"T11", "T12", "T1B"} => Light!Next \/ UNCHANGED <<slotVars, lightVars>>
  BY Families DEF Light!Typicals
<1>3. CASE TYP_s = "T11"
  BY <1>1, <1>2, <1>3, Step_T11 DEF TimedInv
<1>4. CASE TYP_s = "T12"
  BY <1>1, <1>2, <1>4, Step_T12 DEF TimedInv
<1>5. CASE TYP_s = "T1B"
  BY <1>1, <1>2, <1>5, Step_T1B DEF TimedInv
<1>6. CASE TYP_s \notin {"T11", "T12", "T1B"}
  BY <1>1, <1>6 DEF TimedInv
<1>. QED  BY <1>3, <1>4, <1>5, <1>6

LEMMA TimedInv_Always == MCSpec => []TimedInv
<1>1. TimedInv /\ [MCNext]_allVars => TimedInv'
  BY TimedStep
<1>. QED  BY <1>1, TimedInv_Init, PTL DEF MCSpec

\* A timed light stays on for all of its time.
THEOREM NotEarlyHolds == MCSpec => NotEarly
<1>1. TimedInv /\ [MCNext]_allVars =>
        [Light!Lit(OUT_s) /\ ~ Light!Lit(OUT_s') /\ TYP_s \in {"T11", "T12", "T1B"} =>
           byUser \/ left = 0]_<<Light!slotVars, Light!lightVars>>
  BY TimedStep
<1>. QED  BY <1>1, TimedInv_Always, PTL DEF MCSpec, NotEarly, Light!NotEarly

\* A light of T12 that is in manual mode is changed by its users only.
THEOREM ManualHoldsAlways == MCSpec => ManualHolds
<1>1. TimedInv /\ [MCNext]_allVars =>
        [TYP_s = "T12" /\ ~ Light!IsAuto(OUT_s) /\ OUT_s' # OUT_s => byUser]_<<Light!slotVars, Light!lightVars>>
  BY TimedStep
<1>. QED  BY <1>1, TimedInv_Always, PTL DEF MCSpec, ManualHolds, Light!ManualHolds
-----------------------------------------------------------------------------
(* T18: the invariant of the step relay.                                   *)

\* A feedback in OUT_s is what the contact last wrote.
Inv_T18 ==
  /\ IN_s \in {0, 1, 2, 4}
  /\ OUT_s \in {0, 1, 35, 36}
  /\ OUT_s \in {35, 36} => OUT_s = InPin_c

LEMMA Logic_T18 ==
  ASSUME NEW in, NEW aux, NEW r, r = Light!Souliss_Logic_T18(Light!Whole(in, aux))
  PROVE  /\ r.in = 0
         /\ \/ in \in {35, 36} /\ r.out = in
            \/ /\ in \notin {35, 36} /\ r.out = 1
               /\ in = 1 \/ (in = 2 /\ OUT_s = 36) \/ (in = 4 /\ OUT_s = 35)
            \/ in \notin {35, 36} /\ r.out = 0
            \/ in \notin {35, 36} /\ r.out = OUT_s
  BY LightCodes DEF Light!Souliss_Logic_T18, Light!Whole, Light!Done, Light!MayPulse

\* A step of T18.
LEMMA Step_T18 ==
  ASSUME Inv_T18, TYP_s = "T18", Light!Next \/ UNCHANGED <<slotVars, lightVars>>
  PROVE  /\ Inv_T18'
         /\ OUT_s # 1 /\ OUT_s' = 1 => (IN_s = 2 => ~ contact) /\ (IN_s = 4 => contact)
<1>1. CASE Light!StepRelay
  <2>. DEFINE in == Light!DigIn2State(IN_s)
              r == Light!Souliss_Logic_T18(Light!Whole(in, AUXIN_s))
              now == IF contact THEN 35 ELSE 36
  <2>1. IN_s' = r.in /\ OUT_s' = r.out
    <3>1. r = Light!LogicOf("T18", Light!Whole(in, AUXIN_s))
      BY DEF Light!LogicOf
    <3>. HIDE DEF r, in
    <3>2. Light!RunLogic(in, AUXIN_s)
      BY <1>1 DEF Light!StepRelay, in
    <3>. QED  BY <3>1, <3>2 DEF Light!RunLogic, Light!SlotLogic
  <2>2. InPin_c' = now
    BY <1>1, LightCodes DEF Light!StepRelay
  <2>3. in = IF InPin_c = now THEN IN_s ELSE now
    BY LightCodes DEF Light!DigIn2State
  <2>4. /\ r.in = 0
        /\ \/ in \in {35, 36} /\ r.out = in
           \/ /\ in \notin {35, 36} /\ r.out = 1
              /\ in = 1 \/ (in = 2 /\ OUT_s = 36) \/ (in = 4 /\ OUT_s = 35)
           \/ in \notin {35, 36} /\ r.out = 0
           \/ in \notin {35, 36} /\ r.out = OUT_s
    BY Logic_T18
  <2>. HIDE DEF r, in
  <2>. QED  BY <2>1, <2>2, <2>3, <2>4 DEF Inv_T18
<1>2. CASE Light!Timer
  <2>. DEFINE r == Light!TimerOf("T18", Light!Whole(IN_s, AUXIN_s))
  <2>1. r.in = IN_s /\ r.out = OUT_s
    BY DEF Light!TimerOf, Light!Souliss_T18_Timer, Light!Whole
  <2>. HIDE DEF r
  <2>2. IN_s' = r.in /\ OUT_s' = r.out /\ InPin_c' = InPin_c
    BY <1>2 DEF Light!Timer, Light!SlotTimer, Light!relay, r
  <2>. QED  BY <2>1, <2>2 DEF Inv_T18
<1>3. CASE Light!User
  <2>1. /\ OUT_s' = OUT_s /\ InPin_c' = InPin_c /\ IN_s' \in Light!UserCommands("T18")
    BY <1>3 DEF Light!User, Light!Command, Light!relay
  <2>2. Light!UserCommands("T18") = {1, 2, 4}
    BY LightCodes DEF Light!UserCommands
  <2>. QED  BY <2>1, <2>2 DEF Inv_T18
<1>4. CASE Light!ByHand \/ Light!Publish \/ UNCHANGED <<slotVars, lightVars>>
  <2>1. IN_s' = IN_s /\ OUT_s' = OUT_s /\ InPin_c' = InPin_c
    BY <1>4 DEF Light!ByHand, Light!Publish, Light!Communicate, slotVars, lightVars, Light!lightVars
  <2>. QED  BY <2>1 DEF Inv_T18
<1>. QED  BY <1>1, <1>2, <1>3, <1>4 DEF Light!Next, Light!Logic, Light!Sensor

LEMMA RelayStep ==
  ASSUME TYP_s = "T18" => Inv_T18, [MCNext]_allVars
  PROVE  /\ (TYP_s = "T18" => Inv_T18)'
         /\ TYP_s = "T18" /\ OUT_s # 1 /\ OUT_s' = 1 =>
              (IN_s = 2 => ~ contact) /\ (IN_s = 4 => contact)
<1>1. TYP_s' = TYP_s /\ (TYP_s = "T18" => Light!Next \/ UNCHANGED <<slotVars, lightVars>>)
  BY Families DEF Light!Typicals
<1>. QED  BY <1>1, Step_T18

\* An On never steps a relay that is on, nor an Off one that is off.
THEOREM PulseHonestHolds == MCSpec => PulseHonest
<1>. DEFINE RelayInv == TYP_s = "T18" => Inv_T18
<1>1. MCInit => RelayInv
  <2>. SUFFICES ASSUME MCInit, TYP_s = "T18" PROVE Inv_T18
    OBVIOUS
  <2>1. Light!Init
    BY DEF MCInit, Init, SlotInit, Typicals, Thermo!Init, Thermo!SlotInit, Analog!Init,
           Analog!Typicals
  <2>2. IN_s = 0 /\ OUT_s = 0
    BY <2>1, LightCodes DEF Light!Init, Light!SlotInit
  <2>. QED  BY <2>2 DEF Inv_T18
<1>2. RelayInv /\ [MCNext]_allVars => RelayInv'
  BY RelayStep
<1>3. RelayInv /\ [MCNext]_allVars =>
        [TYP_s = "T18" /\ OUT_s # Light!OnCoil /\ OUT_s' = Light!OnCoil =>
           (IN_s = Light!OnCmd => ~ contact) /\ (IN_s = Light!OffCmd => contact)]_<<Light!slotVars, Light!lightVars>>
  BY RelayStep, LightCodes
<1>. HIDE DEF RelayInv
<1>. QED  BY <1>1, <1>2, <1>3, PTL DEF MCSpec, PulseHonest, Light!PulseHonest
-----------------------------------------------------------------------------
(* T19: the invariant of the dimmer.                                       *)

Levels == [Light!Channel -> Nat]

Inv_T19 == IN_c \in Levels /\ OUT_c \in Levels /\ AUXIN_c \in Levels

\* What OffIsDark says of a slot r that a dimmer's round with in has made.
DarkWhenOff(in, r) ==
  r.out = 0 => r.outc[1] = 0 \/ (OUT_s = 0 /\ (r.outc[1] <= OUT_c[1] \/ in = 21))

LevelsOf(r) == r.inc \in Levels /\ r.outc \in Levels /\ r.auxc \in Levels

LEMMA Logic_T19 ==
  ASSUME Inv_T19, NEW in, NEW aux, NEW r, r = Light!Souliss_Logic_T19(Light!Whole(in, aux))
  PROVE  LevelsOf(r) /\ DarkWhenOff(in, r)
<1>. DEFINE w == Light!Whole(in, aux)
<1>1. /\ w.in = in /\ w.out = OUT_s /\ w.aux = aux /\ w.trig = FALSE
      /\ w.inc = IN_c /\ w.outc = OUT_c /\ w.auxc = AUXIN_c
      /\ w = [in |-> in, out |-> OUT_s, aux |-> aux, trig |-> FALSE,
              inc |-> IN_c, outc |-> OUT_c, auxc |-> AUXIN_c]
  BY DEF Light!Whole
<1>2. /\ Light!Channel = 1 .. 3 /\ 1 \in Light!Channel
      /\ OUT_c[1] \in Nat /\ AUXIN_c[1] \in Nat /\ IN_c[1] \in Nat
  BY DEF Light!Channel, Inv_T19, Levels
<1>3. \A v \in Nat : /\ [OUT_c EXCEPT ![1] = v] \in Levels /\ [OUT_c EXCEPT ![1] = v][1] = v
                     /\ [AUXIN_c EXCEPT ![1] = v] \in Levels
                     /\ [IN_c EXCEPT ![1] = v] \in Levels
  BY <1>2 DEF Inv_T19, Levels
<1>. HIDE DEF w
<1>4. CASE r.inc = IN_c /\ r.outc = OUT_c /\ r.auxc = AUXIN_c /\ (r.out = OUT_s \/ r.out # 0)
  BY <1>2, <1>4 DEF LevelsOf, DarkWhenOff, Inv_T19
<1>5. CASE in = 1
  <2>1. r.inc = IN_c /\ r.outc = OUT_c /\ r.auxc = AUXIN_c /\ r.out = OUT_s
    BY <1>1, <1>5, LightCodes DEF Light!Souliss_Logic_T19, w
  <2>. QED  BY <1>4, <2>1
<1>6. CASE in = 4
  <2>. DEFINE level == IF OUT_c[1] > 7 THEN OUT_c[1] - 7 ELSE 0
              c == [OUT_c EXCEPT ![1] = level]
  <2>1. level \in Nat /\ level <= OUT_c[1] /\ c \in Levels /\ c[1] = level
    <3>1. level \in Nat /\ level <= OUT_c[1]
      BY <1>2
    <3>. HIDE DEF level
    <3>. QED  BY <1>3, <3>1
  <2>2. /\ r.inc = IN_c /\ r.auxc = AUXIN_c /\ r.outc = c
        /\ r.out = IF OUT_s # 0 /\ level = 0 THEN 0 ELSE OUT_s
    BY <1>1, <1>6, LightCodes
       DEF Light!Souliss_Logic_T19, Light!FadeOut_T19, Light!RampStep, Light!Done, w
  <2>. HIDE DEF level, c
  <2>. QED  BY <1>2, <2>1, <2>2 DEF LevelsOf, DarkWhenOff, Inv_T19
<1>7. CASE in = 2
  <2>. DEFINE goal == IF AUXIN_c[1] = 0 THEN 170 ELSE AUXIN_c[1]
              level == IF OUT_c[1] > goal \/ goal - OUT_c[1] < 7 THEN goal ELSE OUT_c[1] + 7
  <2>1. goal \in Nat /\ level \in Nat
    BY <1>2
  <2>2. /\ r.inc = IN_c /\ r.auxc = [AUXIN_c EXCEPT ![1] = goal]
        /\ r.outc = [OUT_c EXCEPT ![1] = level] /\ r.out = 1
    BY <1>1, <1>7, LightCodes
       DEF Light!Souliss_Logic_T19, Light!FadeIn_T19, Light!RampStep, Light!BrightDefault, w
  <2>. HIDE DEF level, goal
  <2>3. r.outc \in Levels /\ r.auxc \in Levels
    BY <1>3, <2>1, <2>2
  <2>. QED  BY <2>2, <2>3 DEF LevelsOf, DarkWhenOff, Inv_T19
<1>8. CASE in = 21
  <2>. DEFINE level == IF OUT_s = 1 THEN (IF OUT_c[1] > 16 THEN OUT_c[1] - 16 ELSE 0)
                       ELSE (IF OUT_c[1] < 239 THEN OUT_c[1] + 16 ELSE OUT_c[1])
  <2>1. level \in Nat
    BY <1>2
  <2>2. /\ r.inc = IN_c /\ r.auxc = AUXIN_c /\ r.out = OUT_s
        /\ r.outc = OUT_c \/ r.outc = [OUT_c EXCEPT ![1] = level]
    <3>1. CASE OUT_s = 1
      BY <1>1, <1>8, <3>1, LightCodes DEF Light!Souliss_Logic_T19, Light!BrightValue, w
    <3>2. CASE OUT_s = 0
      BY <1>1, <1>8, <3>2, LightCodes
         DEF Light!Souliss_Logic_T19, Light!BrightValue, Light!Switched, w
    <3>3. CASE OUT_s \notin {0, 1}
      <4>1. r = w
        BY <1>1, <1>8, <3>3, LightCodes DEF Light!Souliss_Logic_T19, w
      <4>. QED  BY <1>1, <4>1
    <3>. QED  BY <3>1, <3>2, <3>3
  <2>. HIDE DEF level
  <2>. QED  BY <1>3, <1>8, <2>1, <2>2 DEF LevelsOf, DarkWhenOff, Inv_T19
<1>9. CASE in = 16
  <2>. DEFINE level == IF OUT_c[1] < 254 THEN OUT_c[1] + 1 ELSE 255
  <2>1. level \in Nat
    BY <1>2
  <2>2. /\ r.inc = IN_c /\ r.auxc = [AUXIN_c EXCEPT ![1] = level]
        /\ r.outc = [OUT_c EXCEPT ![1] = level] /\ r.out = 1
    BY <1>1, <1>9, LightCodes
       DEF Light!Souliss_Logic_T19, Light!Brighten_T19, Light!HoldStep, Light!Published, w
  <2>. HIDE DEF level
  <2>3. r.outc \in Levels /\ r.auxc \in Levels
    BY <1>3, <2>1, <2>2
  <2>. QED  BY <2>2, <2>3 DEF LevelsOf, DarkWhenOff, Inv_T19
<1>10. CASE in = 32
  <2>. DEFINE level == IF OUT_c[1] > 16 THEN OUT_c[1] - 16 ELSE 0
  <2>1. level \in Nat /\ level <= OUT_c[1]
    BY <1>2
  <2>2. /\ r.inc = IN_c /\ r.auxc = AUXIN_c
        /\ r.outc = [OUT_c EXCEPT ![1] = level] /\ r.out = IF level = 0 THEN 0 ELSE OUT_s
    BY <1>1, <1>10, LightCodes
       DEF Light!Souliss_Logic_T19, Light!Darken_T19, Light!BrightValue, Light!Published, w
  <2>. HIDE DEF level
  <2>. QED  BY <1>3, <2>1, <2>2 DEF LevelsOf, DarkWhenOff, Inv_T19
<1>11. CASE in = 33
  <2>1. CASE OUT_s = 1
    <3>. DEFINE c == [i \in Light!Channel |-> IF i \in {1} /\ OUT_c[i] = AUXIN_c[i] THEN 0
                                             ELSE IF i \in {1} /\ OUT_c[i] = 0 THEN AUXIN_c[i]
                                             ELSE OUT_c[i]]
    <3>1. c \in Levels
      BY DEF Levels, Inv_T19
    <3>2. /\ r.inc = IN_c /\ r.auxc = AUXIN_c /\ r.out = OUT_s /\ r.outc = c
      BY <1>1, <1>11, <2>1, LightCodes DEF Light!Souliss_Logic_T19, Light!Flashed, w
    <3>. HIDE DEF c
    <3>. QED  BY <2>1, <3>1, <3>2 DEF LevelsOf, DarkWhenOff, Inv_T19
  <2>2. CASE OUT_s # 1
    <3>1. r.inc = IN_c /\ r.outc = OUT_c /\ r.auxc = AUXIN_c /\ r.out = OUT_s
      BY <1>1, <1>11, <2>2, LightCodes DEF Light!Souliss_Logic_T19, w
    <3>. QED  BY <1>4, <3>1
  <2>. QED  BY <2>1, <2>2
<1>12. CASE in = 34
  <2>1. /\ r.inc = [IN_c EXCEPT ![1] = 0] /\ r.auxc = [AUXIN_c EXCEPT ![1] = IN_c[1]]
        /\ r.outc = [OUT_c EXCEPT ![1] = IN_c[1]] /\ r.out = 1
    BY <1>1, <1>12, LightCodes DEF Light!Souliss_Logic_T19, Light!SetLevel_T19, w
  <2>2. r.inc \in Levels /\ r.outc \in Levels /\ r.auxc \in Levels
    BY <1>2, <1>3, <2>1
  <2>. QED  BY <2>1, <2>2 DEF LevelsOf, DarkWhenOff
<1>13. CASE in \notin {1, 2, 4, 16, 21, 32, 33, 34}
  <2>1. r = Light!Idle_T19(w)
    BY <1>1, <1>13, LightCodes DEF Light!Souliss_Logic_T19, w
  <2>2. CASE aux > 34 \/ aux # 34
    <3>1. r.inc = IN_c /\ r.outc = OUT_c /\ r.out = OUT_s /\ r.auxc = AUXIN_c
      BY <1>1, <2>1, <2>2, LightCodes DEF Light!Idle_T19
    <3>. QED  BY <1>4, <3>1
  <2>3. CASE aux = 34
    <3>1. /\ r.inc = IN_c /\ r.outc = OUT_c /\ r.out = OUT_s
          /\ r.auxc = [AUXIN_c EXCEPT ![1] = OUT_c[1]]
      BY <1>1, <2>1, <2>3, LightCodes DEF Light!Idle_T19, Light!Published
    <3>2. r.auxc \in Levels
      BY <1>2, <1>3, <3>1
    <3>. QED  BY <1>2, <3>1, <3>2 DEF LevelsOf, DarkWhenOff, Inv_T19
  <2>. QED  BY <2>2, <2>3
<1>. QED  BY <1>5, <1>6, <1>7, <1>8, <1>9, <1>10, <1>11, <1>12, <1>13

\* A step of T19.
LEMMA Step_T19 ==
  ASSUME Inv_T19, TYP_s = "T19", Light!Next \/ UNCHANGED <<slotVars, lightVars>>
  PROVE  /\ Inv_T19'
         /\ OUT_s' = 0 =>
              \/ OUT_c'[1] = 0
              \/ OUT_s = 0 /\ (OUT_c'[1] <= OUT_c[1] \/ IN_s = 21)
<1>0. "T19" \in Light!Typicals \ {"T18"}
  BY DEF Light!Typicals
<1>a. OUT_c[1] \in Nat /\ OUT_c[1] <= OUT_c[1]
  BY DEF Inv_T19, Levels, Light!Channel
<1>1. CASE Light!RunLogic(IN_s, AUXIN_s)
  <2>. DEFINE r == Light!Souliss_Logic_T19(Light!Whole(IN_s, AUXIN_s))
  <2>1. LevelsOf(r) /\ DarkWhenOff(IN_s, r)
    BY Logic_T19
  <2>2. r = Light!LogicOf("T19", Light!Whole(IN_s, AUXIN_s))
    BY DEF Light!LogicOf
  <2>. HIDE DEF r
  <2>3. OUT_s' = r.out /\ IN_c' = r.inc /\ OUT_c' = r.outc /\ AUXIN_c' = r.auxc
    BY <1>1, <2>2 DEF Light!RunLogic, Light!SlotLogic, Light!ChannelsOf
  <2>. QED  BY <2>1, <2>3 DEF Inv_T19, LevelsOf, DarkWhenOff
<1>2. CASE Light!Timer
  <2>. DEFINE r == Light!TimerOf("T19", Light!Whole(IN_s, AUXIN_s))
              level == IF OUT_c[1] > 0 THEN OUT_c[1] - 1 ELSE 0
  <2>1. /\ r.inc = IN_c /\ r.auxc = AUXIN_c
        /\ \/ r.out = OUT_s /\ r.outc = OUT_c
           \/ r.out = 241 /\ r.outc = [OUT_c EXCEPT ![1] = level]
    <3>1. r = Light!Souliss_T19_Timer(Light!Whole(IN_s, AUXIN_s))
      BY DEF Light!TimerOf
    <3>. HIDE DEF r
    <3>2. CASE ~ (IN_s > 48 \/ AUXIN_s > 48)
      BY <3>1, <3>2, LightCodes DEF Light!Souliss_T19_Timer, Light!Whole
    <3>3. CASE IN_s > 48 \/ AUXIN_s > 48
      BY <3>1, <3>3, LightCodes DEF Light!Souliss_T19_Timer, Light!Whole
    <3>. QED  BY <3>2, <3>3
  <2>. HIDE DEF r
  <2>2. OUT_s' = r.out /\ IN_c' = r.inc /\ OUT_c' = r.outc /\ AUXIN_c' = r.auxc
    BY <1>2 DEF Light!Timer, Light!SlotTimer, Light!ChannelsOf, r
  <2>3. level \in Nat
    BY <1>a
  <2>. HIDE DEF level
  <2>4. [OUT_c EXCEPT ![1] = level] \in Levels
    BY <2>3 DEF Inv_T19, Levels
  <2>. QED  BY <1>a, <2>1, <2>2, <2>4 DEF Inv_T19
<1>3. CASE Light!User
  <2>1. /\ OUT_s' = OUT_s /\ OUT_c' = OUT_c /\ AUXIN_c' = AUXIN_c
        /\ IN_c' = IN_c \/ IN_c' \in Light!Colours
    BY <1>3 DEF Light!User, Light!Command
  <2>2. \A c \in Light!Colours : c \in Levels
    BY DEF Light!Colours, Levels, Light!Channel
  <2>. QED  BY <1>a, <2>1, <2>2 DEF Inv_T19
<1>4. CASE UNCHANGED <<IN_s, OUT_s, AUXIN_s, IN_c, OUT_c, AUXIN_c, byUser, left>>
  BY <1>4, <1>a DEF Inv_T19
<1>. QED  BY <1>0, <1>1, <1>2, <1>3, <1>4, LightSteps

LEMMA DimmerStep ==
  ASSUME TYP_s = "T19" => Inv_T19, [MCNext]_allVars
  PROVE  /\ (TYP_s = "T19" => Inv_T19)'
         /\ TYP_s = "T19" /\ OUT_s' = 0 =>
              \/ OUT_c'[1] = 0
              \/ OUT_s = 0 /\ (OUT_c'[1] <= OUT_c[1] \/ IN_s = 21)
<1>1. TYP_s' = TYP_s /\ (TYP_s = "T19" => Light!Next \/ UNCHANGED <<slotVars, lightVars>>)
  BY Families DEF Light!Typicals
<1>. QED  BY <1>1, Step_T19

\* A dimmer is declared off when it is dark, and while it is declared off
\* only a bright switch gives it light.
THEOREM OffIsDarkHolds == MCSpec => OffIsDark
<1>. DEFINE DimmerInv == TYP_s = "T19" => Inv_T19
<1>1. MCInit => DimmerInv
  <2>. SUFFICES ASSUME MCInit PROVE Inv_T19
    OBVIOUS
  <2>1. IN_c = Light!Dark /\ OUT_c = Light!Dark /\ AUXIN_c = Light!Dark
    BY DEF MCInit, NoLight, Light!Init
  <2>. QED  BY <2>1 DEF Inv_T19, Levels, Light!Dark
<1>2. DimmerInv /\ [MCNext]_allVars => DimmerInv'
  BY DimmerStep
<1>3. DimmerInv /\ [MCNext]_allVars =>
        [TYP_s = "T19" /\ OUT_s' = Light!OffCoil =>
           \/ OUT_c'[1] = 0
           \/ OUT_s = Light!OffCoil /\ (OUT_c'[1] <= OUT_c[1] \/ IN_s = Light!BrightSwitch)]_<<Light!slotVars, Light!lightVars>>
  BY DimmerStep, LightCodes
<1>. HIDE DEF DimmerInv
<1>. QED  BY <1>1, <1>2, <1>3, PTL DEF MCSpec, OffIsDark, Light!OffIsDark
-----------------------------------------------------------------------------
(* What the subscribers know.                                              *)

\* A round of a light that publishes what it does.
LEMMA Tells_T13 ==
  ASSUME NEW in, NEW aux, NEW r, r = Light!Souliss_Logic_T13(Light!Whole(in, aux))
  PROVE  r.trig \/ r.out = OUT_s
  BY LightCodes DEF Light!Souliss_Logic_T13, Light!Whole, Light!Done

LEMMA Tells_T15 ==
  ASSUME NEW in, NEW aux, NEW r, r = Light!Souliss_Logic_T15(Light!Whole(in, aux))
  PROVE  r.trig \/ r.out = OUT_s
  BY LightCodes DEF Light!Souliss_Logic_T15, Light!Whole, Light!Done, Light!Published

LEMMA Tells_T16 ==
  ASSUME NEW in, NEW aux, NEW r, r = Light!Souliss_Logic_T16(Light!Whole(in, aux))
  PROVE  r.trig \/ r.out = OUT_s
  BY LightCodes DEF Light!Souliss_Logic_T16, Light!Whole, Light!SetColour, Light!FadeOut_T16,
       Light!SwitchOn_T16, Light!Lighted, Light!Published, Light!Flashed

LEMMA Tells_T1A ==
  ASSUME NEW in, NEW aux, NEW r, r = Light!Souliss_Logic_T1A(Light!Whole(in, aux))
  PROVE  r.trig \/ r.out = OUT_s
  BY LightCodes DEF Light!Souliss_Logic_T1A, Light!Whole, Light!Published

LEMMA DoorCodes ==
  /\ \A d : d \in Dir <=> d = "Close" \/ d = "Open"
  /\ \A d \in Dir : Cmd_SW(d) # 0 /\ Cmd_Local(d) # 0
  /\ RstCmd = 0 /\ StopCmd = 4 /\ ToggleCmd = 8
  /\ \A c \in Commands : c # 0
  /\ \A c \in Commands_T21 : c # 0
  BY DEF Dir, Cmd_SW, Cmd_Local, RstCmd, StopCmd, ToggleCmd, Commands, Commands_T21

\* A round of a door publishes what it does, or leaves its command.
Tells(s, r) == r.in # 0 \/ r.trig \/ r = s

LEMMA Tells_T21 ==
  ASSUME NEW in, NEW out, NEW aux, NEW s, s = Slot(in, out, aux, FALSE),
         NEW r, r = Souliss_Logic_T21(s)
  PROVE  Tells(s, r)
<1>1. CASE s.in \in Commands_T21
  <2>1. r = Command_T21(s)
    BY <1>1 DEF Souliss_Logic_T21
  <2>2. \A d : Slot(RstCmd, Coil(d), Timer_Val, TRUE).trig
    BY DEF Slot
  <2>3. \A a : Slot(s.in, Coil_Stop, a, FALSE).in # 0
    BY <1>1, DoorCodes DEF Slot
  <2>4. \/ \E d : r = Slot(RstCmd, Coil(d), Timer_Val, TRUE)
        \/ \E a : r = Slot(s.in, Coil_Stop, a, FALSE)
    BY <2>1 DEF Command_T21
  <2>. QED  BY <2>2, <2>3, <2>4 DEF Tells
<1>2. CASE s.in \notin Commands_T21
  <2>1. (\E d : r = EndAt(d, s)) \/ r = s
    BY <1>2 DEF Souliss_Logic_T21
  <2>2. \A d : EndAt(d, s).trig
    BY DEF EndAt, Slot
  <2>. QED  BY <2>1, <2>2 DEF Tells
<1>. QED  BY <1>1, <1>2, Zenon

LEMMA Tells_T22 ==
  ASSUME NEW in, NEW out, NEW aux, NEW s, s = Slot(in, out, aux, FALSE),
         NEW r, r = Souliss_Logic_T22(s)
  PROVE  Tells(s, r)
<1>. DEFINE c == Converted(s)
<1>1. /\ c = s \/ c.in \in {1, 2}
      /\ DOMAIN c = {"in", "out", "aux", "trig"}
  BY DEF Converted, Slot, Cmd_SW
<1>2. r = Decide_T22(c)
  BY DEF Souliss_Logic_T22
<1>. HIDE DEF c
<1>3. ASSUME NEW x, x.in # 0, r = Issued_T22(x)
      PROVE  Tells(s, r)
  BY <1>3 DEF Issued_T22, Slot, Tells
<1>4. \A o : [c EXCEPT !.out = o].in = c.in
  BY <1>1
<1>5. \A o, a : [c EXCEPT !.out = o, !.aux = a].in = c.in
  BY <1>1
<1>6. CASE c.in = StopCmd
  <2>1. r = Issued_T22([c EXCEPT !.out = Coil_Stop])
    BY <1>2, <1>6 DEF Decide_T22
  <2>2. [c EXCEPT !.out = Coil_Stop].in # 0
    BY <1>4, <1>6, DoorCodes
  <2>. QED  BY <1>3, <2>1, <2>2, Zenon
<1>7. CASE c.in # StopCmd /\ \E d \in Dir : c.in = Cmd_Local(d)
  <2>1. \E d : r = Issued_T22(Local_T22(d, c))
    BY <1>2, <1>7 DEF Decide_T22
  <2>2. \A d : Local_T22(d, c).in = c.in
    BY <1>4 DEF Local_T22
  <2>. QED  BY <1>3, <1>7, <2>1, <2>2, DoorCodes
<1>8. CASE /\ c.in # StopCmd /\ ~ \E d \in Dir : c.in = Cmd_Local(d)
           /\ \E d \in Dir : c.in = Cmd_SW(d)
  <2>1. \E d : r = Issued_T22(Software_T22(d, c))
    BY <1>2, <1>8 DEF Decide_T22
  <2>2. \A d : Software_T22(d, c).in = c.in
    BY <1>4, <1>5 DEF Software_T22
  <2>. QED  BY <1>3, <1>8, <2>1, <2>2, DoorCodes
<1>9. CASE /\ c.in # StopCmd /\ ~ \E d \in Dir : c.in = Cmd_Local(d)
           /\ ~ \E d \in Dir : c.in = Cmd_SW(d)
  <2>1. c = s
    BY <1>1, <1>9 DEF Dir, Cmd_SW
  <2>2. \/ \E d : r = EndAt(d, c)
        \/ r = Slot(RstCmd, NoLimSwitch, c.aux, TRUE)
        \/ r = c
    BY <1>2, <1>9 DEF Decide_T22
  <2>3. (\A d : EndAt(d, c).trig) /\ Slot(RstCmd, NoLimSwitch, c.aux, TRUE).trig
    BY DEF EndAt, Slot
  <2>. QED  BY <2>1, <2>2, <2>3 DEF Tells
<1>. QED  BY <1>6, <1>7, <1>8, <1>9, Zenon

\* What is missing at the subscribers of a door: nothing but what a command
\* that is still there, or a trigger that is raised, will publish.
DoorKnown == TYP_s \in Typicals => IN_s # RstCmd \/ trigger \/ sent = OUT_s

\* And of the lights that publish all they do; T16 says good night in silence.
Publishing == {"T11", "T12", "T13", "T15", "T16", "T1A", "T1B"}

LightKnown ==
  TYP_s \in Publishing => \/ trigger \/ sent = OUT_s
                          \/ TYP_s = "T16" /\ OUT_s = Light!GoodNight

KnownInv == DoorKnown /\ LightKnown

LEMMA KnownInv_Init == MCInit => KnownInv
<1>. SUFFICES ASSUME MCInit, TYP_s \in Typicals \/ TYP_s \in Publishing PROVE sent = OUT_s
  BY DEF KnownInv, DoorKnown, LightKnown
<1>1. Init \/ Light!Init
  BY DEF MCInit, Typicals, Publishing, Thermo!Init, Thermo!SlotInit, Analog!Init, Analog!Typicals
<1>. QED  BY <1>1 DEF Init, SlotInit, Light!Init, Light!SlotInit

LEMMA DoorKnown_Next ==
  ASSUME DoorKnown, [MCNext]_allVars
  PROVE  DoorKnown'
<1>. SUFFICES ASSUME TYP_s' \in Typicals
              PROVE  IN_s' # RstCmd \/ trigger' \/ sent' = OUT_s'
  BY DEF DoorKnown
<1>1. TYP_s \in Typicals /\ [Next]_vars
  BY Families
<1>2. IN_s # RstCmd \/ trigger \/ sent = OUT_s
  BY <1>1 DEF DoorKnown
<1>3. CASE Logic
  <2>. DEFINE in == DigIn(IN_s)
              s == Slot(in, OUT_s, AUXIN_s, FALSE)
              r == IF TYP_s = "T21" THEN Souliss_Logic_T21(s) ELSE Souliss_Logic_T22(s)
  <2>1. Tells(s, r)
    <3>1. Tells(s, Souliss_Logic_T21(s)) /\ Tells(s, Souliss_Logic_T22(s))
      BY Tells_T21, Tells_T22
    <3>. QED  BY <3>1
  <2>2. /\ IN_s' = r.in /\ OUT_s' = r.out /\ sent' = sent
        /\ trigger => trigger'
        /\ r.trig => trigger'
    BY <1>3 DEF Logic, SlotLogic
  <2>3. s.in = in /\ s.out = OUT_s
    BY DEF Slot
  <2>4. IN_s # RstCmd => in # RstCmd
    BY DEF DigIn, LimSwitch, RstCmd
  <2>. HIDE DEF r, s, in
  <2>. QED  BY <1>2, <2>1, <2>2, <2>3, <2>4 DEF Tells, RstCmd
<1>4. CASE Timer
  <2>1. UNCHANGED <<IN_s, OUT_s, sent, trigger>>
    BY <1>4 DEF Timer, SlotTimer, Slot
  <2>. QED  BY <1>2, <2>1
<1>5. CASE User
  <2>1. IN_s' \in Commands
    BY <1>5 DEF User, Command
  <2>. QED  BY <2>1, DoorCodes
<1>6. CASE Publish
  BY <1>6 DEF Publish, Communicate
<1>7. CASE Move \/ UNCHANGED vars
  <2>1. UNCHANGED <<IN_s, OUT_s, sent, trigger>>
    BY <1>7 DEF Move, vars
  <2>. QED  BY <1>2, <2>1
<1>. QED  BY <1>1, <1>3, <1>4, <1>5, <1>6, <1>7 DEF Next

\* A call of the logic of a light publishes what it does.
LEMMA Tells_Light ==
  ASSUME TYP_s \in Publishing, TYP_s = "T12" => OUT_s \in {0, 1, 240, 241},
         NEW in, NEW aux, NEW r, r = Light!LogicOf(TYP_s, Light!Whole(in, aux))
  PROVE  r.trig \/ r.out = OUT_s
<1>1. CASE TYP_s = "T11"
  BY <1>1, LogicOfTimed, Logic_T11
<1>2. CASE TYP_s = "T12"
  BY <1>2, LogicOfTimed, Logic_T12
<1>3. CASE TYP_s = "T1B"
  BY <1>3, LogicOfTimed, Logic_T1B
<1>4. CASE TYP_s = "T13"
  <2>1. r = Light!Souliss_Logic_T13(Light!Whole(in, aux))
    BY <1>4 DEF Light!LogicOf
  <2>. QED  BY <2>1, Tells_T13
<1>5. CASE TYP_s = "T15"
  <2>1. r = Light!Souliss_Logic_T15(Light!Whole(in, aux))
    BY <1>5 DEF Light!LogicOf
  <2>. QED  BY <2>1, Tells_T15
<1>6. CASE TYP_s = "T16"
  <2>1. r = Light!Souliss_Logic_T16(Light!Whole(in, aux))
    BY <1>6 DEF Light!LogicOf
  <2>. QED  BY <2>1, Tells_T16
<1>7. CASE TYP_s = "T1A"
  <2>1. r = Light!Souliss_Logic_T1A(Light!Whole(in, aux))
    BY <1>7 DEF Light!LogicOf
  <2>. QED  BY <2>1, Tells_T1A
<1>. QED  BY <1>1, <1>2, <1>3, <1>4, <1>5, <1>6, <1>7 DEF Publishing

LEMMA LightKnown_Next ==
  ASSUME LightKnown, TimedInv, [MCNext]_allVars
  PROVE  LightKnown'
<1>. SUFFICES ASSUME TYP_s' \in Publishing
              PROVE  trigger' \/ sent' = OUT_s' \/ (TYP_s' = "T16" /\ OUT_s' = 241)
  BY LightCodes DEF LightKnown
<1>1. /\ TYP_s' = TYP_s /\ TYP_s \in Publishing
      /\ Light!Next \/ UNCHANGED <<slotVars, lightVars>>
  <2>1. Publishing \subseteq Light!Typicals
    BY DEF Publishing, Light!Typicals
  <2>. QED  BY <2>1, Families
<1>2. trigger \/ sent = OUT_s \/ (TYP_s = "T16" /\ OUT_s = 241)
  BY <1>1, LightCodes DEF LightKnown
<1>3. TYP_s = "T12" => OUT_s \in {0, 1, 240, 241}
  BY DEF TimedInv, Inv_T12
<1>4. CASE Light!Logic
  <2>. DEFINE r == Light!LogicOf(TYP_s, Light!Whole(IN_s, AUXIN_s))
  <2>1. r.trig \/ r.out = OUT_s
    BY <1>1, <1>3, Tells_Light
  <2>2. /\ OUT_s' = r.out /\ sent' = sent
        /\ trigger => trigger'
        /\ r.trig => trigger'
    BY <1>4 DEF Light!Logic, Light!RunLogic, Light!SlotLogic
  <2>. HIDE DEF r
  <2>. QED  BY <1>1, <1>2, <2>1, <2>2
<1>5. CASE Light!Sensor
  <2>1. TYP_s = "T12"
    BY <1>5 DEF Light!Sensor
  <2>2. PICK c \in Light!SensorCmds, d \in Light!Delays :
          LET r == Light!LogicOf("T12", Light!Whole(c, IF d = 0 THEN AUXIN_s ELSE d))
          IN  OUT_s' = r.out /\ (trigger => trigger') /\ (r.trig => trigger')
    BY <1>5 DEF Light!Sensor
  <2>. DEFINE r == Light!LogicOf("T12", Light!Whole(c, IF d = 0 THEN AUXIN_s ELSE d))
  <2>3. OUT_s' = r.out /\ (trigger => trigger') /\ (r.trig => trigger')
    BY <2>2
  <2>4. r.trig \/ r.out = OUT_s
    BY <1>1, <1>3, <2>1, Tells_Light
  <2>5. sent' = sent
    BY <1>5 DEF Light!Sensor
  <2>. HIDE DEF r
  <2>. QED  BY <1>2, <2>1, <2>3, <2>4, <2>5
<1>6. CASE Light!Timer
  <2>. DEFINE r == Light!TimerOf(TYP_s, Light!Whole(IN_s, AUXIN_s))
  <2>1. OUT_s' = r.out /\ sent' = sent /\ (trigger => trigger')
    BY <1>6 DEF Light!Timer, Light!SlotTimer
  <2>2. r.out = OUT_s \/ (TYP_s = "T16" /\ r.out = 241)
    <3>1. CASE TYP_s = "T11"
      BY <3>1, LogicOfTimed DEF Light!Souliss_T11_Timer, Light!Whole
    <3>2. CASE TYP_s = "T12"
      BY <3>2, LogicOfTimed DEF Light!Souliss_T12_Timer, Light!Whole
    <3>3. CASE TYP_s = "T16"
      <4>1. r = Light!Souliss_T16_Timer(Light!Whole(IN_s, AUXIN_s))
        BY <3>3 DEF Light!TimerOf
      <4>. DEFINE w == Light!Whole(IN_s, AUXIN_s)
                  g == IF w.in > Light!Timed
                       THEN [w EXCEPT !.out = Light!GoodNight, !.in = Light!RstCmd,
                                      !.inc = Light!Dark]
                       ELSE w
      <4>2. w.out = OUT_s
        BY DEF Light!Whole
      <4>3. g.out = OUT_s \/ g.out = 241
        BY <4>2, LightCodes
      <4>4. r = g \/ \E in : r = [g EXCEPT !.in = in]
        BY <4>1 DEF Light!Souliss_T16_Timer
      <4>5. r.out = g.out
        BY <4>4 DEF Light!Whole
      <4>. HIDE DEF g, r
      <4>. QED  BY <3>3, <4>3, <4>5
    <3>4. CASE TYP_s \notin {"T11", "T12", "T16"}
      <4>1. r = Light!Whole(IN_s, AUXIN_s)
        BY <1>1, <3>4 DEF Light!TimerOf, Publishing
      <4>. QED  BY <4>1 DEF Light!Whole
    <3>. QED  BY <3>1, <3>2, <3>3, <3>4
  <2>. HIDE DEF r
  <2>. QED  BY <1>1, <1>2, <2>1, <2>2
<1>7. CASE Light!Publish
  BY <1>7 DEF Light!Publish, Light!Communicate
<1>8. CASE Light!StepRelay \/ Light!ByHand
  BY <1>1, <1>8 DEF Light!StepRelay, Light!ByHand, Publishing
<1>9. CASE Light!User \/ UNCHANGED <<slotVars, lightVars>>
  <2>1. UNCHANGED <<OUT_s, sent, trigger>>
    BY <1>9 DEF Light!User, Light!Command, slotVars
  <2>. QED  BY <1>1, <1>2, <2>1
<1>. QED  BY <1>1, <1>4, <1>5, <1>6, <1>7, <1>8, <1>9 DEF Light!Next

LEMMA KnownInv_Always == MCSpec => []KnownInv
<1>1. TimedInv /\ KnownInv /\ [MCNext]_allVars => KnownInv'
  BY DoorKnown_Next, LightKnown_Next DEF KnownInv
<1>. QED  BY <1>1, KnownInv_Init, TimedInv_Always, PTL DEF MCSpec

\* A slot holds one of the typicals of the library.
LEMMA SlotTyped == MCSpec => [](TYP_s \in Typicals \cup Light!Typicals \cup {"T31"} \cup Analog!Typicals)
<1>. DEFINE Typed == TYP_s \in Typicals \cup Light!Typicals \cup {"T31"} \cup Analog!Typicals
<1>1. MCInit => Typed
  BY DEF MCInit, Init, SlotInit, Light!Init, Light!SlotInit, Thermo!Init, Thermo!SlotInit,
         Analog!Init
<1>2. Typed /\ [MCNext]_allVars => Typed'
  BY Families
<1>. HIDE DEF Typed
<1>3. MCSpec => []Typed
  BY <1>1, <1>2, PTL DEF MCSpec
<1>. QED  BY <1>3 DEF Typed

\* With no command pending and no notification due, the subscribers know the
\* state of every typical that publishes all it does.
THEOREM OutputsKnownHolds == MCSpec => []OutputsKnown
<1>1. /\ KnownInv /\ AnalogInv
      /\ TYP_s \in Typicals \cup Light!Typicals \cup {"T31"} \cup Analog!Typicals
      => OutputsKnown
  <2>. SUFFICES ASSUME KnownInv, AnalogInv,
                       TYP_s \in Typicals \cup Light!Typicals \cup {"T31"} \cup Analog!Typicals,
                       IN_s = RstCmd, ~ trigger, TYP_s \notin Silent
                PROVE  sent = OUT_s
    BY DEF OutputsKnown, Quiet
  <2>1. CASE TYP_s \in Typicals
    BY <2>1 DEF KnownInv, DoorKnown
  <2>2. CASE TYP_s \in Light!Typicals
    <3>1. TYP_s \in Publishing /\ (TYP_s = "T16" => OUT_s # Light!GoodNight)
      BY <2>2 DEF Silent, Light!Typicals, Publishing
    <3>. QED  BY <3>1 DEF KnownInv, LightKnown
  <2>3. CASE TYP_s \in Analog!Typicals
    <3>1. OUT_s # Analog!NaN
      BY <2>3 DEF Silent
    <3>. QED  BY <2>3, <3>1 DEF AnalogInv
  <2>. QED  BY <2>1, <2>2, <2>3 DEF Silent
<1>. QED  BY <1>1, KnownInv_Always, AnalogInv_Always, SlotTyped, PTL
=============================================================================
