-------------------------------- MODULE T2n --------------------------------
(***************************************************************************)
(* Motorized devices with limit switches (base/T2n.cpp): T21, a garage     *)
(* door, and T22, a curtain that may stop in the middle.  One slot of the  *)
(* memory map is modelled, of either typical.                              *)
(*                                                                         *)
(* The limit switches write the mailbox IN_s like the users do.  OUT_s     *)
(* drives the coils.  AUXIN_s is a timer, and for T21 the direction before *)
(* the last stop.                                                          *)
(***************************************************************************)
EXTENDS Slot

CONSTANT Travel   \* the door is at 0 (closed) .. Travel (open)

ASSUME T2nConstants == Travel \in Nat /\ Travel > 0

VARIABLES
  InPin,   \* the limit switches whose pin is remembered as set
  pos,     \* where the door is
  ran      \* history: timer rounds of the coil since its last command

doorVars == <<InPin, pos, ran>>
vars == <<TYP_s, IN_s, OUT_s, AUXIN_s, trigger, sent, due, commands, InPin, pos, ran>>

Typicals == {"T21", "T22"}

Dir == {"Close", "Open"}
Opposite(d) == IF d = "Close" THEN "Open" ELSE "Close"

\* Typicals.h: commands (IN_s), limit switch events (IN_s) and states (OUT_s).
Cmd_SW(d)    == IF d = "Close" THEN 1 ELSE 2
StopCmd == 4
ToggleCmd == 8
Cmd_Local(d) == IF d = "Close" THEN 18 ELSE 16
LimSwitch(d) == IF d = "Close" THEN 20 ELSE 22

Coil_Off == 0
Coil(d)  == IF d = "Close" THEN 1 ELSE 2
Coil_Stop == 3
State(d) == IF d = "Close" THEN 8 ELSE 16
NoLimSwitch == 32

Timer_Off == 160
Timer_Val == 192
TimedStop_Off == 192
TimedStop_Val == 194

Coils == {Coil(d) : d \in Dir}
Commands == {StopCmd, ToggleCmd} \cup {Cmd_SW(d) : d \in Dir} \cup {Cmd_Local(d) : d \in Dir}
Outputs == {Coil_Off, Coil_Stop, NoLimSwitch} \cup Coils \cup {State(d) : d \in Dir}

\* The coil may stay on this long without a command.
RunLimit == (Timer_Val - Timer_Off) + (TimedStop_Val - TimedStop_Off)

IsTemporaryStop(aux) == TimedStop_Off < aux /\ aux <= TimedStop_Val
-----------------------------------------------------------------------------
(* The logic: what one call makes of a slot.                               *)

\* Mutant: an end of movement is not published.
EndAt_Silent(d, s) == Slot(RstCmd, State(d), s.aux, FALSE)

\* A limit switch, or the timer, ends a movement.
EndAt(d, s) == Slot(RstCmd, State(d), s.aux, TRUE)

\* Mutant: a toggle does not go through the stop.
Command_T21_NoStop(s) ==
  LET go(d) == Slot(RstCmd, Coil(d), Timer_Val, TRUE)
      stop(aux) == Slot(s.in, Coil_Stop, aux, FALSE)
  IN  IF s.in = ToggleCmd
      THEN IF s.out = Coil("Open") \/ s.out = State("Open") THEN go("Close") ELSE go("Open")
      ELSE IF \E d \in Dir : s.in = Cmd_Local(d) /\ s.out \in {Coil_Stop, State(Opposite(d))}
           THEN go(CHOOSE d \in Dir : s.in = Cmd_Local(d))
      ELSE stop(s.aux)

\* T21: what a command makes of OUT_s and AUXIN_s.  A button against the
\* movement stops it and stays in IN_s: the next round goes the other way.
Command_T21(s) ==
  LET go(d) == Slot(RstCmd, Coil(d), Timer_Val, TRUE)
      stop(aux) == Slot(s.in, Coil_Stop, aux, FALSE)
  IN  IF s.in = ToggleCmd
      THEN IF s.out \in Coils THEN stop(s.out)
           ELSE IF s.aux = Coil("Close") \/ s.out = State("Close") THEN go("Open")
           ELSE IF s.aux = Coil("Open") \/ s.out = State("Open") THEN go("Close")
           ELSE go("Open")
      ELSE IF \E d \in Dir : s.in = Cmd_Local(d) /\ s.out \in {Coil_Stop, State(Opposite(d))}
           THEN go(CHOOSE d \in Dir : s.in = Cmd_Local(d))
      ELSE stop(s.aux)

Commands_T21 == {ToggleCmd, StopCmd} \cup {Cmd_Local(d) : d \in Dir}

\* Mutant: only the switch ends the movement.
AtEnd_T21_NoTimer(d, s) == s.in = LimSwitch(d)

\* Mutant: the timer ends the movement a round early.
AtEnd_T21_Early(d, s) == s.in = LimSwitch(d) \/ (s.out = Coil(d) /\ s.aux = Timer_Off + 1)

AtEnd_T21(d, s) == s.in = LimSwitch(d) \/ (s.out = Coil(d) /\ s.aux = Timer_Off)

Souliss_Logic_T21(s) ==
  IF s.in \in Commands_T21 THEN Command_T21(s)
  ELSE IF AtEnd_T21("Close", s) THEN EndAt("Close", s)
  ELSE IF AtEnd_T21("Open", s) THEN EndAt("Open", s)
  ELSE s

\* T22: a toggle becomes the command for the other direction.
Converted(s) ==
  IF s.in # ToggleCmd THEN s
  ELSE [s EXCEPT !.in = IF s.out \in {Coil("Open"), State("Open")}
                        THEN Cmd_SW("Close") ELSE Cmd_SW("Open")]

\* Mutant: a temporary stop is like any other.
MayStart_Any(d, s) ==
  \/ s.out = Coil_Stop
  \/ s.out \in {State(Opposite(d)), NoLimSwitch}

MayStart(d, s) ==
  \/ s.out = Coil_Stop /\ ~ IsTemporaryStop(s.aux)
  \/ s.out \in {State(Opposite(d)), NoLimSwitch}

\* A local button: start, or stop whatever runs.
Local_T22(d, s) == [s EXCEPT !.out = IF MayStart(d, s) THEN Coil(d) ELSE Coil_Stop]

\* A software command: start, or stop for a while what runs the other way
\* and leave the command in IN_s.
Software_T22(d, s) ==
  IF MayStart(d, s) THEN [s EXCEPT !.out = Coil(d)]
  ELSE IF s.out = Coil(Opposite(d))
       THEN [s EXCEPT !.out = Coil_Stop, !.aux = TimedStop_Val]
  ELSE IF s.aux = TimedStop_Off THEN [s EXCEPT !.out = Coil(d)]
  ELSE s

\* The command is done, and the timer set, unless the stop is a temporary one.
Issued_T22(s) ==
  IF IsTemporaryStop(s.aux) THEN s ELSE Slot(RstCmd, s.out, Timer_Val, TRUE)

\* Mutant: only the switch ends the movement.
AtEnd_T22_NoTimer(d, s) ==
  s.in = LimSwitch(d) /\ s.out \notin {Coil(Opposite(d)), State(d)}

AtEnd_T22(d, s) ==
  \/ s.in = LimSwitch(d) /\ s.out \notin {Coil(Opposite(d)), State(d)}
  \/ s.out = Coil(d) /\ s.aux = Timer_Off

Decide_T22(s) ==
  IF s.in = StopCmd THEN Issued_T22([s EXCEPT !.out = Coil_Stop])
  ELSE IF \E d \in Dir : s.in = Cmd_Local(d)
       THEN Issued_T22(Local_T22(CHOOSE d \in Dir : s.in = Cmd_Local(d), s))
  ELSE IF \E d \in Dir : s.in = Cmd_SW(d)
       THEN Issued_T22(Software_T22(CHOOSE d \in Dir : s.in = Cmd_SW(d), s))
  ELSE IF AtEnd_T22("Close", s) THEN EndAt("Close", s)
  ELSE IF AtEnd_T22("Open", s) THEN EndAt("Open", s)
  ELSE IF s.out = Coil_Stop /\ s.aux = Timer_Off
       THEN Slot(RstCmd, NoLimSwitch, s.aux, TRUE)
  ELSE s

Souliss_Logic_T22(s) == Decide_T22(Converted(s))
-----------------------------------------------------------------------------
Init ==
  /\ \E t \in Typicals : SlotInit(t, IF t = "T22" THEN Coil_Stop ELSE Coil_Off)
  /\ InPin = {}
  /\ pos \in 0 .. Travel
  /\ ran = 0

Pressed(d) == pos = (IF d = "Close" THEN 0 ELSE Travel)

\* Souliss_DigIn on both switches: a pin that was not remembered as set
\* writes its event; the sketch reads the open switch first.
Edge(d) == Pressed(d) /\ d \notin InPin
DigIn(in) ==
  IF Edge("Close") THEN LimSwitch("Close")
  ELSE IF Edge("Open") THEN LimSwitch("Open") ELSE in

\* One fast phase: read the switches, run the logic, drive the coils.
Logic ==
  LET in == DigIn(IN_s)
      s == Slot(in, OUT_s, AUXIN_s, FALSE)
      r == IF TYP_s = "T21" THEN Souliss_Logic_T21(s) ELSE Souliss_Logic_T22(s)
  IN  /\ SlotLogic(r)
      /\ InPin' = {d \in Dir : Pressed(d)}
      /\ ran' = IF in \in Commands \/ r.out \notin Coils THEN 0 ELSE ran
      /\ pos' = pos

\* Souliss_T21_Timer and Souliss_T22_Timer.
Counts ==
  IF TYP_s = "T21" THEN AUXIN_s > Timer_Off
  ELSE (AUXIN_s > Timer_Off /\ AUXIN_s <= Timer_Val) \/ IsTemporaryStop(AUXIN_s)

Timer ==
  /\ SlotTimer(Slot(IN_s, OUT_s, IF Counts THEN AUXIN_s - 1 ELSE AUXIN_s, FALSE))
  /\ ran' = IF OUT_s \in Coils THEN Capped(ran, RunLimit + 1) ELSE 0
  /\ UNCHANGED <<InPin, pos>>

User == (\E c \in Commands : Command(c)) /\ UNCHANGED doorVars

Publish == Communicate /\ UNCHANGED doorVars

\* The door moves: driven, pushed by hand, or bouncing at its end.
Move ==
  /\ pos' \in {pos - 1, pos + 1} \cap (0 .. Travel)
  /\ UNCHANGED <<TYP_s, IN_s, OUT_s, AUXIN_s, trigger, sent, due, commands, InPin, ran>>

Next == Logic \/ Timer \/ User \/ Publish \/ Move

Spec == Init /\ [][Next]_vars
-----------------------------------------------------------------------------
(* Properties.                                                             *)

\* Every variable keeps its type.
TypeOK ==
  /\ TYP_s \in Typicals
  /\ IN_s \in {RstCmd} \cup Commands \cup {LimSwitch(d) : d \in Dir}
  /\ OUT_s \in Outputs
  /\ AUXIN_s \in {0} \cup Coils \cup (Timer_Off .. TimedStop_Val)
  /\ InPin \subseteq Dir
  /\ trigger \in BOOLEAN
  /\ sent \in Outputs
  /\ pos \in 0 .. Travel
  /\ due \in BOOLEAN
  /\ ran \in 0 .. RunLimit + 1
  /\ commands \in 0 .. MaxCommands

\* Whatever the switches do, a coil is never on for longer than its timer
\* without a command, even if a movement starts inside a temporary stop.
RunBounded == ran <= RunLimit

\* "Every state change goes through the STOP command for security reason":
\* no round replaces one direction by the other.
NoReversal ==
  [][\A d \in Dir : TYP_s \in Typicals /\ OUT_s = Coil(d) => OUT_s' # Coil(Opposite(d))]_vars

\* While a reversal holds the motor still, no command, of any origin,
\* starts it.
TemporaryStopHolds ==
  [][OUT_s = Coil_Stop /\ IsTemporaryStop(AUXIN_s) /\ TYP_s \in Typicals =>
       OUT_s' \notin Coils]_vars

\* The door is reported open, or closed, because that switch is pressed now
\* or because the movement towards it ran for its whole time; an old switch
\* event left in IN_s never does it.
EndStateJustified ==
  [][\A d \in Dir : TYP_s \in Typicals /\ OUT_s # State(d) /\ OUT_s' = State(d) =>
       Pressed(d) \/ (OUT_s = Coil(d) /\ AUXIN_s = Timer_Off)]_vars
=============================================================================
