-------------------------------- MODULE T1n --------------------------------
(***************************************************************************)
(* Lights (base/T1n.cpp): T11 on/off with a timer, T12 with an AUTO mode   *)
(* for a sensor, T13 input, T14 pulse, T15 and T16 RGB, T18 step relay,    *)
(* T19 dimmer, T1A pass through, T1B held on by a phone in range.          *)
(*                                                                         *)
(* Every logic takes the slot and makes a new one of it, once per fast     *)
(* phase.  T15, T16 and T19 use the slots that follow, one per channel.    *)
(***************************************************************************)
EXTENDS Slot, FiniteSetsExt

VARIABLES
  IN_c, OUT_c, AUXIN_c,   \* the slots that follow, one per colour
  contact,                \* T18: the auxiliary contact of the step relay
  InPin_c,                \* T18: what the pin of the contact last wrote
  byUser,                 \* history: IN_s holds what a user wrote
  left                    \* history: rounds left of the last timed command, or None

channels == <<IN_c, OUT_c, AUXIN_c>>
relay == <<contact, InPin_c>>
lightVars == <<IN_c, OUT_c, AUXIN_c, contact, InPin_c, byUser, left>>

Typicals == {"T11", "T12", "T13", "T14", "T15", "T16", "T18", "T19", "T1A", "T1B"}

Channel == 1 .. 3
Dark == [i \in Channel |-> 0]

\* Typicals.h: commands (IN_s) and states (OUT_s).
ToggleCmd == 1
OnCmd == 2
OffCmd == 4
AutoCmd == 8
BrightUp == 16
BrightSwitch == 21
BrightDown == 32
Flash == 33
Set == 34
OnFeedback == 35
OffFeedback == 36
Timed == 48
PositionOnCmd == 49
Timed_StdVal == 64

OffCoil == 0
OnCoil == 1
AutoState == 240
GoodNight == 241
ResetCoil == 161
PulseCoil == 165
LampOn == 1
LampOff == 9

BrightValue == 16
BrightDefault == 170
BrightStep == 10
MaxBright == 255

\* T19 fades in steps of 255 / (1000 ms / 30 ms), and of BrightDefault /
\* (3000 ms / 30 ms) while a button is held.
RampStep == 7
HoldStep == 1

\* Set the state, publish it if it is new, and reset the command.
Done(s, state) == [s EXCEPT !.in = RstCmd, !.out = state, !.trig = @ \/ s.out # state]

Published(s) == [s EXCEPT !.trig = TRUE]
-----------------------------------------------------------------------------
(* T11, T12, T13, T14.                                                     *)

\* Mutant: an Off leaves the timer running.
T11_OffKeepsTimer(s) ==
  IF s.in > Timed THEN [Done(s, OnCoil) EXCEPT !.aux = s.in]
  ELSE IF s.in = OffCmd \/ s.aux = Timed THEN Done(s, OffCoil)
  ELSE IF s.in = OnCmd THEN Done(s, OnCoil)
  ELSE IF s.in = ToggleCmd
       THEN Published(Done(s, IF s.out = OnCoil THEN OffCoil ELSE OnCoil))
  ELSE s

\* A timed command in IN_s moves to the timer in AUXIN_s.  The end of the
\* timer acts as an Off, and takes the command it finds in IN_s with it.  A
\* toggle leaves the timer running.
Souliss_Logic_T11(s) ==
  IF s.in > Timed THEN [Done(s, OnCoil) EXCEPT !.aux = s.in]
  ELSE IF s.in = OffCmd \/ s.aux = Timed THEN [Done(s, OffCoil) EXCEPT !.aux = 0]
  ELSE IF s.in = OnCmd THEN Done(s, OnCoil)
  ELSE IF s.in = ToggleCmd
       THEN Published(Done(s, IF s.out = OnCoil THEN OffCoil ELSE OnCoil))
  ELSE s

IsAuto(out) == out \in {AutoState, AutoState + OnCoil}
Lit(out) == out \in {OnCoil, AutoState + OnCoil}

\* Mutant: the sensor does not ask for the AUTO mode.
FromSensor_Always(s) == s.in > AutoCmd

FromSensor(s) == s.in > AutoCmd /\ IsAuto(s.out)

\* The value of the sensor stays in IN_s, counts down, and its end at AutoCmd
\* acts as that command.
Souliss_Logic_T12(s) ==
  IF IsAuto(s.out) /\ s.aux > 0
  THEN [s EXCEPT !.out = AutoState, !.trig = @ \/ Lit(s.out)]
  ELSE IF FromSensor(s)
       THEN [s EXCEPT !.out = AutoState + OnCoil, !.trig = @ \/ ~ Lit(s.out)]
  ELSE IF s.in = OffCmd THEN Done(s, OffCoil)
  ELSE IF s.in = OnCmd THEN Done(s, OnCoil)
  ELSE IF s.in = ToggleCmd THEN Published(Done(s, IF Lit(s.out) THEN OffCoil ELSE OnCoil))
  ELSE IF s.in = AutoCmd \/ (s.in = RstCmd /\ s.out = AutoState + OnCoil)
       THEN Published(Done(s, AutoState))
  ELSE [s EXCEPT !.in = RstCmd]

Souliss_Logic_T13(s) ==
  IF s.in = OnCmd THEN Done(s, OnCoil)
  ELSE IF s.in = OffCmd THEN Done(s, OffCoil) ELSE s

\* The pulse lasts until the next round, which does not publish its end.
Souliss_Logic_T14(s) ==
  IF s.in = OnCmd THEN Published(Done(s, OnCoil)) ELSE [s EXCEPT !.out = OffCoil]
-----------------------------------------------------------------------------
(* T15 and T16, the RGB lights.                                            *)

\* Once OUT_s is LampOn and a last state is stored, no command gets through.
Souliss_Logic_T15(s) ==
  LET a == IF s.in = LampOff THEN [s EXCEPT !.auxc[1] = s.out] ELSE s
  IN  IF a.out = LampOn /\ a.auxc[1] # 0
      THEN Published([a EXCEPT !.out = a.auxc[1], !.aux = 1])
      ELSE IF a.in # RstCmd THEN Published([Done(a, a.in) EXCEPT !.aux = 1])
      ELSE a

\* The colour with its strongest channel at the brightness in AUXIN_s.
Lighted(s) ==
  LET base == Max({s.auxc[i] : i \in Channel})
      top == MaxBright - BrightStep - 1
      level(i) == s.auxc[i] + (s.aux - base)
  IN  [s EXCEPT !.outc = [i \in Channel |->
         IF level(i) > top THEN top ELSE IF level(i) < 0 THEN 0 ELSE level(i)]]

SetColour(s) ==
  [s EXCEPT !.outc = s.inc, !.auxc = s.inc, !.inc = Dark, !.out = OnCoil,
            !.aux = Max({s.inc[i] : i \in Channel}), !.in = RstCmd, !.trig = TRUE]

FadeOut_T16(s) ==
  LET c == [i \in Channel |-> IF s.outc[i] > 0 THEN s.outc[i] - 1 ELSE 0]
  IN  [s EXCEPT !.outc = c, !.out = OffCoil, !.trig = TRUE,
                !.in = IF c = Dark THEN RstCmd ELSE @]

SwitchOn_T16(s) ==
  LET a == IF s.auxc = Dark
           THEN [s EXCEPT !.auxc = [i \in Channel |-> MaxBright], !.aux = BrightDefault]
           ELSE s
  IN  Published([Lighted(a) EXCEPT !.out = OnCoil, !.in = RstCmd])

Flashed(s, on) ==
  [s EXCEPT !.outc = [i \in Channel |->
     IF i \in on /\ @[i] = s.auxc[i] THEN 0
     ELSE IF i \in on /\ @[i] = 0 THEN s.auxc[i] ELSE @[i]]]

Switched(v, up) ==
  IF up THEN IF v < 255 - BrightValue THEN v + BrightValue ELSE v
  ELSE IF v > BrightValue THEN v - BrightValue ELSE v

\* Brightness changes keep the state: a light that is off lights up and is
\* still reported as off.
Souliss_Logic_T16(s) ==
  IF s.in = Set THEN SetColour(s)
  ELSE IF s.in = ToggleCmd
       THEN [s EXCEPT !.in = IF s.out = OffCoil THEN OnCmd
                             ELSE IF s.out = OnCoil THEN OffCmd ELSE RstCmd]
  ELSE IF s.in = OffCmd THEN FadeOut_T16(s)
  ELSE IF s.in = OnCmd THEN SwitchOn_T16(s)
  ELSE IF s.in = BrightSwitch /\ s.out \in {OnCoil, OffCoil}
       THEN [s EXCEPT !.outc = [i \in Channel |-> Switched(@[i], s.out = OffCoil)]]
  ELSE IF s.in = BrightUp
       THEN Published([Lighted([s EXCEPT !.aux =
              IF @ < MaxBright - BrightStep THEN @ + BrightStep ELSE @]) EXCEPT !.in = RstCmd])
  ELSE IF s.in = BrightDown
       THEN Published([Lighted([s EXCEPT !.aux =
              IF @ > BrightStep THEN @ - BrightStep ELSE @]) EXCEPT !.in = RstCmd])
  ELSE IF s.in = Flash /\ s.out = OnCoil THEN Flashed(s, Channel)
  ELSE s
-----------------------------------------------------------------------------
(* T18, T19, T1A, T1B.                                                     *)

\* Mutant: a pulse is given whatever the contact says.
MayPulse_Any(s) == s.in \in {ToggleCmd, OnCmd, OffCmd}

MayPulse(s) ==
  \/ s.in = ToggleCmd
  \/ s.in = OnCmd /\ s.out = OffFeedback
  \/ s.in = OffCmd /\ s.out = OnFeedback

\* A pulse that the contact does not answer leaves OUT_s at OffCoil, where
\* only a toggle gets through.
Souliss_Logic_T18(s) ==
  LET r == IF s.in \in {OnFeedback, OffFeedback} THEN Done(s, s.in)
           ELSE IF MayPulse(s) THEN [s EXCEPT !.out = OnCoil, !.aux = PulseCoil]
           ELSE IF s.out = OnCoil /\ s.aux <= ResetCoil THEN [s EXCEPT !.out = OffCoil]
           ELSE s
  IN  [r EXCEPT !.in = RstCmd]

\* An Off of a light that is off stays in IN_s.
FadeOut_T19(s) ==
  LET level == IF s.outc[1] > RampStep THEN s.outc[1] - RampStep ELSE 0
      faded == [s EXCEPT !.outc[1] = level]
  IN  IF s.out # OffCoil /\ level = 0 THEN Done(faded, OffCoil) ELSE faded

FadeIn_T19(s) ==
  LET goal == IF s.auxc[1] = 0 THEN BrightDefault ELSE s.auxc[1]
      level == IF s.outc[1] > goal \/ goal - s.outc[1] < RampStep THEN goal
               ELSE s.outc[1] + RampStep
  IN  [s EXCEPT !.out = OnCoil, !.trig = @ \/ s.out # OnCoil,
                !.auxc[1] = goal, !.outc[1] = level,
                !.in = IF level = goal THEN RstCmd ELSE @]

\* Mutant: a light that is brightened is not declared on.
Brighten_T19_KeepsState(s) ==
  LET level == IF s.outc[1] < 255 - HoldStep THEN s.outc[1] + HoldStep ELSE 255
  IN  Published([s EXCEPT !.outc[1] = level, !.auxc[1] = level])

\* The command stays, for the button is being held.
Brighten_T19(s) ==
  LET level == IF s.outc[1] < 255 - HoldStep THEN s.outc[1] + HoldStep ELSE 255
  IN  Published([s EXCEPT !.outc[1] = level, !.auxc[1] = level, !.out = OnCoil])

Darken_T19(s) ==
  LET level == IF s.outc[1] > BrightValue THEN s.outc[1] - BrightValue ELSE 0
  IN  Published([s EXCEPT !.outc[1] = level, !.out = IF level = 0 THEN OffCoil ELSE @,
                          !.in = RstCmd])

SetLevel_T19(s) ==
  [s EXCEPT !.outc[1] = s.inc[1], !.auxc[1] = s.inc[1], !.inc[1] = RstCmd,
            !.aux = Timed, !.out = OnCoil, !.in = RstCmd]

\* No command: the burst of settings is over when AUXIN_s has counted down.
Idle_T19(s) ==
  IF s.aux > Set THEN [s EXCEPT !.aux = @ - 1]
  ELSE IF s.aux = Set THEN Published([s EXCEPT !.aux = s.out, !.auxc[1] = s.outc[1]])
  ELSE s

Souliss_Logic_T19(s) ==
  IF s.in = ToggleCmd
  THEN [s EXCEPT !.in = IF s.out = OffCoil THEN OnCmd
                        ELSE IF s.out \in {OnCoil, GoodNight} THEN OffCmd ELSE RstCmd]
  ELSE IF s.in = OffCmd THEN FadeOut_T19(s)
  ELSE IF s.in = OnCmd THEN FadeIn_T19(s)
  ELSE IF s.in = BrightSwitch
       THEN IF s.out = OnCoil
            THEN [s EXCEPT !.outc[1] = IF @ > BrightValue THEN @ - BrightValue ELSE 0]
            ELSE IF s.out = OffCoil THEN [s EXCEPT !.outc[1] = Switched(@, TRUE)]
            ELSE s
  ELSE IF s.in = BrightUp THEN Brighten_T19(s)
  ELSE IF s.in = BrightDown THEN Darken_T19(s)
  ELSE IF s.in = Flash THEN IF s.out = OnCoil THEN Flashed(s, {1}) ELSE s
  ELSE IF s.in = Set THEN SetLevel_T19(s)
  ELSE Idle_T19(s)

\* An input that does not change any more is reset, and the output follows.
Souliss_Logic_T1A(s) ==
  IF s.in # s.out THEN Published([s EXCEPT !.out = s.in]) ELSE [s EXCEPT !.in = RstCmd]

\* The timer of T1B counts the rounds of the logic itself.
Souliss_Logic_T1B(s) ==
  LET r == IF s.in = OffCmd THEN [Done(s, OffCoil) EXCEPT !.aux = 0]
           ELSE IF s.in = OnCmd THEN [Done(s, OnCoil) EXCEPT !.aux = 0]
           ELSE IF s.in = PositionOnCmd THEN [Done(s, OnCoil) EXCEPT !.aux = Timed_StdVal]
           ELSE s
  IN  IF r.aux > Timed THEN [r EXCEPT !.aux = @ - 1]
      ELSE IF r.aux # 0 THEN [Done(r, OffCoil) EXCEPT !.aux = 0]
      ELSE r

LogicOf(t, s) ==
  CASE t = "T11" -> Souliss_Logic_T11(s) [] t = "T12" -> Souliss_Logic_T12(s)
    [] t = "T13" -> Souliss_Logic_T13(s) [] t = "T14" -> Souliss_Logic_T14(s)
    [] t = "T15" -> Souliss_Logic_T15(s) [] t = "T16" -> Souliss_Logic_T16(s)
    [] t = "T18" -> Souliss_Logic_T18(s) [] t = "T19" -> Souliss_Logic_T19(s)
    [] t = "T1A" -> Souliss_Logic_T1A(s) [] t = "T1B" -> Souliss_Logic_T1B(s)
-----------------------------------------------------------------------------
(* The timers.                                                             *)

Souliss_T11_Timer(s) == IF s.aux > Timed THEN [s EXCEPT !.aux = @ - 1] ELSE s

\* The delay in AUXIN_s first, then the sensor's time in IN_s.
Souliss_T12_Timer(s) ==
  IF s.aux > 0 THEN [s EXCEPT !.aux = @ - 1]
  ELSE IF s.in > AutoCmd THEN [s EXCEPT !.in = @ - 1] ELSE s

\* Good night: darker round by round, then off; a command in IN_s is lost.
Souliss_T16_Timer(s) ==
  LET g == IF s.in > Timed THEN [s EXCEPT !.out = GoodNight, !.in = RstCmd, !.inc = Dark]
           ELSE s
  IN  IF g.out # GoodNight THEN g
      ELSE [g EXCEPT !.in = IF g.aux <= BrightStep THEN OffCmd ELSE BrightDown]

Souliss_T18_Timer(s) == IF s.aux > ResetCoil THEN [s EXCEPT !.aux = @ - 1] ELSE s

\* Good night again: IN_s, by now the reset command, overwrites the timer it
\* has set the round before, so that it wraps around to 255.
Souliss_T19_Timer(s) ==
  IF ~ (s.in > Timed \/ s.aux > Timed) THEN s
  ELSE LET level == IF s.outc[1] > 0 THEN s.outc[1] - 1 ELSE 0
           aux == (s.in - 1) % 256
       IN  [s EXCEPT !.aux = aux, !.out = GoodNight, !.outc[1] = level,
                     !.in = IF aux = Timed \/ level = 0 THEN OffCmd ELSE RstCmd]

TimerOf(t, s) ==
  CASE t = "T11" -> Souliss_T11_Timer(s) [] t = "T12" -> Souliss_T12_Timer(s)
    [] t = "T16" -> Souliss_T16_Timer(s) [] t = "T18" -> Souliss_T18_Timer(s)
    [] t = "T19" -> Souliss_T19_Timer(s) [] OTHER -> s
-----------------------------------------------------------------------------
(* The sketch around them.                                                 *)

\* No time is running: none was asked for, or it was cancelled.
None == -1

\* Bounds: the timed commands, the times of the sensor and its delay, and
\* the colours the users choose from.
TimedCmds == {Timed + 1, Timed + 3}
SensorCmds == {AutoCmd + 1, AutoCmd + 3}
Delays == {0, 2}
Colours == {<<30, 12, 0>>}

Bright == {ToggleCmd, OnCmd, OffCmd, BrightUp, BrightSwitch, BrightDown, Flash, Set, Timed + 2}

UserCommands(t) ==
  CASE t = "T11" -> {ToggleCmd, OnCmd, OffCmd} \cup TimedCmds
    [] t = "T12" -> {RstCmd, ToggleCmd, OnCmd, OffCmd, AutoCmd}
    [] t = "T13" -> {OnCmd, OffCmd}
    [] t = "T14" -> {OnCmd}
    [] t = "T15" -> {LampOn, LampOff, 2}
    [] t \in {"T16", "T19"} -> Bright
    [] t = "T18" -> {ToggleCmd, OnCmd, OffCmd}
    [] t = "T1A" -> {1, 5}
    [] t = "T1B" -> {OnCmd, OffCmd, PositionOnCmd}

Init ==
  /\ \E t \in Typicals : SlotInit(t, OffCoil)
  /\ IN_c = Dark /\ OUT_c = Dark /\ AUXIN_c = Dark
  /\ contact \in BOOLEAN
  /\ InPin_c = RstCmd
  /\ byUser = FALSE
  /\ left = None

Whole(in, aux) ==
  [in |-> in, out |-> OUT_s, aux |-> aux, trig |-> FALSE,
   inc |-> IN_c, outc |-> OUT_c, auxc |-> AUXIN_c]

ChannelsOf(r) == IN_c' = r.inc /\ OUT_c' = r.outc /\ AUXIN_c' = r.auxc

Less(n) == IF n > 0 THEN n - 1 ELSE n

\* One call of the logic with in and aux in the slot.
RunLogic(in, aux) ==
  LET r == LogicOf(TYP_s, Whole(in, aux))
  IN  /\ SlotLogic(r)
      /\ ChannelsOf(r)
      /\ byUser' = (byUser /\ r.in = IN_s /\ r.in # RstCmd)
      /\ left' = CASE TYP_s = "T11" /\ in > Timed -> in - Timed
                   [] TYP_s = "T1B" /\ in = PositionOnCmd -> Timed_StdVal - Timed - 1
                   [] TYP_s = "T11" /\ in = OffCmd -> None
                   [] TYP_s = "T1B" /\ in \in {OnCmd, OffCmd} -> None
                   [] TYP_s = "T1B" /\ in \notin {OnCmd, OffCmd, PositionOnCmd} -> Less(left)
                   [] OTHER -> left

\* Bound: the phases of a dimmer take turns, for its timer in AUXIN_s counts
\* logic and timer rounds alike; the other typicals have any rate.
TakesTurns == TYP_s = "T19" => ~ due

\* One fast phase: nothing new at the pins.
Logic == TYP_s # "T18" /\ TakesTurns /\ RunLogic(IN_s, AUXIN_s) /\ UNCHANGED relay

\* T12: the sensor writes IN_s just before the logic, over what is there.
\* The sketch may ask for a delay when the light is not lit.
Sensor ==
  /\ TYP_s = "T12"
  /\ commands < MaxCommands
  /\ \E c \in SensorCmds, d \in Delays :
       /\ d = 0 \/ OUT_s = AutoState
       /\ LET r == LogicOf("T12", Whole(c, IF d = 0 THEN AUXIN_s ELSE d))
          IN  /\ IN_s' = r.in /\ OUT_s' = r.out /\ AUXIN_s' = r.aux
              /\ trigger' = (trigger \/ r.trig)
              /\ ChannelsOf(r)
       /\ left' = c - AutoCmd
  /\ byUser' = FALSE
  /\ due' = TRUE
  /\ commands' = commands + 1
  /\ UNCHANGED <<TYP_s, sent>> /\ UNCHANGED relay

\* T18: the contact writes IN_s just before the logic, when it has changed.
DigIn2State(in) ==
  LET now == IF contact THEN OnFeedback ELSE OffFeedback
  IN  IF InPin_c = now THEN in ELSE now

\* T18: the coil is driven by OUT_s; the relay steps when the coil goes on,
\* unless it misses the pulse.
StepRelay ==
  /\ TYP_s = "T18"
  /\ RunLogic(DigIn2State(IN_s), AUXIN_s)
  /\ InPin_c' = IF contact THEN OnFeedback ELSE OffFeedback
  /\ contact' \in IF OUT_s # OnCoil /\ OUT_s' = OnCoil THEN BOOLEAN ELSE {contact}

Timer ==
  LET r == TimerOf(TYP_s, Whole(IN_s, AUXIN_s))
  IN  /\ SlotTimer(r)
      /\ ChannelsOf(r)
      /\ left' = IF TYP_s = "T11" \/ (TYP_s = "T12" /\ AUXIN_s = 0) THEN Less(left) ELSE left
      /\ byUser' = (byUser /\ r.in = IN_s)
      /\ UNCHANGED relay

\* Bound: a dimmer, with its 256 levels, gets one command less, and no
\* property reads what its subscribers know.
FewCommands == TYP_s = "T19" => commands < MaxCommands - 1

User ==
  /\ FewCommands
  /\ \E c \in UserCommands(TYP_s) :
       /\ Command(c)
       /\ IF TYP_s \in {"T16", "T19"} /\ c = Set THEN IN_c' \in Colours ELSE IN_c' = IN_c
  /\ byUser' = TRUE
  /\ UNCHANGED <<OUT_c, AUXIN_c, left>> /\ UNCHANGED relay

\* The step relay is also worked by hand.
ByHand ==
  /\ TYP_s = "T18"
  /\ commands < MaxCommands
  /\ commands' = commands + 1
  /\ contact' = ~ contact
  /\ UNCHANGED <<TYP_s, IN_s, OUT_s, AUXIN_s, trigger, sent, due, InPin_c, byUser, left>>
  /\ UNCHANGED channels

Publish == TYP_s # "T19" /\ Communicate /\ UNCHANGED lightVars

Next == Logic \/ Sensor \/ StepRelay \/ Timer \/ User \/ ByHand \/ Publish

Spec == Init /\ [][Next]_<<slotVars, lightVars>>
-----------------------------------------------------------------------------
(* Properties.                                                             *)

\* A light that is on for a time stays on for all of it, however the timer,
\* new timed commands, the sensor and its delay interleave: without a user's
\* command it goes off when the last time asked for has run out, and a light
\* whose time an Off has ended does not go off at all.
NotEarly ==
  [][Lit(OUT_s) /\ ~ Lit(OUT_s') /\ TYP_s \in {"T11", "T12", "T1B"} =>
       byUser \/ left = 0]_<<slotVars, lightVars>>

\* "Such events have no effect if the AUTO mode is not active": a light in
\* manual mode is changed by its users only, and neither the sensor nor what
\* its countdown leaves in the mailbox takes it back to AUTO.
ManualHolds ==
  [][TYP_s = "T12" /\ ~ IsAuto(OUT_s) /\ OUT_s' # OUT_s => byUser]_<<slotVars, lightVars>>

\* An On never steps a relay that is on, nor an Off one that is off, worked
\* by hand or not: the contact is read between the command and the pulse.
PulseHonest ==
  [][TYP_s = "T18" /\ OUT_s # OnCoil /\ OUT_s' = OnCoil =>
       (IN_s = OnCmd => ~ contact) /\ (IN_s = OffCmd => contact)]_<<slotVars, lightVars>>

\* A dimmer is declared off when it is dark, and while it is declared off
\* only a bright switch gives it light.
OffIsDark ==
  [][TYP_s = "T19" /\ OUT_s' = OffCoil =>
       \/ OUT_c'[1] = 0
       \/ OUT_s = OffCoil /\ (OUT_c'[1] <= OUT_c[1] \/ IN_s = BrightSwitch)]_<<slotVars, lightVars>>

\* Something that ends by itself: a time, a pulse, a good night, a ramp.
\* The good night of T19 is not in the list, for it does not end.
Ongoing ==
  CASE TYP_s = "T11" -> OUT_s = OnCoil /\ AUXIN_s > Timed
    [] TYP_s = "T12" -> OUT_s = AutoState + OnCoil
    [] TYP_s \in {"T14", "T18"} -> OUT_s = OnCoil
    [] TYP_s = "T16" -> OUT_s = GoodNight
    [] TYP_s = "T19" -> IN_s = OnCmd
    [] TYP_s = "T1B" -> AUXIN_s # 0
    [] OTHER -> FALSE
=============================================================================
