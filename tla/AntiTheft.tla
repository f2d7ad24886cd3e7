----------------------------- MODULE AntiTheft -----------------------------
(***************************************************************************)
(* A distributed anti-theft (base/T4n.cpp, Souliss_Watchdog, and the       *)
(* three sketches examples/wireless/e03_AntiTheft).                        *)
(*                                                                         *)
(* Node 0 is the main (T41), the others are peers (T42).  A peer that sees *)
(* an intruder writes Alarm into the input of the main.  A watchdog runs   *)
(* around the ring of all nodes: each kicks the next, and a node that is   *)
(* not kicked for some rounds writes Alarm into its own input, by the      *)
(* assignment mInput(ANTITHEFT) = Watchdog(...), which also clears that    *)
(* input in every other round.                                             *)
(*                                                                         *)
(* The input of the main is one byte: sensor, network, watchdog, user and  *)
(* the arming timer write it and the last one wins.                        *)
(***************************************************************************)
EXTENDS Integers

CONSTANTS
  N,            \* nodes in the ring
  WTD_EXPIRE,   \* watchdog: expired                          (code: 0x10)
  WTD_SET,      \* watchdog: value written by a kick          (code: 0x19)
  MAXBYTE,      \* largest value of the watchdog's byte       (code: 255)
  DelayTime,    \* rounds from a delayed alarm to the alarm   (code: 0x50)
  SensorEvent,  \* what the main's sensor writes: Alarm or AlarmDelay
  ArmDelay,     \* rounds of a delayed arming, 0 if the sketch has none
  Dead,         \* nodes that are off from the start
  Lossy,        \* the network loses frames
  UserCommands, \* what the users of this instance write
  MaxCommands,  \* bound: commands of the user
  MaxSensor,    \* bound: changes of the sensors
  MaxFault      \* bound: nodes that die or reboot

\* Typicals.h: inputs and outputs of T41 and T42.
RstCmd == 0
Alarm == 1
AlarmDelay == 2
ReArm == 3
NotArmed == 4
Armed == 5

NoAntitheft == 0
Antitheft == 1
InAlarm == 3
InReArm == 4

ASSUME AntiTheftConstants ==
  /\ N \in Nat /\ N > 1
  /\ {WTD_EXPIRE, WTD_SET, MAXBYTE, DelayTime, ArmDelay} \subseteq Nat
  /\ 0 < WTD_EXPIRE /\ WTD_EXPIRE < WTD_SET /\ WTD_SET <= MAXBYTE
  /\ DelayTime > 0
  /\ SensorEvent \in {Alarm, AlarmDelay}
  /\ Dead \subseteq 1 .. N - 1
  /\ Lossy \in BOOLEAN
  /\ UserCommands \subseteq {ReArm, NotArmed, Armed}
  /\ {MaxCommands, MaxSensor, MaxFault} \subseteq Nat

Node == 0 .. N - 1
Main == 0
PeerNode == Node \ {Main}

\* The ring: whom a node kicks.
chain_address(n) == (n + 1) % N

\* Rounds of silence a kicked watchdog endures.
Patience == WTD_SET - WTD_EXPIRE

AlarmFrame == [to |-> Main, write |-> Alarm]
Kick(n) == [to |-> n, write |-> WTD_SET]

VARIABLES
  input,    \* node: IN of the anti-theft's slot
  output,   \* node: OUT of the anti-theft's slot
  aux,      \* main: AUXIN of the slot, a countdown
  wd,       \* node: IN of the watchdog's slot
  sensor,   \* node: its sensor is active
  InPin,    \* node: the sensor's pin is remembered as set
  due,      \* node: its logic has run since its last watchdog round
  alive,    \* the nodes that run
  net,      \* frames in flight
  silent,   \* history: node's watchdog rounds since it was kicked or booted
  cause,    \* history: a sensor went active, or a node was silent too long
  commands, changes, faults   \* bounds used up

slotVars == <<input, output, aux>>
bounds == <<commands, changes, faults>>
vars == <<slotVars, wd, sensor, InPin, due, alive, net, silent, cause, bounds>>

Init ==
  /\ input = [n \in Node |-> RstCmd]
  /\ output = [n \in Node |-> RstCmd]
  /\ aux = 0
  /\ wd = [n \in Node |-> 0]
  /\ sensor = [n \in Node |-> FALSE]
  /\ InPin = [n \in Node |-> FALSE]
  /\ due = [n \in Node |-> FALSE]
  /\ alive = Node \ Dead
  /\ net = {}
  /\ silent = [n \in Node |-> 0]
  /\ cause = FALSE
  /\ commands = 0 /\ changes = 0 /\ faults = 0
-----------------------------------------------------------------------------
(* The logic: what one round makes of a slot (in, out, aux).               *)

Slot(in, out, x) == [in |-> in, out |-> out, aux |-> x]

\* Mutant: an alarm rearms itself.
Switched_Auto(s) ==
  IF s.in = Armed \/ s.out \in {InReArm, InAlarm} THEN Slot(RstCmd, Antitheft, 0)
  ELSE IF s.in = ReArm THEN Slot(RstCmd, InReArm, 0)
  ELSE IF s.in = NotArmed THEN Slot(RstCmd, NoAntitheft, 0)
  ELSE s

\* Mutant: the input is reset whether or not it is a command.
Switched_Clears(s) ==
  IF s.in = Armed \/ s.out = InReArm THEN Slot(RstCmd, Antitheft, 0)
  ELSE IF s.in = ReArm THEN Slot(RstCmd, InReArm, 0)
  ELSE IF s.in = NotArmed THEN Slot(RstCmd, NoAntitheft, 0)
  ELSE [s EXCEPT !.in = RstCmd]

\* Commands of the user; a rearmed main arms itself in the next round.
Switched(s) ==
  IF s.in = Armed \/ s.out = InReArm THEN Slot(RstCmd, Antitheft, 0)
  ELSE IF s.in = ReArm THEN Slot(RstCmd, InReArm, 0)
  ELSE IF s.in = NotArmed THEN Slot(RstCmd, NoAntitheft, 0)
  ELSE s

\* A delayed alarm starts the countdown, the countdown keeps IN at Alarm.
Delayed(s) ==
  IF s.out = Antitheft /\ s.in = AlarmDelay /\ s.aux = 0
  THEN Slot(Alarm, s.out, DelayTime) ELSE s

\* Mutant: the countdown does not write the input.
Counted_Forgets(s) ==
  IF s.out = Antitheft /\ s.aux # 0 THEN Slot(s.in, s.out, s.aux - 1) ELSE s

Counted(s) ==
  IF s.out = Antitheft /\ s.aux # 0 THEN Slot(Alarm, s.out, s.aux - 1) ELSE s

Raised(s) ==
  IF s.out = Antitheft /\ s.in = Alarm /\ s.aux = 0
  THEN Slot(RstCmd, InAlarm, s.aux) ELSE s

Souliss_Logic_T41(s) == Raised(Counted(Delayed(Switched(s))))

\* A peer shows the alarm until it is rearmed; ReArm stays in IN.
Souliss_Logic_T42(s) ==
  IF s.in = Alarm THEN Slot(RstCmd, Alarm, s.aux)
  ELSE IF s.in = ReArm THEN Slot(s.in, RstCmd, s.aux)
  ELSE s

\* Souliss_LowDigIn: the first round that sees the sensor active.
DigIn(n) ==
  IF sensor[n] /\ ~ InPin[n]
  THEN IF n = Main THEN SensorEvent ELSE Alarm
  ELSE input[n]

\* FAST_510ms of a sketch: sensor, then logic.
Logic(n) ==
  LET s == Slot(DigIn(n), output[n], aux)
      r == IF n = Main THEN Souliss_Logic_T41(s) ELSE Souliss_Logic_T42(s)
  IN  /\ n \in alive
      /\ input' = [input EXCEPT ![n] = r.in]
      /\ output' = [output EXCEPT ![n] = r.out]
      /\ aux' = r.aux
      /\ InPin' = [InPin EXCEPT ![n] = sensor[n]]
      /\ due' = [due EXCEPT ![n] = TRUE]
      /\ net' = IF n # Main /\ s.in = Alarm THEN net \cup {AlarmFrame} ELSE net
      /\ UNCHANGED <<wd, sensor, alive, silent, cause, bounds>>

\* Mutant: any value below the threshold counts as expired.
Expired_Below(n) == wd[n] <= WTD_EXPIRE

Expired(n) == wd[n] = WTD_EXPIRE

\* The timer stops when it has expired.
Tick(n) == IF Expired(n) THEN wd[n] ELSE (wd[n] - 1) % (MAXBYTE + 1)

\* FAST_2110ms of a sketch; its phase comes after at least one of the logic.
Souliss_Watchdog(n) ==
  /\ n \in alive /\ due[n]
  /\ due' = [due EXCEPT ![n] = FALSE]
  /\ wd' = [wd EXCEPT ![n] = Tick(n)]
  /\ input' = [input EXCEPT ![n] = IF Expired(n) THEN Alarm ELSE RstCmd]
  /\ net' = net \cup {Kick(chain_address(n))}
  /\ silent' = [silent EXCEPT ![n] = IF @ < Patience THEN @ + 1 ELSE @]
  /\ cause' = (cause \/ silent[n] = Patience)
  /\ UNCHANGED <<output, aux, sensor, InPin, alive, bounds>>

\* Souliss_T41_Timer: an input above Armed counts down to Armed.
Souliss_T41_Timer ==
  /\ Main \in alive
  /\ input[Main] > Armed
  /\ input' = [input EXCEPT ![Main] = @ - 1]
  /\ UNCHANGED <<output, aux, wd, sensor, InPin, due, alive, net, silent, cause, bounds>>

\* FORCEREGSTR: a frame writes the input it is for.
Receive(m) ==
  /\ m \in net
  /\ net' = net \ {m}
  /\ IF m.to \notin alive THEN UNCHANGED <<input, wd, silent>>
     ELSE IF m = AlarmFrame
     THEN /\ input' = [input EXCEPT ![Main] = Alarm]
          /\ UNCHANGED <<wd, silent>>
     ELSE /\ wd' = [wd EXCEPT ![m.to] = WTD_SET]
          /\ silent' = [silent EXCEPT ![m.to] = 0]
          /\ UNCHANGED input
  /\ UNCHANGED <<output, aux, sensor, InPin, due, alive, cause, bounds>>
-----------------------------------------------------------------------------
(* The environment.                                                        *)

\* What a user interface may write: to the main, and ReArm to a peer.
UserInputs == UserCommands \cup (IF ArmDelay > 0 THEN {Armed + ArmDelay} ELSE {})

User ==
  /\ commands < MaxCommands
  /\ commands' = commands + 1
  /\ \/ \E c \in UserInputs : Main \in alive /\ input' = [input EXCEPT ![Main] = c]
     \/ \E n \in PeerNode \cap alive :
          ReArm \in UserCommands /\ input' = [input EXCEPT ![n] = ReArm]
  /\ UNCHANGED <<output, aux, wd, sensor, InPin, due, alive, net, silent, cause,
                 changes, faults>>

SensorChanges(n) ==
  /\ changes < MaxSensor
  /\ changes' = changes + 1
  /\ sensor' = [sensor EXCEPT ![n] = ~ @]
  /\ cause' = (cause \/ ~ sensor[n])
  /\ UNCHANGED <<slotVars, wd, InPin, due, alive, net, silent, commands, faults>>

Lose(m) ==
  /\ Lossy
  /\ net' = net \ {m}
  /\ UNCHANGED <<slotVars, wd, sensor, InPin, due, alive, silent, cause, bounds>>

Fault == faults < MaxFault /\ faults' = faults + 1

Die(n) ==
  /\ n \in alive
  /\ Fault
  /\ alive' = alive \ {n}
  /\ UNCHANGED <<slotVars, wd, sensor, InPin, due, net, silent, cause, commands, changes>>

\* The memory map of a node that boots is cleared.
Reboot(n) ==
  /\ Fault
  /\ alive' = alive \cup {n}
  /\ input' = [input EXCEPT ![n] = RstCmd]
  /\ output' = [output EXCEPT ![n] = RstCmd]
  /\ aux' = IF n = Main THEN 0 ELSE aux
  /\ wd' = [wd EXCEPT ![n] = 0]
  /\ InPin' = [InPin EXCEPT ![n] = FALSE]
  /\ due' = [due EXCEPT ![n] = FALSE]
  /\ silent' = [silent EXCEPT ![n] = 0]
  /\ UNCHANGED <<sensor, net, cause, commands, changes>>

Next ==
  \/ \E n \in Node : \/ Logic(n) \/ Souliss_Watchdog(n)
                     \/ SensorChanges(n) \/ Die(n) \/ Reboot(n)
  \/ Souliss_T41_Timer
  \/ \E m \in net : Receive(m) \/ Lose(m)
  \/ User

Spec == Init /\ [][Next]_vars

(***************************************************************************)
(* The phases of a node that runs come round for ever, and the network     *)
(* delivers.  The clocks of two nodes drift: an alarm that is written      *)
(* again and again into the main's input is not always written between the *)
(* main's last logic and its watchdog round, which clears the input.       *)
(***************************************************************************)
Fairness ==
  /\ \A n \in Node : WF_vars(Logic(n)) /\ WF_vars(Souliss_Watchdog(n))
  /\ WF_vars(Souliss_T41_Timer)
  /\ \A m \in {AlarmFrame} \cup {Kick(n) : n \in Node} : WF_vars(Receive(m))
  /\ SF_vars(Logic(Main) /\ input[Main] = Alarm)

FairSpec == Spec /\ Fairness
-----------------------------------------------------------------------------
(* Properties.                                                             *)

\* The main is in alarm only if some sensor went active or some node missed
\* all the kicks its watchdog allows for: reboots of any node (whose byte
\* starts at zero) and a few lost kicks never do it.
NoFalseAlarm == output[Main] = InAlarm => cause

\* Once raised, the alarm stays until a user's command is in the input or
\* the main reboots; no frame, sensor, watchdog or countdown silences it.
AlarmLatched ==
  [][output[Main] = InAlarm /\ output'[Main] # InAlarm =>
       input[Main] \in {Armed, ReArm, NotArmed} \/ faults' # faults]_vars

\* A countdown that has begun raises the alarm in DelayTime rounds of the
\* logic whatever else writes the input, unless a user disarms or rearms.
CountdownRuns ==
  [][aux # 0 /\ aux' # aux =>
       \/ aux' = aux - 1 /\ (aux = 1 => output'[Main] = InAlarm)
       \/ input[Main] \in {Armed, ReArm, NotArmed}
       \/ faults' # faults]_vars

\* "A fail of one node will result in a fail of the watch-dog and so rising
\* an alarm": an armed main raises the alarm when some peer is dead for good
\* and no user's command is pending.
DeadNodeRaisesAlarm ==
  \A n \in PeerNode :
    output[Main] = Antitheft /\ n \notin alive /\ Main \in alive
      /\ commands = MaxCommands /\ faults = MaxFault
      /\ input[Main] \notin {Armed, ReArm, NotArmed}
      ~> output[Main] = InAlarm

\* "peers [...] write an alarm condition into the anti-theft main node", and
\* the main goes in alarm: no frame is lost and no user acts.
PeerAlarmRaisesAlarm ==
  output[Main] = Antitheft /\ AlarmFrame \in net
      /\ commands = MaxCommands /\ faults = MaxFault
      /\ input[Main] \notin {Armed, ReArm, NotArmed}
    ~> output[Main] = InAlarm
=============================================================================
