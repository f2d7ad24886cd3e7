---------------------------- MODULE AntiTheftProofs ----------------------------
(* Proofs for the anti-theft: for any number of nodes, any watchdog bytes  *)
(* in their order and any losses, reboots and commands.                    *)
EXTENDS AntiTheft, TLAPS

-----------------------------------------------------------------------------
(* What one round of the logic does to a slot.                             *)

Command == {Armed, ReArm, NotArmed}
AlarmInput == {Alarm, AlarmDelay}
Output == {NoAntitheft, Antitheft, InAlarm, InReArm}

\* A slot of the main: its countdown runs only while it is armed.
MainSlot(s) ==
  /\ s = Slot(s.in, s.out, s.aux)
  /\ s.in \in Nat /\ s.out \in Output /\ s.aux \in 0 .. DelayTime
  /\ s.aux # 0 => s.out = Antitheft

\* Nothing in the slot asks for an alarm.
Calm(s) == s.out # InAlarm /\ s.in \notin AlarmInput /\ s.aux = 0

LEMMA SwitchedSlot ==
  ASSUME NEW s, MainSlot(s)
  PROVE  /\ MainSlot(Switched(s))
         /\ Calm(s) => Calm(Switched(s))
         /\ Switched(s) = s \/ s.in \in Command \/ s.out = InReArm
         /\ Switched(s).aux = 0 \/ Switched(s) = s
  BY AntiTheftConstants
     DEF MainSlot, Slot, Calm, Switched, Command, AlarmInput, Output, Armed, ReArm,
         NotArmed, Alarm, AlarmDelay, RstCmd, NoAntitheft, Antitheft, InAlarm, InReArm

LEMMA DelayedSlot ==
  ASSUME NEW s, MainSlot(s)
  PROVE  /\ MainSlot(Delayed(s))
         /\ Calm(s) => Calm(Delayed(s))
         /\ s.aux # 0 => Delayed(s) = s
         /\ Delayed(s).out = s.out
  BY AntiTheftConstants
     DEF MainSlot, Slot, Calm, Delayed, AlarmInput, Output, Alarm, AlarmDelay, RstCmd,
         NoAntitheft, Antitheft, InAlarm, InReArm

LEMMA CountedSlot ==
  ASSUME NEW s, MainSlot(s)
  PROVE  /\ MainSlot(Counted(s))
         /\ Calm(s) => Calm(Counted(s))
         /\ s.aux # 0 => Counted(s) = Slot(Alarm, Antitheft, s.aux - 1)
         /\ Counted(s).out = s.out
  BY AntiTheftConstants
     DEF MainSlot, Slot, Calm, Counted, AlarmInput, Output, Alarm, AlarmDelay, RstCmd,
         NoAntitheft, Antitheft, InAlarm, InReArm

LEMMA RaisedSlot ==
  ASSUME NEW s, MainSlot(s)
  PROVE  /\ MainSlot(Raised(s))
         /\ Calm(s) => Calm(Raised(s))
         /\ Raised(s).aux = s.aux
         /\ s.out = InAlarm => Raised(s).out = InAlarm
         /\ s = Slot(Alarm, Antitheft, 0) => Raised(s).out = InAlarm
  BY AntiTheftConstants
     DEF MainSlot, Slot, Calm, Raised, AlarmInput, Output, Alarm, AlarmDelay, RstCmd,
         NoAntitheft, Antitheft, InAlarm, InReArm

\* One round of the main keeps a calm slot calm, an alarm raised and a
\* countdown running; only a command does otherwise.
LEMMA T41Slot ==
  ASSUME NEW s, MainSlot(s)
  PROVE  LET t == Souliss_Logic_T41(s)
         IN  /\ MainSlot(t)
             /\ Calm(s) => Calm(t)
             /\ s.out = InAlarm => t.out = InAlarm \/ s.in \in Command
             /\ s.aux # 0 => \/ s.in \in Command
                             \/ t.aux = s.aux - 1 /\ (s.aux = 1 => t.out = InAlarm)
<1>. DEFINE a == Switched(s)
            b == Delayed(a)
            c == Counted(b)
            t == Raised(c)
<1>1. MainSlot(a) /\ MainSlot(b) /\ MainSlot(c) /\ MainSlot(t)
  BY SwitchedSlot, DelayedSlot, CountedSlot, RaisedSlot
<1>2. Calm(s) => Calm(t)
  BY <1>1, SwitchedSlot, DelayedSlot, CountedSlot, RaisedSlot
<1>3. s.out = InAlarm => t.out = InAlarm \/ s.in \in Command
  <2>1. s.out = InAlarm => a = s \/ s.in \in Command
    BY SwitchedSlot DEF InAlarm, InReArm
  <2>. QED  BY <2>1, <1>1, DelayedSlot, CountedSlot, RaisedSlot
<1>4. ASSUME s.aux # 0, s.in \notin Command
      PROVE  t.aux = s.aux - 1 /\ (s.aux = 1 => t.out = InAlarm)
  <2>1. s.out = Antitheft
    BY <1>4 DEF MainSlot
  <2>2. a = s /\ b = s
    BY <1>4, <2>1, <1>1, SwitchedSlot, DelayedSlot DEF Antitheft, InReArm
  <2>3. c = Slot(Alarm, Antitheft, s.aux - 1)
    BY <2>2, <1>4, CountedSlot
  <2>4. c.aux = s.aux - 1
    BY <2>3 DEF Slot
  <2>5. s.aux = 1 => c = Slot(Alarm, Antitheft, 0)
    BY <2>3
  <2>. QED  BY <2>4, <2>5, <1>1, RaisedSlot
<1>5. t = Souliss_Logic_T41(s)
  BY DEF Souliss_Logic_T41
<1>. HIDE DEF t
<1>. QED  BY <1>1, <1>2, <1>3, <1>4, <1>5
-----------------------------------------------------------------------------
(* The invariant.                                                          *)

\* Types, and a countdown that only an armed main has.
TypeOK ==
  /\ input \in [Node -> Nat]
  /\ output \in [Node -> Output \cup {Alarm}]
  /\ output[Main] \in Output
  /\ aux \in 0 .. DelayTime
  /\ aux # 0 => output[Main] = Antitheft
  /\ wd \in [Node -> 0 .. MAXBYTE]
  /\ sensor \in [Node -> BOOLEAN] /\ InPin \in [Node -> BOOLEAN]
  /\ due \in [Node -> BOOLEAN]
  /\ alive \subseteq Node
  /\ net \subseteq {AlarmFrame} \cup {Kick(n) : n \in Node}
  /\ silent \in [Node -> 0 .. Patience]
  /\ cause \in BOOLEAN
  /\ commands \in Nat /\ changes \in Nat /\ faults \in Nat

\* A watchdog has lost no more than its node was silent: it has expired only
\* after all of its patience.  One that boots at zero counts from MAXBYTE.
Tolerant(n) ==
  \/ wd[n] = 0 /\ silent[n] = 0
  \/ wd[n] >= WTD_EXPIRE /\ wd[n] >= WTD_SET - silent[n]

\* As long as nothing has happened there is no alarm anywhere in the system.
Quiet ==
  /\ output[Main] # InAlarm /\ aux = 0
  /\ \A n \in Node : input[n] \notin AlarmInput /\ ~ sensor[n]
  /\ AlarmFrame \notin net

AlarmInv == TypeOK /\ (\A n \in Node : Tolerant(n)) /\ (cause \/ Quiet)

LEMMA Nodes ==
  /\ N \in Nat /\ N > 1 /\ Main \in Node /\ Main = 0
  /\ \A n \in Node : n \in Int /\ chain_address(n) \in Node
<1>. USE AntiTheftConstants
<1>1. N \in Nat /\ N > 1 /\ Main \in Node /\ Main = 0
  BY DEF Node, Main
<1>2. ASSUME NEW n \in Node  PROVE n \in Int /\ (n + 1) % N \in 0 .. N - 1
  BY <1>1 DEF Node
<1>. QED  BY <1>1, <1>2 DEF Node, chain_address

LEMMA Frames ==
  ASSUME NEW m \in {AlarmFrame} \cup {Kick(n) : n \in Node}
  PROVE  /\ m.to \in Node
         /\ m # AlarmFrame => m = Kick(m.to)
  BY Nodes DEF AlarmFrame, Kick

LEMMA InitInv ==
  ASSUME Init
  PROVE  AlarmInv
<1>. USE AntiTheftConstants, Nodes DEF Init
<1>1. TypeOK
  <2>1. 0 \in 0 .. Patience /\ 0 \in 0 .. MAXBYTE /\ 0 \in 0 .. DelayTime
    BY DEF Patience
  <2>2. RstCmd \in Nat /\ RstCmd \in Output
    BY DEF RstCmd, Output, NoAntitheft
  <2>. QED  BY <2>1, <2>2 DEF TypeOK
<1>2. \A n \in Node : Tolerant(n)
  BY DEF Tolerant
<1>3. Quiet
  BY DEF Quiet, AlarmInput, RstCmd, Alarm, AlarmDelay, InAlarm
<1>. QED  BY <1>1, <1>2, <1>3 DEF AlarmInv

\* What the logic of node n reads.
LogicSlot(n) == Slot(DigIn(n), output[n], aux)

LEMMA MainReads ==
  ASSUME TypeOK
  PROVE  /\ MainSlot(LogicSlot(Main))
         /\ LogicSlot(Main).out = output[Main] /\ LogicSlot(Main).aux = aux
         /\ LogicSlot(Main).in \in Command => input[Main] \in Command
         /\ Quiet => Calm(LogicSlot(Main))
<1>1. DigIn(Main) \in {SensorEvent, input[Main]} /\ SensorEvent \in AlarmInput
  BY AntiTheftConstants DEF DigIn, AlarmInput
<1>2. DigIn(Main) \in Nat /\ (DigIn(Main) \in Command => input[Main] \in Command)
  BY <1>1, Nodes DEF TypeOK, AlarmInput, Command, Alarm, AlarmDelay, Armed, ReArm, NotArmed
<1>3. Quiet => DigIn(Main) = input[Main] /\ input[Main] \notin AlarmInput
  BY Nodes DEF DigIn, Quiet
<1>. QED  BY <1>2, <1>3 DEF LogicSlot, MainSlot, Slot, TypeOK, Quiet, Calm

\* A peer's round: OUT is Alarm or RstCmd when it changes, AUX stays, and a
\* calm input stays calm.
LEMMA PeerReads ==
  ASSUME TypeOK, NEW n \in PeerNode
  PROVE  LET t == Souliss_Logic_T42(LogicSlot(n))
         IN  /\ t.in \in Nat /\ t.out \in Output \cup {Alarm} /\ t.aux = aux
             /\ LogicSlot(n).in = DigIn(n)
             /\ Quiet => DigIn(n) \notin AlarmInput /\ t.in \notin AlarmInput
<1>1. n \in Node /\ n # Main
  BY DEF PeerNode
<1>2. DigIn(n) \in Nat /\ output[n] \in Output \cup {Alarm}
  BY <1>1 DEF DigIn, TypeOK, Alarm
<1>3. Quiet => DigIn(n) \notin AlarmInput
  BY <1>1 DEF DigIn, Quiet
<1>. QED  BY <1>2, <1>3
          DEF LogicSlot, Slot, Souliss_Logic_T42, Alarm, AlarmDelay, ReArm, RstCmd, Output,
              NoAntitheft, AlarmInput

LEMMA LogicInv ==
  ASSUME AlarmInv, NEW n \in Node, Logic(n)
  PROVE  AlarmInv'
<1>. USE Nodes
<1>. DEFINE t == IF n = Main THEN Souliss_Logic_T41(LogicSlot(n)) ELSE Souliss_Logic_T42(LogicSlot(n))
<1>1. TypeOK
  BY DEF AlarmInv
<1>2. /\ n \in alive
      /\ input' = [input EXCEPT ![n] = t.in]
      /\ output' = [output EXCEPT ![n] = t.out]
      /\ aux' = t.aux
      /\ InPin' = [InPin EXCEPT ![n] = sensor[n]]
      /\ due' = [due EXCEPT ![n] = TRUE]
      /\ net' = IF n # Main /\ LogicSlot(n).in = Alarm THEN net \cup {AlarmFrame} ELSE net
      /\ UNCHANGED <<wd, sensor, alive, silent, cause, bounds>>
  BY DEF Logic, LogicSlot
<1>3. CASE n = Main
  <2>1. MainSlot(t) /\ (Quiet => Calm(t))
    BY <1>1, <1>3, MainReads, T41Slot
  <2>2. net' = net
    BY <1>2, <1>3
  <2>. HIDE DEF t
  <2>3. TypeOK'
    BY <1>1, <1>2, <1>3, <2>1, <2>2 DEF TypeOK, MainSlot, bounds
  <2>4. Quiet => Quiet'
    BY <1>1, <1>2, <1>3, <2>1, <2>2 DEF Quiet, Calm, TypeOK
  <2>. QED  BY <1>2, <2>3, <2>4 DEF AlarmInv, Tolerant
<1>4. CASE n # Main
  <2>1. /\ t.in \in Nat /\ t.out \in Output \cup {Alarm} /\ t.aux = aux
        /\ Quiet => LogicSlot(n).in \notin AlarmInput /\ t.in \notin AlarmInput
    BY <1>1, <1>4, PeerReads DEF PeerNode
  <2>. HIDE DEF t
  <2>2. net' \subseteq net \cup {AlarmFrame} /\ (Quiet => net' = net)
    BY <1>2, <2>1 DEF AlarmInput
  <2>3. TypeOK'
    BY <1>1, <1>2, <1>4, <2>1, <2>2 DEF TypeOK, bounds
  <2>4. Quiet => Quiet'
    BY <1>1, <1>2, <1>4, <2>1, <2>2 DEF Quiet, TypeOK
  <2>. QED  BY <1>2, <2>3, <2>4 DEF AlarmInv, Tolerant
<1>. QED  BY <1>3, <1>4

\* A watchdog that ticks stays within its node's silence.
LEMMA TickTolerant ==
  ASSUME TypeOK, NEW n \in Node, Tolerant(n)
  PROVE  /\ Tick(n) \in 0 .. MAXBYTE
         /\ LET k == IF silent[n] < Patience THEN silent[n] + 1 ELSE silent[n]
            IN  k \in 0 .. Patience /\ Tick(n) >= WTD_EXPIRE /\ Tick(n) >= WTD_SET - k
         /\ Expired(n) => silent[n] = Patience
<1>. USE AntiTheftConstants DEF Tolerant, Expired, Patience
<1>1. wd[n] \in 0 .. MAXBYTE /\ silent[n] \in 0 .. Patience
  BY DEF TypeOK
<1>2. CASE wd[n] = 0
  <2>1. Tick(n) = MAXBYTE
    BY <1>1, <1>2 DEF Tick
  <2>. QED  BY <1>1, <1>2, <2>1
<1>3. CASE wd[n] # 0 /\ Expired(n)
  <2>1. Tick(n) = wd[n]
    BY <1>3 DEF Tick
  <2>. QED  BY <1>1, <1>3, <2>1
<1>4. CASE wd[n] # 0 /\ ~ Expired(n)
  <2>1. Tick(n) = wd[n] - 1
    BY <1>1, <1>4 DEF Tick
  <2>. QED  BY <1>1, <1>4, <2>1
<1>. QED  BY <1>2, <1>3, <1>4

LEMMA WatchdogInv ==
  ASSUME AlarmInv, NEW n \in Node, Souliss_Watchdog(n)
  PROVE  AlarmInv'
<1>. USE Nodes
<1>1. TypeOK /\ Tolerant(n)
  BY DEF AlarmInv
<1>2. /\ Tick(n) \in 0 .. MAXBYTE
      /\ LET k == IF silent[n] < Patience THEN silent[n] + 1 ELSE silent[n]
         IN  k \in 0 .. Patience /\ Tick(n) >= WTD_EXPIRE /\ Tick(n) >= WTD_SET - k
      /\ Expired(n) => silent[n] = Patience
  BY <1>1, TickTolerant
<1>3. TypeOK'
  BY <1>1, <1>2 DEF Souliss_Watchdog, TypeOK, bounds, Alarm, RstCmd
<1>4. \A i \in Node : Tolerant(i)'
  BY <1>1, <1>2 DEF Souliss_Watchdog, Tolerant, AlarmInv, TypeOK
<1>5. cause' \/ Quiet'
  <2>1. CASE cause \/ silent[n] = Patience
    BY <2>1 DEF Souliss_Watchdog
  <2>2. CASE ~ cause /\ silent[n] # Patience
    <3>1. input' = [input EXCEPT ![n] = RstCmd] /\ Quiet
      BY <2>2, <1>2 DEF Souliss_Watchdog, AlarmInv
    <3>2. AlarmFrame # Kick(chain_address(n))
      BY AntiTheftConstants DEF AlarmFrame, Kick, Alarm
    <3>. QED  BY <3>1, <3>2, <1>1 DEF Souliss_Watchdog, Quiet, TypeOK, AlarmInput, RstCmd, Alarm, AlarmDelay
  <2>. QED  BY <2>1, <2>2
<1>. QED  BY <1>3, <1>4, <1>5 DEF AlarmInv

LEMMA ReceiveInv ==
  ASSUME AlarmInv, NEW m \in net, Receive(m)
  PROVE  AlarmInv'
<1>. USE Nodes
<1>1. TypeOK /\ m.to \in Node /\ (m # AlarmFrame => m = Kick(m.to))
  BY Frames DEF AlarmInv, TypeOK
<1>2. net' = net \ {m} /\ UNCHANGED <<output, aux, sensor, InPin, due, alive, cause, bounds>>
  BY DEF Receive
<1>3. CASE m.to \notin alive
  BY <1>1, <1>2, <1>3 DEF Receive, AlarmInv, TypeOK, Tolerant, Quiet, bounds
<1>4. CASE m.to \in alive /\ m = AlarmFrame
  <2>1. input' = [input EXCEPT ![Main] = Alarm] /\ UNCHANGED <<wd, silent>> /\ cause
    BY <1>4 DEF Receive, AlarmInv, Quiet
  <2>2. TypeOK'
    BY <2>1, <1>1, <1>2 DEF TypeOK, bounds, Alarm
  <2>. QED  BY <2>1, <2>2, <1>2 DEF AlarmInv, Tolerant
<1>5. CASE m.to \in alive /\ m # AlarmFrame
  <2>1. /\ wd' = [wd EXCEPT ![m.to] = WTD_SET] /\ silent' = [silent EXCEPT ![m.to] = 0]
        /\ input' = input
    BY <1>5 DEF Receive
  <2>2. WTD_SET \in 0 .. MAXBYTE /\ 0 \in 0 .. Patience /\ WTD_SET >= WTD_EXPIRE
    BY AntiTheftConstants DEF Patience
  <2>3. TypeOK'
    BY <2>1, <2>2, <1>1, <1>2 DEF TypeOK, bounds
  <2>4. \A n \in Node : Tolerant(n)'
    BY <2>1, <2>2, <1>1, AntiTheftConstants DEF Tolerant, AlarmInv, TypeOK
  <2>5. cause' \/ Quiet'
    BY <2>1, <1>2 DEF AlarmInv, Quiet
  <2>. QED  BY <2>3, <2>4, <2>5 DEF AlarmInv
<1>. QED  BY <1>3, <1>4, <1>5

LEMMA UserInv ==
  ASSUME AlarmInv, User
  PROVE  AlarmInv'
<1>. USE Nodes
<1>0. TypeOK
  BY DEF AlarmInv
<1>1. PICK n \in Node, c \in UserInputs \cup {ReArm} : input' = [input EXCEPT ![n] = c]
  BY DEF User, PeerNode
<1>2. c \in Nat /\ c \notin AlarmInput
  BY <1>1, AntiTheftConstants
     DEF UserInputs, AlarmInput, ReArm, NotArmed, Armed, Alarm, AlarmDelay
<1>3. TypeOK'
  BY <1>0, <1>1, <1>2 DEF User, TypeOK
<1>. QED  BY <1>0, <1>1, <1>2, <1>3 DEF User, AlarmInv, Tolerant, Quiet, TypeOK

LEMMA RebootInv ==
  ASSUME AlarmInv, NEW n \in Node, Reboot(n)
  PROVE  AlarmInv'
<1>. USE Nodes
<1>0. TypeOK
  BY DEF AlarmInv
<1>1. RstCmd = 0 /\ RstCmd \in Output /\ RstCmd \notin AlarmInput /\ RstCmd # InAlarm
  BY DEF RstCmd, Output, NoAntitheft, AlarmInput, Alarm, AlarmDelay, InAlarm
<1>2. TypeOK'
  <2>1. 0 \in 0 .. Patience /\ 0 \in 0 .. MAXBYTE /\ 0 \in 0 .. DelayTime
    BY AntiTheftConstants DEF Patience
  <2>2. /\ input' \in [Node -> Nat] /\ output' \in [Node -> Output \cup {Alarm}]
        /\ output'[Main] \in Output /\ aux' \in 0 .. DelayTime
        /\ aux' # 0 => output'[Main] = Antitheft
    BY <2>1, <1>0, <1>1 DEF Reboot, TypeOK
  <2>3. /\ wd' \in [Node -> 0 .. MAXBYTE] /\ InPin' \in [Node -> BOOLEAN]
        /\ due' \in [Node -> BOOLEAN] /\ silent' \in [Node -> 0 .. Patience]
        /\ alive' \subseteq Node /\ faults' \in Nat
    BY <2>1, <1>0 DEF Reboot, TypeOK, Fault
  <2>. QED  BY <2>2, <2>3, <1>0 DEF Reboot, TypeOK
<1>3. \A i \in Node : Tolerant(i)'
  BY <1>0 DEF Reboot, AlarmInv, Tolerant, TypeOK
<1>4. Quiet => Quiet'
  BY <1>0, <1>1 DEF Reboot, Quiet, TypeOK
<1>. QED  BY <1>2, <1>3, <1>4 DEF AlarmInv, Reboot

LEMMA NextInv ==
  ASSUME AlarmInv, [Next]_vars
  PROVE  AlarmInv'
<1>. USE Nodes
<1>0. TypeOK
  BY DEF AlarmInv
<1>1. ASSUME NEW n \in Node, SensorChanges(n)  PROVE AlarmInv'
  <2>1. TypeOK'
    BY <1>0, <1>1 DEF SensorChanges, TypeOK, slotVars
  <2>2. cause' \/ Quiet'
    BY <1>0, <1>1 DEF SensorChanges, AlarmInv, Quiet, slotVars, TypeOK
  <2>. QED  BY <1>1, <2>1, <2>2 DEF SensorChanges, AlarmInv, Tolerant
<1>2. ASSUME NEW n \in Node, Die(n)  PROVE AlarmInv'
  BY <1>0, <1>2 DEF Die, Fault, AlarmInv, TypeOK, Tolerant, Quiet, slotVars
<1>3. ASSUME Souliss_T41_Timer  PROVE AlarmInv'
  <2>1. TypeOK'
    BY <1>0, <1>3 DEF Souliss_T41_Timer, TypeOK, bounds, Armed
  <2>2. Quiet => Quiet'
    BY <1>0, <1>3 DEF Souliss_T41_Timer, Quiet, TypeOK, AlarmInput, Alarm, AlarmDelay, Armed
  <2>. QED  BY <1>3, <2>1, <2>2 DEF Souliss_T41_Timer, AlarmInv, Tolerant
<1>4. ASSUME NEW m \in net, Lose(m)  PROVE AlarmInv'
  BY <1>0, <1>4 DEF Lose, AlarmInv, TypeOK, Tolerant, Quiet, slotVars, bounds
<1>5. CASE UNCHANGED vars
  BY <1>0, <1>5 DEF vars, AlarmInv, TypeOK, Tolerant, Quiet, slotVars, bounds
<1>. QED  BY <1>1, <1>2, <1>3, <1>4, <1>5, LogicInv, WatchdogInv, ReceiveInv, UserInv, RebootInv
          DEF Next

LEMMA Invariance == Spec => []AlarmInv
<1>1. Init => AlarmInv
  BY InitInv
<1>2. AlarmInv /\ [Next]_vars => AlarmInv'
  BY NextInv
<1>. QED  BY <1>1, <1>2, PTL DEF Spec

-----------------------------------------------------------------------------
(* The theorems.                                                           *)

\* Every byte of the slots and of the watchdog stays in its range, and only
\* an armed main counts down.
THEOREM TypeCorrect == Spec => []TypeOK
<1>1. AlarmInv => TypeOK
  BY DEF AlarmInv
<1>. QED  BY <1>1, Invariance, PTL

\* No reboot, lost kick or late frame raises an alarm by itself in a ring of
\* any size: the main is in alarm only after a sensor went active or a node
\* was silent for its watchdog's whole patience (T4n.cpp, Souliss_Watchdog).
THEOREM NoFalseAlarmHolds == Spec => []NoFalseAlarm
<1>1. AlarmInv => NoFalseAlarm
  BY DEF AlarmInv, Quiet, NoFalseAlarm
<1>. QED  BY <1>1, Invariance, PTL

\* What changes the main's output and its countdown.
LEMMA MainSteps ==
  ASSUME TypeOK, [Next]_vars
  PROVE  \/ output'[Main] = output[Main] /\ aux' = aux
         \/ faults' # faults
         \/ Logic(Main)
<1>. USE Nodes
<1>1. ASSUME NEW n \in Node, n # Main, Logic(n)  PROVE output'[Main] = output[Main] /\ aux' = aux
  <2>1. aux' = aux
    BY <1>1, PeerReads DEF Logic, LogicSlot, PeerNode
  <2>. QED  BY <1>1, <2>1 DEF Logic, TypeOK
<1>2. ASSUME NEW n \in Node, Reboot(n) \/ Die(n)  PROVE faults' # faults
  BY <1>2 DEF Reboot, Die, Fault, TypeOK
<1>3. ASSUME NEW n \in Node, Souliss_Watchdog(n) \/ SensorChanges(n)
      PROVE  output'[Main] = output[Main] /\ aux' = aux
  BY <1>3 DEF Souliss_Watchdog, SensorChanges, slotVars
<1>4. ASSUME NEW m \in net, Receive(m) \/ Lose(m)
      PROVE  output'[Main] = output[Main] /\ aux' = aux
  BY <1>4 DEF Receive, Lose, slotVars
<1>5. ASSUME Souliss_T41_Timer \/ User \/ UNCHANGED vars
      PROVE  output'[Main] = output[Main] /\ aux' = aux
  BY <1>5 DEF Souliss_T41_Timer, User, vars, slotVars
<1>. QED  BY <1>1, <1>2, <1>3, <1>4, <1>5 DEF Next

LEMMA MainLogic ==
  ASSUME TypeOK, Logic(Main)
  PROVE  LET t == Souliss_Logic_T41(LogicSlot(Main))
         IN  output'[Main] = t.out /\ aux' = t.aux
  BY Nodes DEF Logic, LogicSlot, TypeOK

\* For any interleaving of sensors, frames, watchdogs and countdowns an alarm
\* of the main ends by a user's command or a reboot only (Souliss_Logic_T41).
THEOREM AlarmLatchedHolds == Spec => AlarmLatched
<1>1. ASSUME TypeOK, [Next]_vars, output[Main] = InAlarm, output'[Main] # InAlarm
      PROVE  input[Main] \in {Armed, ReArm, NotArmed} \/ faults' # faults
  <2>1. CASE Logic(Main)
    BY <1>1, <2>1, MainLogic, MainReads, T41Slot DEF Command
  <2>. QED  BY <2>1, <1>1, MainSteps
<1>2. TypeOK /\ [Next]_vars =>
        [output[Main] = InAlarm /\ output'[Main] # InAlarm =>
           input[Main] \in {Armed, ReArm, NotArmed} \/ faults' # faults]_vars
  BY <1>1
<1>. QED  BY <1>2, TypeCorrect, PTL DEF Spec, AlarmLatched

\* A countdown of any length that has begun runs down round by round and
\* raises the alarm, whatever else writes the main's input (Souliss_Logic_T41).
THEOREM CountdownRunsHolds == Spec => CountdownRuns
<1>1. ASSUME TypeOK, [Next]_vars, aux # 0, aux' # aux
      PROVE  \/ aux' = aux - 1 /\ (aux = 1 => output'[Main] = InAlarm)
             \/ input[Main] \in {Armed, ReArm, NotArmed}
             \/ faults' # faults
  <2>1. CASE Logic(Main)
    BY <1>1, <2>1, MainLogic, MainReads, T41Slot DEF Command
  <2>. QED  BY <2>1, <1>1, MainSteps
<1>2. TypeOK /\ [Next]_vars =>
        [aux # 0 /\ aux' # aux =>
           \/ aux' = aux - 1 /\ (aux = 1 => output'[Main] = InAlarm)
           \/ input[Main] \in {Armed, ReArm, NotArmed}
           \/ faults' # faults]_vars
  BY <1>1
<1>. QED  BY <1>2, TypeCorrect, PTL DEF Spec, CountdownRuns
=============================================================================
