-------------------------------- MODULE Slot --------------------------------
(***************************************************************************)
(* The slot of the memory map that a typical works on, and what every      *)
(* typical has in common.  IN_s is one mailbox for everybody: the network, *)
(* the wall buttons and the sensors write it, the last one wins.  OUT_s is *)
(* the state the outputs are driven from.  AUXIN_s is the typical's own.   *)
(* Logic and timer run in different phases of the sketch; commands come in *)
(* between, and the subscribers get the outputs when a trigger was raised. *)
(***************************************************************************)
EXTENDS Integers

CONSTANT MaxCommands   \* bound: commands of the users and the sensors

ASSUME SlotConstants == MaxCommands \in Nat

VARIABLES
  TYP_s,                  \* what the sketch put in the slot
  IN_s, OUT_s, AUXIN_s,   \* the slot
  trigger,                \* data_changed
  sent,                   \* OUT_s as the subscribers last got it
  due,                    \* the logic has run since the timer last did
  commands                \* bound used up

slotVars == <<TYP_s, IN_s, OUT_s, AUXIN_s, trigger, sent, due, commands>>

RstCmd == 0
Byte == 0 .. 255

\* What one call of a logic works on, the first byte of each area.
Slot(in, out, aux, trig) == [in |-> in, out |-> out, aux |-> aux, trig |-> trig]

Capped(n, top) == IF n < top THEN n + 1 ELSE top

\* A slot of typical t that no logic has seen yet.
SlotInit(t, out) ==
  /\ TYP_s = t
  /\ IN_s = RstCmd
  /\ OUT_s = out
  /\ AUXIN_s = 0
  /\ trigger = FALSE
  /\ sent = out
  /\ due = FALSE
  /\ commands = 0

\* A logic has made r of the slot.
SlotLogic(r) ==
  /\ IN_s' = r.in
  /\ OUT_s' = r.out
  /\ AUXIN_s' = r.aux
  /\ trigger' = (trigger \/ r.trig)
  /\ due' = TRUE
  /\ UNCHANGED <<TYP_s, sent, commands>>

\* A timer has made r of the slot.  It runs in a slower phase: the logic
\* runs at least once between two rounds of the timer.
SlotTimer(r) ==
  /\ due
  /\ due' = FALSE
  /\ IN_s' = r.in
  /\ OUT_s' = r.out
  /\ AUXIN_s' = r.aux
  /\ UNCHANGED <<TYP_s, trigger, sent, commands>>

\* A command from the network (FORCEREGSTR), a wall button or a sensor.
Command(c) ==
  /\ commands < MaxCommands
  /\ commands' = commands + 1
  /\ IN_s' = c
  /\ UNCHANGED <<TYP_s, OUT_s, AUXIN_s, trigger, sent, due>>

\* Data has changed: the subscribers get the outputs.
Communicate ==
  /\ trigger
  /\ trigger' = FALSE
  /\ sent' = OUT_s
  /\ UNCHANGED <<TYP_s, IN_s, OUT_s, AUXIN_s, due, commands>>
=============================================================================
