------------------------------- MODULE T2nProofs -------------------------------
(* Proofs for T21 and T22, for any number of commands and any travel.      *)
EXTENDS T2n, TLAPS

Inputs == {RstCmd} \cup Commands \cup {LimSwitch(d) : d \in Dir}
Auxes == {0} \cup Coils \cup (Timer_Off .. TimedStop_Val)

\* Slots that a logic meets; T21 has no temporary stop.
Slots == [in : Inputs, out : Outputs, aux : Auxes, trig : BOOLEAN]
Slots_T21 == {s \in Slots : ~IsTemporaryStop(s.aux)}

\* What every logic keeps to, from slot s to slot r: a coil is on for a command
\* or goes on with time left, a direction is not replaced by the other, and an
\* end is reported for its switch or its timer.
Sane(s, r) ==
  /\ r.out \in Coils => \/ s.in \in Commands /\ r.aux \in Timer_Val .. TimedStop_Val
                        \/ r.out = s.out /\ r.aux = s.aux /\ s.aux # Timer_Off
  /\ \A d \in Dir : s.out = Coil(d) => r.out # Coil(Opposite(d))
  /\ \A d \in Dir : s.out # State(d) /\ r.out = State(d) =>
                      s.in = LimSwitch(d) \/ (s.out = Coil(d) /\ s.aux = Timer_Off)
  /\ s.out = Coil_Stop /\ IsTemporaryStop(s.aux) => r.out \notin Coils

\* A switch event against the movement it finds, or that says nothing new.
Stale(s) == \A d \in Dir : s.in = LimSwitch(d) => s.out \in {Coil(Opposite(d)), State(d)}

USE DEF RstCmd, Coil_Off, Coil_Stop, NoLimSwitch, Timer_Off, Timer_Val, TimedStop_Off,
        TimedStop_Val, StopCmd, ToggleCmd

LEMMA Directions ==
  /\ \A d : d \in Dir <=> d = "Close" \/ d = "Open"
  /\ \A d \in Dir : Opposite(d) \in Dir
  /\ Opposite("Close") = "Open" /\ Opposite("Open") = "Close"
  /\ Coil("Close") = 1 /\ Coil("Open") = 2
  /\ State("Close") = 8 /\ State("Open") = 16
  /\ Cmd_SW("Close") = 1 /\ Cmd_SW("Open") = 2
  /\ Cmd_Local("Close") = 18 /\ Cmd_Local("Open") = 16
  /\ LimSwitch("Close") = 20 /\ LimSwitch("Open") = 22
  BY DEF Dir, Opposite, Coil, State, Cmd_SW, Cmd_Local, LimSwitch

LEMMA Values ==
  /\ \A x : x \in Coils <=> x = 1 \/ x = 2
  /\ \A x : x \in Commands <=> x = 4 \/ x = 8 \/ x = 1 \/ x = 2 \/ x = 18 \/ x = 16
  /\ \A x : x \in Inputs <=> x = 0 \/ x \in Commands \/ x = 20 \/ x = 22
  /\ \A x : x \in Outputs <=> x = 0 \/ x = 3 \/ x = 32 \/ x = 1 \/ x = 2 \/ x = 8 \/ x = 16
  /\ \A x : x \in Auxes <=> x = 0 \/ x = 1 \/ x = 2 \/ x \in 160 .. 194
  /\ \A a \in Auxes : IsTemporaryStop(a) <=> a = 193 \/ a = 194
<1>1. \A x : x \in Coils <=> x = 1 \/ x = 2
  BY Directions DEF Coils
<1>2. \A x : x \in Commands <=> x = 4 \/ x = 8 \/ x = 1 \/ x = 2 \/ x = 18 \/ x = 16
  BY Directions DEF Commands
<1>3. \A x : x \in Inputs <=> x = 0 \/ x \in Commands \/ x = 20 \/ x = 22
  BY Directions DEF Inputs
<1>4. \A x : x \in Outputs <=> x = 0 \/ x = 3 \/ x = 32 \/ x = 1 \/ x = 2 \/ x = 8 \/ x = 16
  BY <1>1, Directions DEF Outputs
<1>5. \A x : x \in Auxes <=> x = 0 \/ x = 1 \/ x = 2 \/ x \in 160 .. 194
  BY <1>1 DEF Auxes
<1>6. \A a \in Auxes : IsTemporaryStop(a) <=> a = 193 \/ a = 194
  BY <1>5 DEF IsTemporaryStop
<1>. QED  BY <1>1, <1>2, <1>3, <1>4, <1>5, <1>6
-----------------------------------------------------------------------------
(* What one call of a logic does.                                          *)

\* T21 works on all commands and all events, and keeps no event.
LEMMA Logic_T21 ==
  ASSUME NEW s \in Slots_T21
  PROVE  /\ Souliss_Logic_T21(s) \in Slots_T21
         /\ Sane(s, Souliss_Logic_T21(s))
         /\ \A d \in Dir : Souliss_Logic_T21(s).in # LimSwitch(d)
<1>a. SUFFICES ASSUME NEW r, r = Souliss_Logic_T21(s)
               PROVE  r \in Slots_T21 /\ Sane(s, r) /\ \A d \in Dir : r.in # LimSwitch(d)
  OBVIOUS
<1>0. /\ s.in \in Inputs /\ s.out \in Outputs /\ s.aux \in Auxes /\ s.trig \in BOOLEAN
      /\ ~ IsTemporaryStop(s.aux)
  BY DEF Slots_T21, Slots
<1>1. Commands_T21 = {4, 8, 16, 18}
  BY Directions DEF Commands_T21
<1>2. \A in \in Inputs, out \in Outputs, aux \in Auxes :
        ~ IsTemporaryStop(aux) => /\ Slot(in, out, aux, TRUE) \in Slots_T21
                                  /\ Slot(in, out, aux, FALSE) \in Slots_T21
  BY DEF Slot, Slots, Slots_T21
<1>3. CASE s.in \in Commands_T21
  <2>1. r = Command_T21(s)
    BY <1>3, <1>a DEF Souliss_Logic_T21
  <2>2. CASE \E d \in Dir : /\ r = Slot(RstCmd, Coil(d), Timer_Val, TRUE)
                           /\ s.out # Coil(Opposite(d))
    <3>1. PICK d \in Dir : /\ r = Slot(RstCmd, Coil(d), Timer_Val, TRUE)
                          /\ s.out # Coil(Opposite(d))
      BY <2>2
    <3>2. r.in = 0 /\ r.out = Coil(d) /\ r.aux = 192
      BY <3>1 DEF Slot
    <3>a. 192 \in Auxes /\ ~ IsTemporaryStop(192) /\ 0 \in Inputs /\ Coil(d) \in Outputs
      BY Values, Directions
    <3>3. r \in Slots_T21
      BY <3>1, <1>2, <3>a
    <3>5. s.in \in Commands
      BY <1>1, <1>3, Values
    <3>6. \A e \in Dir : s.out = Coil(e) => r.out # Coil(Opposite(e))
      BY <3>1, <3>2, ZenonT(30) DEF Dir, Coil, Opposite
    <3>7. \A e \in Dir : r.out # State(e)
      BY <3>2 DEF Dir, Coil, State
    <3>8. r.aux \in 192 .. 194
      BY <3>2
    <3>4. Sane(s, r)
      BY <3>1, <3>2, <1>0, <3>5, <3>6, <3>7, <3>8 DEF Sane
    <3>. QED  BY <3>2, <3>3, <3>4, Directions
  <2>3. CASE \E aux \in Auxes : r = Slot(s.in, Coil_Stop, aux, FALSE) /\ ~ IsTemporaryStop(aux)
    <3>1. PICK aux \in Auxes : r = Slot(s.in, Coil_Stop, aux, FALSE) /\ ~ IsTemporaryStop(aux)
      BY <2>3
    <3>2. r.in = s.in /\ r.out = 3 /\ r.aux = aux
      BY <3>1 DEF Slot
    <3>a. 3 \in Outputs /\ 3 \notin Coils
      BY Values
    <3>b. \A e \in Dir : 3 # Coil(e) /\ 3 # State(e)
      BY DEF Dir, Coil, State
    <3>3. r \in Slots_T21
      BY <3>1, <1>0, <1>2, <3>a
    <3>4. Sane(s, r)
      BY <3>2, <3>a, <3>b, Directions DEF Sane
    <3>. QED  BY <3>2, <3>3, <3>4, <1>1, <1>3, Directions
  <2>4. \/ \E d \in Dir : r = Slot(RstCmd, Coil(d), Timer_Val, TRUE) /\ s.out # Coil(Opposite(d))
        \/ \E aux \in Auxes : r = Slot(s.in, Coil_Stop, aux, FALSE) /\ ~ IsTemporaryStop(aux)
    <3>1. CASE s.in = ToggleCmd
      <4>1. CASE s.out \in Coils
        <5>1. s.out \in Auxes /\ ~ IsTemporaryStop(s.out)
          BY <4>1, Values
        <5>. QED  BY <5>1, <4>1, <3>1, <2>1 DEF Command_T21
      <4>2. CASE s.out \notin Coils
        <5>1. \E d \in Dir : r = Slot(RstCmd, Coil(d), Timer_Val, TRUE)
          BY <4>2, <3>1, <2>1 DEF Command_T21, Dir
        <5>2. \A d \in Dir : s.out # Coil(Opposite(d))
          BY <4>2 DEF Coils, Dir, Opposite
        <5>. QED  BY <5>1, <5>2
      <4>. QED  BY <4>1, <4>2
    <3>2. CASE s.in # ToggleCmd /\ \E d \in Dir : /\ s.in = Cmd_Local(d)
                                                 /\ s.out \in {Coil_Stop, State(Opposite(d))}
      <4>1. PICK d \in Dir : s.in = Cmd_Local(d) /\ s.out \in {Coil_Stop, State(Opposite(d))}
        BY <3>2
      <4>2. d = CHOOSE e \in Dir : s.in = Cmd_Local(e)
        BY <4>1 DEF Dir, Cmd_Local
      <4>3. r = Slot(RstCmd, Coil(d), Timer_Val, TRUE)
        BY <4>2, <3>2, <2>1 DEF Command_T21
      <4>4. s.out # Coil(Opposite(d))
        BY <4>1 DEF Dir, State, Coil, Opposite
      <4>. QED  BY <4>3, <4>4
    <3>3. CASE s.in # ToggleCmd /\ ~ \E d \in Dir : /\ s.in = Cmd_Local(d)
                                                   /\ s.out \in {Coil_Stop, State(Opposite(d))}
      BY <3>3, <2>1, <1>0 DEF Command_T21
    <3>. QED  BY <3>1, <3>2, <3>3
  <2>. QED  BY <2>2, <2>3, <2>4
<1>4. CASE s.in \notin Commands_T21
  <2>1. CASE \E d \in Dir : r = EndAt(d, s) /\ AtEnd_T21(d, s)
    <3>1. PICK d \in Dir : r = Slot(RstCmd, State(d), s.aux, TRUE) /\ AtEnd_T21(d, s)
      BY <2>1 DEF EndAt
    <3>2. r.in = 0 /\ r.out = State(d) /\ r.aux = s.aux
      BY <3>1 DEF Slot
    <3>a. 0 \in Inputs /\ State(d) \in Outputs /\ State(d) \notin Coils
      BY Values, Directions
    <3>b. \A e \in Dir : State(d) # Coil(e) /\ (State(d) = State(e) => d = e)
      BY Directions
    <3>3. r \in Slots_T21
      BY <3>1, <1>0, <1>2, <3>a
    <3>4. Sane(s, r)
      <4>1. AtEnd_T21(d, s)
        BY <3>1
      <4>. QED  BY <4>1, <3>2, <3>a, <3>b, Directions DEF Sane, AtEnd_T21
    <3>. QED  BY <3>2, <3>3, <3>4, Directions
  <2>2. CASE r = s /\ ~ AtEnd_T21("Close", s) /\ ~ AtEnd_T21("Open", s)
    <3>1. \A d \in Dir : s.in # LimSwitch(d) /\ ~ (s.out = Coil(d) /\ s.aux = Timer_Off)
      BY <2>2, Directions DEF AtEnd_T21
    <3>2. r.out \in Coils => s.aux # Timer_Off
      BY <2>2, <3>1, Values, Directions
    <3>3. \A e \in Dir : s.out = Coil(e) => s.out # Coil(Opposite(e))
      BY Directions
    <3>4. Sane(s, r)
      BY <2>2, <3>1, <3>2, <3>3, <1>0 DEF Sane
    <3>. QED  BY <2>2, <3>1, <3>4
  <2>. QED  BY <2>1, <2>2, <1>4, <1>a, Directions DEF Souliss_Logic_T21
<1>. QED  BY <1>3, <1>4

\* What a command of T22 makes of the output, before it is issued.
Turns(s, t) ==
  /\ \A d \in Dir : s.out = Coil(d) => t.out # Coil(Opposite(d))
  /\ \A d \in Dir : t.out = State(d) => s.out = State(d)
  /\ s.out = Coil_Stop /\ IsTemporaryStop(s.aux) => t.out \notin Coils

LEMMA MayStart_Apart ==
  ASSUME NEW s \in Slots, NEW d \in Dir, MayStart(d, s)
  PROVE  /\ s.out \notin Coils
         /\ s.out = Coil_Stop => ~ IsTemporaryStop(s.aux)
  BY DEF MayStart, Coils, Coil, State, Opposite, Dir

LEMMA Local_T22_Turns ==
  ASSUME NEW s \in Slots, NEW d \in Dir
  PROVE  /\ Local_T22(d, s) \in Slots
         /\ Local_T22(d, s).in = s.in
         /\ Turns(s, Local_T22(d, s))
<1>a. SUFFICES ASSUME NEW t, t = Local_T22(d, s)
               PROVE  t \in Slots /\ t.in = s.in /\ Turns(s, t)
  OBVIOUS
<1>0. Coil(d) \in Outputs /\ Coil_Stop \in Outputs
  BY Values, Directions
<1>1. CASE MayStart(d, s)
  <2>1. t = [s EXCEPT !.out = Coil(d)]
    BY <1>1, <1>a DEF Local_T22
  <2>2. t \in Slots /\ t.in = s.in /\ t.out = Coil(d)
    BY <2>1, <1>0 DEF Slots
  <2>3. \A e \in Dir : s.out # Coil(e)
    BY <1>1, MayStart_Apart DEF Coils
  <2>4. \A e \in Dir : t.out # State(e)
    BY <2>2 DEF Coil, State, Dir
  <2>5. s.out = Coil_Stop => ~ IsTemporaryStop(s.aux)
    BY <1>1, MayStart_Apart
  <2>. QED  BY <2>2, <2>3, <2>4, <2>5 DEF Turns
<1>2. CASE ~ MayStart(d, s)
  <2>1. t = [s EXCEPT !.out = Coil_Stop]
    BY <1>2, <1>a DEF Local_T22
  <2>2. t \in Slots /\ t.in = s.in /\ t.out = 3
    BY <2>1, <1>0 DEF Slots
  <2>3. \A e \in Dir : t.out # Coil(e) /\ t.out # State(e)
    BY <2>2 DEF Coil, State, Dir
  <2>. QED  BY <2>2, <2>3, Directions DEF Turns, Coils
<1>. QED  BY <1>1, <1>2

LEMMA Software_T22_Turns ==
  ASSUME NEW s \in Slots, NEW d \in Dir
  PROVE  /\ Software_T22(d, s) \in Slots
         /\ Software_T22(d, s).in = s.in
         /\ Turns(s, Software_T22(d, s))
<1>a. SUFFICES ASSUME NEW t, t = Software_T22(d, s)
               PROVE  t \in Slots /\ t.in = s.in /\ Turns(s, t)
  OBVIOUS
<1>0. Coil(d) \in Outputs /\ Coil_Stop \in Outputs /\ TimedStop_Val \in Auxes
  BY Values, Directions
<1>1. CASE t = [s EXCEPT !.out = Coil(d)] /\ s.out # Coil(Opposite(d))
           /\ (s.out = Coil_Stop => ~ IsTemporaryStop(s.aux))
  <2>2. t \in Slots /\ t.in = s.in /\ t.out = Coil(d)
    BY <1>1, <1>0 DEF Slots
  <2>3. \A e \in Dir : s.out = Coil(e) => t.out # Coil(Opposite(e))
    BY <1>1, <2>2 DEF Coil, Opposite, Dir
  <2>4. \A e \in Dir : t.out # State(e)
    BY <2>2 DEF Coil, State, Dir
  <2>. QED  BY <1>1, <2>2, <2>3, <2>4 DEF Turns
<1>2. CASE t = [s EXCEPT !.out = Coil_Stop, !.aux = TimedStop_Val]
  <2>2. t \in Slots /\ t.in = s.in /\ t.out = 3
    BY <1>2, <1>0 DEF Slots
  <2>3. \A e \in Dir : t.out # Coil(e) /\ t.out # State(e)
    BY <2>2 DEF Coil, State, Dir
  <2>. QED  BY <2>2, <2>3, Directions DEF Turns, Coils
<1>3. CASE t = s
  <2>1. \A e \in Dir : s.out = Coil(e) => s.out # Coil(Opposite(e))
    BY DEF Coil, Opposite, Dir
  <2>2. s.out = Coil_Stop => s.out \notin Coils
    BY Values
  <2>. QED  BY <1>3, <2>1, <2>2 DEF Turns
<1>4. CASE MayStart(d, s)
  <2>1. t = [s EXCEPT !.out = Coil(d)]
    BY <1>4, <1>a DEF Software_T22
  <2>2. s.out # Coil(Opposite(d)) /\ (s.out = Coil_Stop => ~ IsTemporaryStop(s.aux))
    BY <1>4, MayStart_Apart, Directions DEF Coils
  <2>. QED  BY <1>1, <2>1, <2>2
<1>5. CASE ~ MayStart(d, s) /\ s.out # Coil(Opposite(d)) /\ s.aux = TimedStop_Off
  <2>1. t = [s EXCEPT !.out = Coil(d)]
    BY <1>5, <1>a DEF Software_T22
  <2>2. ~ IsTemporaryStop(s.aux)
    BY <1>5 DEF IsTemporaryStop
  <2>. QED  BY <1>1, <1>5, <2>1, <2>2
<1>. QED  BY <1>2, <1>3, <1>4, <1>5, <1>a DEF Software_T22

LEMMA Issued_T22_Sane ==
  ASSUME NEW s \in Slots, NEW t \in Slots, s.in \in Commands, t.in \in Commands, Turns(s, t)
  PROVE  /\ Issued_T22(t) \in Slots
         /\ Sane(s, Issued_T22(t))
         /\ Stale(Issued_T22(t))
         /\ \A d \in Dir : Issued_T22(t).out = State(d) => s.out = State(d)
<1>a. SUFFICES ASSUME NEW r, r = Issued_T22(t)
               PROVE  /\ r \in Slots /\ Sane(s, r) /\ Stale(r)
                      /\ \A d \in Dir : r.out = State(d) => s.out = State(d)
  OBVIOUS
<1>0. t.in \in Inputs /\ t.out \in Outputs /\ t.aux \in Auxes
  BY DEF Slots
<1>1. r \in Slots /\ r.out = t.out /\ r.aux \in 192 .. 194 /\ r.in \in {0, t.in}
  <2>1. CASE IsTemporaryStop(t.aux)
    <3>1. r = t
      BY <2>1, <1>a DEF Issued_T22
    <3>. QED  BY <3>1, <2>1, <1>0, Values
  <2>2. CASE ~ IsTemporaryStop(t.aux)
    <3>1. r = [in |-> 0, out |-> t.out, aux |-> 192, trig |-> TRUE]
      BY <2>2, <1>a DEF Issued_T22, Slot
    <3>2. 0 \in Inputs /\ 192 \in Auxes
      BY Values
    <3>. QED  BY <3>1, <3>2, <1>0 DEF Slots
  <2>. QED  BY <2>1, <2>2
<1>2. Sane(s, r)
  BY <1>1 DEF Sane, Turns
<1>3. \A d \in Dir : r.in # LimSwitch(d)
  BY <1>1, Values DEF LimSwitch
<1>4. Stale(r)
  BY <1>3 DEF Stale
<1>. QED  BY <1>1, <1>2, <1>4 DEF Turns

\* A toggle is some software command; nothing else is changed.
LEMMA Converted_Slot ==
  ASSUME NEW s \in Slots
  PROVE  /\ Converted(s) \in Slots
         /\ Converted(s).out = s.out /\ Converted(s).aux = s.aux
         /\ Converted(s).in = s.in \/ (s.in \in Commands /\ Converted(s).in \in Commands)
         /\ Converted(s).in # ToggleCmd
<1>1. CASE s.in # ToggleCmd
  BY <1>1 DEF Converted
<1>2. CASE s.in = ToggleCmd
  <2>1. PICK c \in {Cmd_SW(d) : d \in Dir} : Converted(s) = [s EXCEPT !.in = c]
    BY <1>2 DEF Converted, Dir
  <2>2. c \in Commands /\ c \in Inputs /\ c # ToggleCmd
    BY Values, Directions
  <2>. QED  BY <1>2, <2>1, <2>2, Values DEF Slots
<1>. QED  BY <1>1, <1>2

\* T22 leaves a switch event that says nothing new, or that contradicts the
\* movement, in IN_s, and does not act on it.
LEMMA Logic_T22 ==
  ASSUME NEW s \in Slots
  PROVE  /\ Souliss_Logic_T22(s) \in Slots
         /\ Sane(s, Souliss_Logic_T22(s))
         /\ Stale(Souliss_Logic_T22(s))
         /\ \A d \in Dir : s.in = LimSwitch(d) /\ s.out = Coil(Opposite(d)) =>
                            Souliss_Logic_T22(s).out # State(d)
<1>a. SUFFICES ASSUME NEW r, r = Souliss_Logic_T22(s)
               PROVE  /\ r \in Slots /\ Sane(s, r) /\ Stale(r)
                      /\ \A d \in Dir : s.in = LimSwitch(d) /\ s.out = Coil(Opposite(d)) =>
                                         r.out # State(d)
  OBVIOUS
<1>b. PICK c : c = Converted(s)
  OBVIOUS
<1>0. /\ c \in Slots /\ c.out = s.out /\ c.aux = s.aux /\ c.in # ToggleCmd
      /\ c.in = s.in \/ (s.in \in Commands /\ c.in \in Commands)
      /\ s.in \in Inputs /\ s.out \in Outputs /\ s.aux \in Auxes
      /\ c.in \in Inputs
      /\ r = Decide_T22(c)
  <2>1. c \in Slots /\ c.out = s.out /\ c.aux = s.aux /\ c.in # ToggleCmd
        /\ (c.in = s.in \/ (s.in \in Commands /\ c.in \in Commands))
    BY <1>b, Converted_Slot
  <2>. QED  BY <2>1, <1>a, <1>b DEF Slots, Souliss_Logic_T22
<1>1. CASE c.in \in Commands
  <2>0. s.in \in Commands
    BY <1>0, <1>1
  <2>1. ASSUME NEW t \in Slots, t.in = c.in, Turns(c, t), r = Issued_T22(t)
        PROVE  /\ r \in Slots /\ Sane(s, r) /\ Stale(r)
               /\ \A d \in Dir : s.in = LimSwitch(d) /\ s.out = Coil(Opposite(d)) =>
                                  r.out # State(d)
    <3>1. Turns(s, t)
      BY <2>1, <1>0 DEF Turns
    <3>2. \A d \in Dir : s.in # LimSwitch(d)
      BY <2>0, Values, Directions
    <3>. QED  BY <3>1, <3>2, <2>0, <2>1, <1>1, Issued_T22_Sane
  <2>2. CASE c.in = StopCmd
    <3>1. PICK t : t = [c EXCEPT !.out = Coil_Stop]
      OBVIOUS
    <3>2. Coil_Stop \in Outputs
      BY Values
    <3>3. t \in Slots /\ t.in = c.in /\ t.out = 3
      BY <3>1, <3>2, <1>0 DEF Slots
    <3>4. \A e \in Dir : t.out # Coil(e) /\ t.out # State(e)
      BY <3>3 DEF Coil, State, Dir
    <3>5. Turns(c, t)
      BY <3>3, <3>4, Directions DEF Turns, Coils
    <3>. QED  BY <2>1, <2>2, <3>1, <3>3, <3>5, <1>0, Values DEF Decide_T22
  <2>3. CASE c.in # StopCmd /\ \E d \in Dir : c.in = Cmd_Local(d)
    <3>1. PICK d \in Dir : d = CHOOSE e \in Dir : c.in = Cmd_Local(e)
      BY <2>3 DEF Dir
    <3>2. r = Issued_T22(Local_T22(d, c))
      BY <3>1, <2>3, <1>0 DEF Decide_T22
    <3>. QED  BY <2>1, <3>2, Local_T22_Turns, <1>0
  <2>4. CASE c.in # StopCmd /\ ~ \E d \in Dir : c.in = Cmd_Local(d)
    <3>0. \E d \in Dir : c.in = Cmd_SW(d)
      BY <2>4, <1>1, <1>0 DEF Commands
    <3>1. PICK d \in Dir : d = CHOOSE e \in Dir : c.in = Cmd_SW(e)
      BY <3>0 DEF Dir
    <3>2. r = Issued_T22(Software_T22(d, c))
      BY <3>0, <3>1, <2>4, <1>0 DEF Decide_T22
    <3>. QED  BY <2>1, <3>2, Software_T22_Turns, <1>0
  <2>. QED  BY <2>2, <2>3, <2>4
<1>2. CASE c.in \notin Commands
  <2>0. /\ c.in = s.in /\ c.in # StopCmd
        /\ \A d \in Dir : c.in # Cmd_Local(d) /\ c.in # Cmd_SW(d)
    BY <1>0, <1>2 DEF Commands
  <2>1. r = IF AtEnd_T22("Close", c) THEN EndAt("Close", c)
            ELSE IF AtEnd_T22("Open", c) THEN EndAt("Open", c)
            ELSE IF c.out = Coil_Stop /\ c.aux = Timer_Off
                 THEN Slot(RstCmd, NoLimSwitch, c.aux, TRUE)
            ELSE c
    BY <2>0, <1>0 DEF Decide_T22
  <2>2. CASE \E d \in Dir : AtEnd_T22(d, c) /\ r = EndAt(d, c)
    <3>1. PICK d \in Dir : AtEnd_T22(d, c) /\ r = EndAt(d, c)
      BY <2>2
    <3>2. r = [in |-> 0, out |-> State(d), aux |-> c.aux, trig |-> TRUE]
      BY <3>1 DEF EndAt, Slot
    <3>3. 0 \in Inputs /\ State(d) \in Outputs /\ State(d) \notin Coils
      BY Values, Directions
    <3>4. r \in Slots /\ r.in = 0 /\ r.out = State(d)
      BY <3>2, <3>3, <1>0 DEF Slots
    <3>5. \A e \in Dir : State(d) # Coil(e) /\ (State(d) = State(e) => d = e)
      BY DEF Dir, State, Coil
    <3>6. /\ s.in = LimSwitch(d) \/ (s.out = Coil(d) /\ s.aux = Timer_Off)
          /\ ~ (s.in = LimSwitch(d) /\ s.out = Coil(Opposite(d)))
      <4>1. AtEnd_T22(d, c)
        BY <3>1
      <4>2. Coil(d) # Coil(Opposite(d))
        BY DEF Dir, Coil, Opposite
      <4>. QED  BY <4>1, <4>2, <2>0, <1>0 DEF AtEnd_T22
    <3>7. Sane(s, r)
      BY <3>4, <3>3, <3>5, <3>6, Directions DEF Sane
    <3>8. Stale(r)
      BY <3>4 DEF Stale, LimSwitch
    <3>. QED  BY <3>4, <3>5, <3>6, <3>7, <3>8
  <2>3. CASE \A d \in Dir : ~ AtEnd_T22(d, c)
    <3>0. r = IF c.out = Coil_Stop /\ c.aux = Timer_Off
              THEN [in |-> 0, out |-> 32, aux |-> c.aux, trig |-> TRUE] ELSE c
      BY <2>1, <2>3 DEF Dir, Slot
    <3>1. CASE c.out = Coil_Stop /\ c.aux = Timer_Off
      <4>1. 0 \in Inputs /\ 32 \in Outputs /\ 32 \notin Coils
        BY Values
      <4>2. r \in Slots /\ r.in = 0 /\ r.out = 32
        BY <3>0, <3>1, <4>1, <1>0 DEF Slots
      <4>3. \A e \in Dir : 32 # Coil(e) /\ 32 # State(e) /\ r.in # LimSwitch(e)
        BY <4>2 DEF Dir, State, Coil, LimSwitch
      <4>. QED  BY <4>1, <4>2, <4>3, Directions DEF Sane, Stale
    <3>2. CASE ~ (c.out = Coil_Stop /\ c.aux = Timer_Off)
      <4>1. r = c
        BY <3>0, <3>2
      <4>2. r \in Slots /\ r.in = s.in /\ r.out = s.out /\ r.aux = s.aux
        BY <4>1, <1>0, <2>0
      <4>3. \A e \in Dir : ~ (s.out = Coil(e) /\ s.aux = Timer_Off)
        BY <2>3, <1>0 DEF AtEnd_T22
      <4>4. Stale(r)
        BY <2>3, <4>1 DEF Stale, AtEnd_T22
      <4>5. \A e \in Dir : Coil(e) # Coil(Opposite(e)) /\ Coil(Opposite(e)) # State(e)
        BY DEF Dir, Coil, Opposite, State
      <4>6. s.out = Coil_Stop => r.out \notin Coils
        BY <4>2, Values
      <4>7. Sane(s, r)
        BY <4>2, <4>3, <4>5, <4>6 DEF Sane, Coils
      <4>. QED  BY <4>2, <4>4, <4>5, <4>7
    <3>. QED  BY <3>1, <3>2
  <2>. QED  BY <2>1, <2>2, <2>3 DEF Dir
<1>. QED  BY <1>1, <1>2
-----------------------------------------------------------------------------
(* The inductive invariant: what the slot keeps between two calls.         *)

\* T21 makes no temporary stop.
NoStop_T21 == TYP_s = "T21" => ~ IsTemporaryStop(AUXIN_s)

\* A coil is on with a timer, and the timer pays for the rounds it has run;
\* when the timer comes round, the logic has already ended what was over.
Paid ==
  OUT_s \in Coils => /\ AUXIN_s \in Timer_Off .. TimedStop_Val
                     /\ ran + (AUXIN_s - Timer_Off) <= RunLimit
                     /\ due => AUXIN_s > Timer_Off

Rested == OUT_s \notin Coils => ran = 0

\* A switch event is left in IN_s only by T22, and only while it is stale:
\* the outputs that would make it news are reached by commands, which
\* replace it, or by the logic, which would have met it.
Leftover ==
  \A d \in Dir : IN_s = LimSwitch(d) =>
    TYP_s = "T22" /\ OUT_s \in {Coil(Opposite(d)), State(d)}

IInv == TypeOK /\ NoStop_T21 /\ Paid /\ Rested /\ Leftover

\* One fast phase, in terms of what the logic finds and what it leaves.
LEMMA LogicStep ==
  ASSUME IInv, Logic
  PROVE  \E s, r \in Slots :
           /\ s.in = DigIn(IN_s) /\ s.out = OUT_s /\ s.aux = AUXIN_s
           /\ IN_s' = r.in /\ OUT_s' = r.out /\ AUXIN_s' = r.aux /\ trigger' \in BOOLEAN
           /\ ran' = IF s.in \in Commands \/ r.out \notin Coils THEN 0 ELSE ran
           /\ Sane(s, r) /\ Stale(r)
           /\ TYP_s = "T21" => /\ ~ IsTemporaryStop(r.aux)
                               /\ \A d \in Dir : r.in # LimSwitch(d)
           /\ TYP_s = "T22" => \A d \in Dir : s.in = LimSwitch(d) /\ s.out = Coil(Opposite(d)) =>
                                               r.out # State(d)
<1>1. PICK s : s = Slot(DigIn(IN_s), OUT_s, AUXIN_s, FALSE)
  OBVIOUS
<1>2. PICK r : r = IF TYP_s = "T21" THEN Souliss_Logic_T21(s) ELSE Souliss_Logic_T22(s)
  OBVIOUS
<1>3. DigIn(IN_s) \in Inputs /\ OUT_s \in Outputs /\ AUXIN_s \in Auxes
  <2>1. IN_s \in Inputs /\ LimSwitch("Close") \in Inputs /\ LimSwitch("Open") \in Inputs
    BY Values, Directions DEF IInv, TypeOK, Inputs
  <2>. QED  BY <2>1 DEF IInv, TypeOK, Auxes, DigIn
<1>4. s \in Slots /\ s.in = DigIn(IN_s) /\ s.out = OUT_s /\ s.aux = AUXIN_s
  BY <1>1, <1>3 DEF Slot, Slots
<1>5. /\ SlotLogic(r)
      /\ ran' = IF DigIn(IN_s) \in Commands \/ r.out \notin Coils THEN 0 ELSE ran
  BY <1>1, <1>2, Zenon DEF Logic
<1>6. /\ r \in Slots /\ Sane(s, r) /\ Stale(r)
      /\ TYP_s = "T21" => /\ ~ IsTemporaryStop(r.aux)
                          /\ \A d \in Dir : r.in # LimSwitch(d)
      /\ TYP_s = "T22" => \A d \in Dir : s.in = LimSwitch(d) /\ s.out = Coil(Opposite(d)) =>
                                          r.out # State(d)
  <2>1. CASE TYP_s = "T21"
    <3>1. s \in Slots_T21
      BY <2>1, <1>4 DEF Slots_T21, IInv, NoStop_T21
    <3>2. r \in Slots_T21 /\ Sane(s, r) /\ \A d \in Dir : r.in # LimSwitch(d)
      BY <3>1, <2>1, <1>2, Logic_T21
    <3>. QED  BY <3>2, <2>1 DEF Slots_T21, Stale
  <2>2. CASE TYP_s # "T21"
    <3>. QED  BY <2>2, <1>2, <1>4, Logic_T22
  <2>. QED  BY <2>1, <2>2
<1>7. trigger' \in BOOLEAN
  <2>1. trigger' = (trigger \/ r.trig)
    BY <1>5 DEF SlotLogic
  <2>. QED  BY <2>1
<1>8. IN_s' = r.in /\ OUT_s' = r.out /\ AUXIN_s' = r.aux
  BY <1>5 DEF SlotLogic
<1>. QED  BY <1>4, <1>5, <1>6, <1>7, <1>8

LEMMA IInv_Init == Init => IInv
<1>. SUFFICES ASSUME Init PROVE IInv
  OBVIOUS
<1>1. /\ TYP_s \in Typicals /\ IN_s = 0 /\ OUT_s \in {0, 3} /\ AUXIN_s = 0 /\ trigger = FALSE
      /\ sent = OUT_s /\ due = FALSE /\ commands = 0 /\ InPin = {} /\ pos \in 0 .. Travel /\ ran = 0
  BY DEF Init, SlotInit
<1>2. TypeOK
  <2>1. trigger \in BOOLEAN /\ due \in BOOLEAN
    BY <1>1
  <2>2. OUT_s \in Outputs /\ sent \in Outputs
    BY <1>1, Values
  <2>3. ran \in 0 .. RunLimit + 1 /\ commands \in 0 .. MaxCommands
    BY <1>1, SlotConstants DEF RunLimit
  <2>. QED  BY <1>1, <2>1, <2>2, <2>3 DEF TypeOK
<1>3. NoStop_T21
  BY <1>1 DEF NoStop_T21, IsTemporaryStop
<1>4. Paid
  BY <1>1, Values DEF Paid
<1>5. Leftover
  BY <1>1 DEF Leftover, LimSwitch
<1>6. Rested
  BY <1>1 DEF Rested
<1>. QED  BY <1>2, <1>3, <1>4, <1>5, <1>6 DEF IInv

LEMMA IInv_Logic == ASSUME IInv, Logic PROVE IInv'
<1>1. PICK s \in Slots, r \in Slots :
           /\ s.in = DigIn(IN_s) /\ s.out = OUT_s /\ s.aux = AUXIN_s
           /\ IN_s' = r.in /\ OUT_s' = r.out /\ AUXIN_s' = r.aux /\ trigger' \in BOOLEAN
           /\ ran' = IF s.in \in Commands \/ r.out \notin Coils THEN 0 ELSE ran
           /\ Sane(s, r) /\ Stale(r)
           /\ TYP_s = "T21" => /\ ~ IsTemporaryStop(r.aux)
                               /\ \A d \in Dir : r.in # LimSwitch(d)
  BY LogicStep
<1>2. /\ TYP_s' = TYP_s /\ sent' = sent /\ due' = TRUE /\ commands' = commands /\ pos' = pos
      /\ InPin' \subseteq Dir
  BY DEF Logic, SlotLogic
<1>3. TypeOK'
  <2>1. IN_s' \in Inputs /\ OUT_s' \in Outputs /\ AUXIN_s' \in Auxes
    BY <1>1 DEF Slots
  <2>2. ran' \in 0 .. RunLimit + 1
    BY <1>1 DEF IInv, TypeOK, RunLimit
  <2>. QED  BY <1>1, <1>2, <2>1, <2>2 DEF IInv, TypeOK, Inputs, Auxes
<1>4. NoStop_T21'
  BY <1>1, <1>2 DEF NoStop_T21
<1>5. Paid'
  <2>1. SUFFICES ASSUME r.out \in Coils
                 PROVE  /\ r.aux \in 160 .. 194 /\ r.aux > 160
                        /\ ran' + (r.aux - 160) <= 34
    BY <1>1 DEF Paid, RunLimit
  <2>2. ran \in 0 .. 35
    BY DEF IInv, TypeOK, RunLimit
  <2>3. CASE s.in \in Commands /\ r.aux \in 192 .. 194
    BY <2>1, <2>2, <2>3, <1>1
  <2>4. CASE r.out = s.out /\ r.aux = s.aux /\ s.aux # Timer_Off
    <3>1. s.aux \in 160 .. 194 /\ ran + (s.aux - 160) <= 34
      BY <2>1, <2>4, <1>1 DEF IInv, Paid, RunLimit
    <3>. QED  BY <3>1, <2>2, <2>4, <1>1
  <2>. QED  BY <2>1, <2>3, <2>4, <1>1 DEF Sane
<1>6. Leftover'
  <2>1. TYP_s \in {"T21", "T22"}
    BY DEF IInv, TypeOK, Typicals
  <2>. QED  BY <1>1, <1>2, <2>1 DEF Leftover, Stale
<1>7. Rested'
  BY <1>1 DEF Rested
<1>. QED  BY <1>3, <1>4, <1>5, <1>6, <1>7 DEF IInv

LEMMA IInv_Timer == ASSUME IInv, Timer PROVE IInv'
<1>1. /\ due /\ due' = FALSE /\ IN_s' = IN_s /\ OUT_s' = OUT_s
      /\ AUXIN_s' = (IF Counts THEN AUXIN_s - 1 ELSE AUXIN_s)
      /\ ran' = (IF OUT_s \in Coils THEN Capped(ran, RunLimit + 1) ELSE 0)
      /\ UNCHANGED <<TYP_s, trigger, sent, commands, InPin, pos>>
  BY DEF Timer, SlotTimer, Slot
<1>2. AUXIN_s \in Auxes /\ ran \in 0 .. 35 /\ TYP_s \in {"T21", "T22"}
  BY DEF IInv, TypeOK, Auxes, RunLimit, Typicals
<1>3. Counts => AUXIN_s \in 161 .. 194
  BY <1>2, Values DEF Counts
<1>4. AUXIN_s' \in Auxes
  BY <1>1, <1>2, <1>3, Values
<1>5. ran' \in 0 .. 35
  BY <1>1, <1>2 DEF Capped, RunLimit
<1>6. TypeOK'
  <2>1. trigger' = trigger /\ due' \in BOOLEAN
    BY <1>1
  <2>2. ran' \in 0 .. RunLimit + 1
    BY <1>5 DEF RunLimit
  <2>. QED  BY <1>1, <1>4, <2>1, <2>2 DEF IInv, TypeOK, Auxes
<1>7. NoStop_T21'
  <2>1. SUFFICES ASSUME TYP_s = "T21" PROVE ~ IsTemporaryStop(AUXIN_s')
    BY <1>1 DEF NoStop_T21
  <2>2. ~ IsTemporaryStop(AUXIN_s)
    BY <2>1 DEF IInv, NoStop_T21
  <2>. QED  BY <2>2, <1>1, <1>2, <1>3, <1>4, Values
<1>8. Paid'
  <2>1. SUFFICES ASSUME OUT_s \in Coils
                 PROVE  AUXIN_s' \in 160 .. 194 /\ ran' + (AUXIN_s' - 160) <= 34
    BY <1>1 DEF Paid, RunLimit
  <2>2. AUXIN_s \in 161 .. 194 /\ ran + (AUXIN_s - 160) <= 34
    BY <2>1, <1>1 DEF IInv, Paid, RunLimit
  <2>3. Counts
    <3>1. CASE TYP_s = "T21"
      BY <3>1, <2>2 DEF Counts
    <3>2. CASE TYP_s # "T21"
      BY <3>2, <2>2 DEF Counts, IsTemporaryStop
    <3>. QED  BY <3>1, <3>2
  <2>4. ran' <= ran + 1
    BY <2>1, <1>1, <1>2 DEF Capped, RunLimit
  <2>5. AUXIN_s' = AUXIN_s - 1
    BY <2>3, <1>1
  <2>6. AUXIN_s \in Int /\ ran \in Int /\ ran' \in Int
    BY <2>2, <1>2, <1>5
  <2>7. AUXIN_s' \in 160 .. 194
    BY <2>2, <2>5
  <2>8. ran' + (AUXIN_s' - 160) <= 34
    <3>1. \A x, y, m \in Int : x + (m - 160) <= 34 /\ y <= x + 1 => y + ((m - 1) - 160) <= 34
      OBVIOUS
    <3>2. ran + (AUXIN_s - 160) <= 34
      BY <2>2
    <3>. QED  BY <3>1, <3>2, <2>4, <2>5, <2>6
  <2>. QED  BY <2>7, <2>8
<1>9. Leftover'
  BY <1>1 DEF IInv, Leftover
<1>10. Rested'
  BY <1>1 DEF Rested
<1>. QED  BY <1>6, <1>7, <1>8, <1>9, <1>10 DEF IInv

LEMMA IInv_User == ASSUME IInv, User PROVE IInv'
<1>1. PICK c \in Commands : Command(c) /\ UNCHANGED doorVars
  BY DEF User
<1>2. /\ commands < MaxCommands /\ commands' = commands + 1 /\ IN_s' = c
      /\ UNCHANGED <<TYP_s, OUT_s, AUXIN_s, trigger, sent, due, InPin, pos, ran>>
  BY <1>1 DEF Command, doorVars
<1>3. TypeOK'
  BY <1>2, SlotConstants DEF IInv, TypeOK
<1>4. NoStop_T21' /\ Paid' /\ Rested'
  BY <1>2 DEF IInv, NoStop_T21, Paid, Rested
<1>5. Leftover'
  <2>1. \A d \in Dir : c # LimSwitch(d)
    BY Values, Directions
  <2>. QED  BY <1>2, <2>1 DEF Leftover
<1>. QED  BY <1>3, <1>4, <1>5 DEF IInv

LEMMA IInv_Quiet ==
  ASSUME IInv, Publish \/ Move \/ UNCHANGED vars
  PROVE  IInv'
<1>1. CASE Publish
  BY <1>1, ZenonT(30) DEF Publish, Communicate, doorVars, IInv, TypeOK, NoStop_T21, Paid, Rested, Leftover
<1>2. CASE Move
  BY <1>2 DEF Move, IInv, TypeOK, NoStop_T21, Paid, Rested, Leftover
<1>3. CASE UNCHANGED vars
  BY <1>3 DEF vars, IInv, TypeOK, NoStop_T21, Paid, Rested, Leftover, Outputs, Coils
<1>. QED  BY <1>1, <1>2, <1>3

LEMMA IInv_Next == IInv /\ [Next]_vars => IInv'
<1>. SUFFICES ASSUME IInv, [Next]_vars PROVE IInv'
  OBVIOUS
<1>1. CASE Logic  BY <1>1, IInv_Logic
<1>2. CASE Timer  BY <1>2, IInv_Timer
<1>3. CASE User   BY <1>3, IInv_User
<1>4. CASE Publish \/ Move \/ UNCHANGED vars  BY <1>4, IInv_Quiet
<1>. QED  BY <1>1, <1>2, <1>3, <1>4 DEF Next

LEMMA IInv_Always == Spec => []IInv
  BY IInv_Init, IInv_Next, PTL DEF Spec
-----------------------------------------------------------------------------
(* What holds of T21 and T22.                                              *)

\* What one step makes of the output: nothing, or what the logic makes of it
\* when it meets the event of a pressed switch or a stale one.
LEMMA OutStep ==
  ASSUME IInv, [Next]_vars
  PROVE  \/ OUT_s' = OUT_s
         \/ \E s, r \in Slots :
              /\ s.out = OUT_s /\ s.aux = AUXIN_s /\ OUT_s' = r.out /\ Sane(s, r)
              /\ \A d \in Dir : s.in = LimSwitch(d) =>
                   Pressed(d) \/ OUT_s = State(d) \/ r.out # State(d)
<1>1. CASE Logic
  <2>1. PICK s \in Slots, r \in Slots :
           /\ s.in = DigIn(IN_s) /\ s.out = OUT_s /\ s.aux = AUXIN_s /\ OUT_s' = r.out
           /\ Sane(s, r)
           /\ TYP_s = "T22" => \A d \in Dir : s.in = LimSwitch(d) /\ s.out = Coil(Opposite(d)) =>
                                               r.out # State(d)
    BY <1>1, LogicStep
  <2>2. ASSUME NEW d \in Dir, s.in = LimSwitch(d), ~ Pressed(d)
        PROVE  OUT_s = State(d) \/ r.out # State(d)
    <3>1. LimSwitch("Close") # LimSwitch("Open")
      BY Directions
    <3>2. IN_s = LimSwitch(d)
      BY <2>1, <2>2, <3>1 DEF DigIn, Edge, Dir
    <3>3. TYP_s = "T22" /\ (OUT_s = Coil(Opposite(d)) \/ OUT_s = State(d))
      BY <3>2 DEF IInv, Leftover
    <3>. QED  BY <2>1, <2>2, <3>3
  <2>. QED  BY <2>1, <2>2
<1>2. CASE Timer
  BY <1>2 DEF Timer, SlotTimer, Slot
<1>3. CASE User
  BY <1>3 DEF User, Command
<1>4. CASE Publish \/ Move \/ UNCHANGED vars
  BY <1>4 DEF Publish, Communicate, Move, vars
<1>. QED  BY <1>1, <1>2, <1>3, <1>4 DEF Next

\* Every variable keeps its type, the bytes of the slot those that T21 and
\* T22 know.
THEOREM TypeCorrect == Spec => []TypeOK
<1>1. IInv => TypeOK
  BY DEF IInv
<1>. QED  BY <1>1, IInv_Always, PTL

\* No coil is on for longer than its timer without a command, for any number
\* of commands and switch events in any order.
THEOREM RunBoundedHolds == Spec => []RunBounded
<1>1. IInv => RunBounded
  <2>1. SUFFICES ASSUME IInv PROVE RunBounded
    OBVIOUS
  <2>2. CASE OUT_s \in Coils
    <3>1. AUXIN_s \in 160 .. 194 /\ ran + (AUXIN_s - 160) <= 34 /\ ran \in 0 .. 35
      BY <2>1, <2>2 DEF IInv, TypeOK, Paid, RunLimit
    <3>. QED  BY <3>1 DEF RunBounded, RunLimit
  <2>3. CASE OUT_s \notin Coils
    BY <2>1, <2>3 DEF IInv, Rested, RunBounded, RunLimit
  <2>. QED  BY <2>2, <2>3
<1>. QED  BY <1>1, IInv_Always, PTL

\* No round of the sketch replaces one direction by the other.
THEOREM NoReversalHolds == Spec => NoReversal
<1>1. IInv /\ [Next]_vars =>
        [\A d \in Dir : TYP_s \in Typicals /\ OUT_s = Coil(d) => OUT_s' # Coil(Opposite(d))]_vars
  <2>1. SUFFICES ASSUME IInv, [Next]_vars, NEW d \in Dir, OUT_s = Coil(d)
                 PROVE  OUT_s' # Coil(Opposite(d))
    OBVIOUS
  <2>2. Coil(d) # Coil(Opposite(d))
    BY DEF Dir, Coil, Opposite
  <2>. QED  BY <2>1, <2>2, OutStep DEF Sane
<1>. QED  BY <1>1, IInv_Always, PTL DEF Spec, NoReversal

\* No command starts the motor during a temporary stop.
THEOREM TemporaryStopHoldsAlways == Spec => TemporaryStopHolds
<1>1. IInv /\ [Next]_vars =>
        [OUT_s = Coil_Stop /\ IsTemporaryStop(AUXIN_s) /\ TYP_s \in Typicals =>
           OUT_s' \notin Coils]_vars
  <2>1. SUFFICES ASSUME IInv, [Next]_vars, OUT_s = Coil_Stop, IsTemporaryStop(AUXIN_s)
                 PROVE  OUT_s' \notin Coils
    OBVIOUS
  <2>2. Coil_Stop \notin Coils
    BY Values
  <2>. QED  BY <2>1, <2>2, OutStep DEF Sane
<1>. QED  BY <1>1, IInv_Always, PTL DEF Spec, TemporaryStopHolds

\* An end is reported for its switch, pressed now, or for its timer.
THEOREM EndStateJustifiedHolds == Spec => EndStateJustified
<1>1. IInv /\ [Next]_vars =>
        [\A d \in Dir : TYP_s \in Typicals /\ OUT_s # State(d) /\ OUT_s' = State(d) =>
            Pressed(d) \/ (OUT_s = Coil(d) /\ AUXIN_s = Timer_Off)]_vars
  <2>1. SUFFICES ASSUME IInv, [Next]_vars, NEW d \in Dir, OUT_s # State(d), OUT_s' = State(d)
                 PROVE  Pressed(d) \/ (OUT_s = Coil(d) /\ AUXIN_s = Timer_Off)
    OBVIOUS
  <2>. QED  BY <2>1, OutStep DEF Sane
<1>. QED  BY <1>1, IInv_Always, PTL DEF Spec, EndStateJustified
=============================================================================
