------------------------------- MODULE Buttons -------------------------------
(***************************************************************************)
(* Push buttons (base/LocalIO.cpp): helpers that tell a short press from a *)
(* long one, repeat a command while the button is held, filter an edge, or *)
(* switch a group of lights on one by one.  Each pin has a state of its    *)
(* own, but all share one start time.  The sketch calls them one after the *)
(* other, once per round; buttons are pressed and released at any time.    *)
(***************************************************************************)
EXTENDS Integers, FiniteSets, FiniteSetsExt

CONSTANTS
  Pin,       \* the pins are 1 .. n, called in this order
  Helpers,   \* the helpers a sketch may use
  Holdtime,  \* ms until a press is a long one, or the next step
  MaxGap,    \* bound: ms between two rounds
  Wrap,      \* millis() wraps at                                (code: 2^32)
  Group      \* number of lights of the group

ASSUME ButtonsConstants ==
  /\ IsFiniteSet(Pin) /\ Pin # {} /\ Pin = 1 .. Cardinality(Pin)
  /\ Helpers \subseteq {"DigInFilter", "DigInHold", "DigKeepHold", "DigInHoldSteps"}
  /\ {Holdtime, MaxGap, Group, Wrap} \subseteq Nat \ {0}
  /\ Wrap % 2 = 0 /\ Wrap > 2 * (Holdtime + MaxGap)

VARIABLES
  helper,    \* what the sketch calls for each pin
  InPin,     \* state of each pin
  OutPin,    \* steps: lights that were on when the long press began
  elapsed,   \* millis() - souliss_time
  next,      \* pin that is called next
  lights,    \* lights of the group that are on
  lightCmd,  \* commands in the inputs of the group: light -> "none" ..
  held,      \* history: ms since the press was seen, at most HeldCap
  since,     \* history: ms since then or since the last command, at most HeldCap
  said,      \* history: what the press in course has sent
  stepped    \* history: lights it has switched on

buttonVars == <<helper, InPin, OutPin, elapsed, next, lights, lightCmd, held, since, said, stepped>>

Light == 1 .. Group
HeldCap == Group * Holdtime + MaxGap

ButtonsInit ==
  /\ helper \in [Pin -> Helpers]
  /\ InPin = [p \in Pin |-> "RESET"] /\ OutPin = [p \in Pin |-> 0]
  /\ elapsed \in 0 .. Wrap - 1 /\ next = 1
  /\ lights = {} /\ lightCmd = [l \in Light |-> "none"]
  /\ held = [p \in Pin |-> 0] /\ since = [p \in Pin |-> 0]
  /\ said = [p \in Pin |-> {}] /\ stepped = [p \in Pin |-> {}]
-----------------------------------------------------------------------------
(* One call of a helper for pin p.  What it sends is kept in said only:    *)
(* the typicals that take it are those of T1n.                             *)

\* abs((long)(millis() - souliss_time))
Waited == IF elapsed < Wrap \div 2 THEN elapsed ELSE Wrap - elapsed

Pinned(p, state) == InPin' = [InPin EXCEPT ![p] = state]

\* Nothing is sent.
Silent == UNCHANGED <<since, said>>
Send(p, value) ==
  /\ since' = [since EXCEPT ![p] = 0]
  /\ said' = [said EXCEPT ![p] = @ \cup {value}]

\* Mutant: the start time is not taken.
RecordTime_Not == UNCHANGED elapsed
RecordTime == elapsed' = 0

\* The press is seen; a new one begins for the history.
Press(p) ==
  /\ InPin[p] = "RESET"
  /\ Pinned(p, "SET")
  /\ IF helper[p] = "DigInFilter" THEN UNCHANGED elapsed ELSE RecordTime
  /\ held' = [held EXCEPT ![p] = 0] /\ since' = [since EXCEPT ![p] = 0]
  /\ said' = [said EXCEPT ![p] = {}] /\ stepped' = [stepped EXCEPT ![p] = {}]
  /\ UNCHANGED <<OutPin, lightCmd>>

\* The edge is taken when the next call still sees it.
DigInFilter(p, down) ==
  /\ helper[p] = "DigInFilter"
  /\ \/ down /\ InPin[p] = "SET" /\ Pinned(p, "ACTIVE") /\ Send(p, "value")
     \/ down /\ InPin[p] \notin {"RESET", "SET"} /\ UNCHANGED InPin /\ Silent
     \/ ~ down /\ InPin[p] = "ACTIVE" /\ Pinned(p, "RELEASED") /\ Silent
     \/ ~ down /\ InPin[p] # "ACTIVE" /\ Pinned(p, "RESET") /\ Silent
  /\ UNCHANGED <<OutPin, elapsed, lightCmd, held, stepped>>

\* Held for long: at once for a hold, again and again for a keep hold.
IsLong(p) ==
  Waited > Holdtime /\ (InPin[p] = "SET" \/ (helper[p] = "DigKeepHold" /\ InPin[p] = "ACTIVE"))

\* Souliss_DigInHold and Souliss_DigKeepHold, which takes the time again.
DigInHold(p, down) ==
  /\ helper[p] \in {"DigInHold", "DigKeepHold"}
  /\ \/ /\ down /\ IsLong(p)
        /\ Pinned(p, "ACTIVE") /\ Send(p, "value_hold")
        /\ IF helper[p] = "DigKeepHold" THEN RecordTime ELSE UNCHANGED elapsed
     \/ /\ down /\ ~ IsLong(p)
        /\ Silent /\ UNCHANGED <<InPin, elapsed>>
     \/ /\ ~ down /\ Pinned(p, "RESET") /\ UNCHANGED elapsed
        /\ IF InPin[p] = "SET" THEN Send(p, "value") ELSE Silent
  /\ UNCHANGED <<OutPin, lightCmd, held, stepped>>

\* A short press switches the whole group off, or its first light on.
ShortStep ==
  lightCmd' = IF lights # {} THEN [l \in Light |-> "off"] ELSE [lightCmd EXCEPT ![1] = "on"]

\* Lights that have had their time, after those that were on before.
Powered(p) == OutPin'[p] + Waited \div Holdtime

FirstOff == Min((Light \ lights) \cup {Group + 1}) - 1

\* Souliss_DigInHoldSteps: held on, it switches on one light after the other.
DigInHoldSteps(p, down) ==
  /\ helper[p] = "DigInHoldSteps"
  /\ \/ /\ ~ down /\ Pinned(p, "RESET") /\ UNCHANGED <<OutPin, stepped>>
        /\ IF InPin[p] = "SET" THEN ShortStep /\ Send(p, "value")
                               ELSE Silent /\ UNCHANGED lightCmd
     \/ /\ down /\ InPin[p] = "SET" /\ UNCHANGED <<OutPin, lightCmd, stepped>> /\ Silent
        /\ Pinned(p, IF Waited > Holdtime THEN "ACTIVE" ELSE "SET")
     \/ /\ down /\ InPin[p] \in {"ACTIVE", "USED"} /\ Waited > Holdtime
        /\ Pinned(p, "USED")
        /\ OutPin' = IF InPin[p] = "ACTIVE" THEN [OutPin EXCEPT ![p] = FirstOff] ELSE OutPin
        /\ LET turn == {l \in Light \ lights : l <= Powered(p)}
           IN  /\ lightCmd' = [l \in Light |-> IF l \in turn THEN "on" ELSE lightCmd[l]]
               /\ stepped' = [stepped EXCEPT ![p] = @ \cup turn]
               /\ IF turn = {} THEN Silent ELSE Send(p, "step")
     \/ /\ down /\ InPin[p] \in {"ACTIVE", "USED"} /\ Waited <= Holdtime
        /\ UNCHANGED <<InPin, OutPin, lightCmd, stepped>> /\ Silent
  /\ UNCHANGED <<elapsed, held>>

Call(p) ==
  /\ next = p
  /\ \E down \in BOOLEAN :
       \/ down /\ Press(p)
       \/ ~ (down /\ InPin[p] = "RESET")
          /\ (DigInFilter(p, down) \/ DigInHold(p, down) \/ DigInHoldSteps(p, down))
  /\ next' = p + 1
  /\ UNCHANGED <<helper, lights>>

\* The round goes on: the logic of the group (T11) takes its commands, and
\* some time passes.
Round ==
  /\ next \notin Pin
  /\ next' = 1
  /\ lights' = {l \in Light : lightCmd[l] = "on" \/ (lightCmd[l] = "none" /\ l \in lights)}
  /\ lightCmd' = [l \in Light |-> "none"]
  /\ \E ms \in 1 .. MaxGap :
       /\ elapsed' = (elapsed + ms) % Wrap
       /\ held' = [p \in Pin |-> IF InPin[p] = "RESET" THEN 0 ELSE Min({held[p] + ms, HeldCap})]
       /\ since' = [p \in Pin |-> IF InPin[p] = "RESET" THEN 0 ELSE Min({since[p] + ms, HeldCap})]
  /\ UNCHANGED <<helper, InPin, OutPin, said, stepped>>

ButtonsNext == Round \/ \E p \in Pin : Call(p)
ButtonsSpec == ButtonsInit /\ [][ButtonsNext]_buttonVars
-----------------------------------------------------------------------------
(* Properties.                                                             *)

\* The group of lights has no other button.
OnlyButton(p) == \A q \in Pin \ {p} : helper[q] # "DigInHoldSteps"

\* What the call of one button may do, and may not.
Honest(p) ==
  /\ said'[p] # said[p] /\ "value_hold" \in said'[p] => held[p] > Holdtime
  /\ InPin'[p] # "RESET" /\ since'[p] < since[p] /\ helper[p] = "DigKeepHold" => since[p] > Holdtime
  /\ ~ {"value", "value_hold"} \subseteq said'[p]
  /\ stepped'[p] # stepped[p] =>
       stepped'[p] \subseteq
         (IF OnlyButton(p) THEN OutPin'[p] + 1 ELSE 1) .. OutPin'[p] + held[p] \div Holdtime

\* Whatever the other buttons do to the start time: a press is called long
\* only when it is, a held button does not repeat its command before its time,
\* a release after a long press sends nothing, and the lights of a group come
\* on in their order, no faster than one for each step after those that were
\* on when the long press began.  A second button of the group may switch
\* these off meanwhile, and they then come on again with the next one.
NothingEarly == [][\A p \in Pin : Honest(p)]_buttonVars

\* "Repeat the command every holdtime while holding the pushbutton"
\* (base/LocalIO.cpp:381): the round that finds the time over sends it.
HeldRepeats ==
  \A p \in Pin : helper[p] = "DigKeepHold" => since[p] <= Holdtime + MaxGap
=============================================================================
