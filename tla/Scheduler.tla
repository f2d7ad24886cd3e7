----------------------------- MODULE Scheduler -----------------------------
(***************************************************************************)
(* The cooperative scheduler of a sketch (base/SpeakEasy.h): one pass of   *)
(* loop() is EXECUTEFAST() { UPDATEFAST(); ... } EXECUTESLOW()             *)
(* { UPDATESLOW(); ... }, where EXECUTESLOW is an else, and the blocks     *)
(* inside run at the phases that are multiples of their period             *)
(* (FAST_x10ms(n), SLOW_x10s(n)) or shifted from them (SHIFT_x).           *)
(***************************************************************************)
EXTENDS Integers

CONSTANTS
  time_base_fast,  \* ms                                     (code: 10)
  time_base_slow,  \* ms                                     (code: 10000)
  num_phases,      \* phases before a counter wraps          (code: 1000)
  Period,          \* n of FAST_x10ms(n) or SHIFT_x10ms(n)
  Shift,           \* where the block runs in its period; 0 for FAST_x10ms
  WRAP,            \* values of millis()                     (code: 2^32)
  MAXBODY          \* longest pass in ms

ASSUME SchedulerConstants ==
  /\ {time_base_fast, time_base_slow, MAXBODY} \subseteq Nat
  /\ {num_phases, Period, WRAP} \subseteq Nat \ {0}
  /\ Shift \in 0 .. Period - 1
  /\ time_base_fast < time_base_slow
  /\ time_base_slow + 2 * MAXBODY + 1 < WRAP

Phase == 0 .. num_phases - 1

VARIABLES
  now,           \* millis()
  tmr_fast,      \* millis() at the last fast round
  tmr_slow,      \* millis() at the last slow round
  phase_fast,    \* counters of the rounds
  phase_slow,
  elapsed_fast,  \* history: ms waited the last fast round, WRAP when longer
  elapsed_slow,  \* history: ms waited the last slow round, WRAP when longer
  waited,         \* history: fast rounds waited the block last ran
  gap            \* history: fast rounds between its last two runs, 0 at first

schedVars == <<now, tmr_fast, tmr_slow, phase_fast, phase_slow, elapsed_fast,
          elapsed_slow, waited, gap>>

SchedInit ==
  /\ now \in 0 .. WRAP - 1
  /\ tmr_fast = now /\ tmr_slow = now
  /\ phase_fast = 0 /\ phase_slow = 0
  /\ elapsed_fast = 0 /\ elapsed_slow = 0
  /\ waited = 0 /\ gap = 0

\* millis() - tmr > base, in unsigned arithmetic.
IsDue(tmr, base) == (now - tmr) % WRAP > base

NextPhase(p) == (p + 1) % num_phases

\* Mutant: the block runs at one phase and not at its multiples.
Runs_Once(p) == p = Period

\* The block runs in phase p.
Runs(p) == p % Period = Shift

Longer(e, d) == IF e + d < WRAP THEN e + d ELSE WRAP

EXECUTEFAST(d) ==
  /\ IsDue(tmr_fast, time_base_fast)
  /\ tmr_fast' = now
  /\ phase_fast' = NextPhase(phase_fast)
  /\ IF Runs(phase_fast') THEN waited' = 0 /\ gap' = waited + 1
                          ELSE waited' = waited + 1 /\ UNCHANGED gap
  /\ now' = (now + d) % WRAP
  /\ elapsed_fast' = d
  /\ elapsed_slow' = Longer(elapsed_slow, d)
  /\ UNCHANGED <<tmr_slow, phase_slow>>

\* The else of EXECUTESLOW: a round that has no fast blocks to run.
SlowTurn == ~ IsDue(tmr_fast, time_base_fast)

EXECUTESLOW(d) ==
  /\ SlowTurn
  /\ IsDue(tmr_slow, time_base_slow)
  /\ tmr_slow' = now
  /\ phase_slow' = NextPhase(phase_slow)
  /\ now' = (now + d) % WRAP
  /\ elapsed_fast' = Longer(elapsed_fast, d)
  /\ elapsed_slow' = d
  /\ UNCHANGED <<tmr_fast, phase_fast, waited, gap>>

\* Passes of loop() that run nothing, until millis() has moved on.
IdlePass ==
  /\ ~ IsDue(tmr_fast, time_base_fast)
  /\ ~ (SlowTurn /\ IsDue(tmr_slow, time_base_slow))
  /\ now' = (now + 1) % WRAP
  /\ elapsed_fast' = Longer(elapsed_fast, 1)
  /\ elapsed_slow' = Longer(elapsed_slow, 1)
  /\ UNCHANGED <<tmr_fast, tmr_slow, phase_fast, phase_slow, waited, gap>>

SchedNext == IdlePass \/ \E d \in 0 .. MAXBODY : EXECUTEFAST(d) \/ EXECUTESLOW(d)

SchedSpec == SchedInit /\ [][SchedNext]_schedVars
-----------------------------------------------------------------------------
(* Properties.                                                             *)

Larger(a, b) == IF a > b THEN a ELSE b

\* The rounds come in time, also when millis() wraps: the longest pass is all
\* that delays a fast one; a slow one waits for one fast round and one pass at
\* most, as long as every pass is shorter than the fast time base.
RoundsInTime ==
  /\ elapsed_fast <= time_base_fast + Larger(1, MAXBODY)
  /\ elapsed_slow <= time_base_slow + 2 * MAXBODY + 1

\* So does a block of period n, every n fast rounds; the wrap of the phases
\* delays a shifted block by its shift at most.
InTime == RoundsInTime /\ waited < Period + Shift /\ gap <= Period + Shift
=============================================================================
