-------------------------------- MODULE Pacing --------------------------------
(***************************************************************************)
(* The send clocks: next_send_time_ns of a paced connection or stream and  *)
(* global_next_send_time_ns_ of a run with a total rate.  A slot is due    *)
(* when its time has come, taking it moves the clock on by one interval,   *)
(* and a clock more than four intervals late starts again from the present.*)
(*                                                                         *)
(* Times are integers.  A clock that has no time yet is zero in the code;  *)
(* here it starts when it is first read.                                   *)
(***************************************************************************)
EXTENDS Integers

CONSTANTS
  Interval,  \* pacing_interval_ns_, or 1e9 / profile.send_pps
  MaxTime    \* bound of the model on the time

ASSUME PacingAssumption == Interval \in Nat \ {0} /\ MaxTime \in Nat

VARIABLES
  now,        \* NowNs()
  seen,       \* the now_ns the thread works with, read at some point before
  fresh,      \* 1 until a slot is taken on that reading, then 0
  nextSend,   \* the clock
  slots,      \* intervals used up by slots taken, since the clock started
  start,      \* when the clock started
  since, before  \* an arbitrary instant, and slots at that instant

vars == <<now, seen, fresh, nextSend, slots, start, since, before>>

Init ==
  /\ now \in 1 .. 2
  /\ seen = now /\ nextSend = now /\ start = now /\ since = now
  /\ slots = 0 /\ before = 0 /\ fresh = 0

Tick ==
  /\ now < MaxTime
  /\ now' = now + 1
  /\ UNCHANGED <<seen, fresh, nextSend, slots, start, since, before>>

\* The thread reads the clock; it may be delayed before it uses what it read.
ReadNow ==
  /\ seen' = now /\ fresh' = 1
  /\ UNCHANGED <<now, nextSend, slots, start, since, before>>

\* Mutants: the slot keeps its time; a late clock is never put right.
AdvanceToNow(t) == t
AdvanceOnly(t)  == nextSend + Interval

\* What taking a slot makes of the clock, at the time t the thread has read.
Advance(t) ==
  IF nextSend + Interval + 4 * Interval < t THEN t ELSE nextSend + Interval

\* The slot is due.  Per client and per stream it is taken before a frame is found,
\* in a total rate after one was sent; either way a frame needs a slot, and every
\* slot a reading of its own.
TakeSlot ==
  /\ fresh = 1 /\ nextSend <= seen
  /\ fresh' = 0
  /\ nextSend' = Advance(seen)
  /\ slots' = slots + Interval
  /\ UNCHANGED <<now, seen, start, since, before>>

\* The observer begins to count.
Observe ==
  /\ since' = now /\ before' = slots
  /\ UNCHANGED <<now, seen, fresh, nextSend, slots, start>>

Next == Tick \/ ReadNow \/ TakeSlot \/ Observe

Spec == Init /\ [][Next]_vars

-----------------------------------------------------------------------------
(* Properties.                                                             *)

\* The types of the variables.
TypeOK ==
  /\ now \in Nat /\ seen \in Nat /\ fresh \in {0, 1} /\ nextSend \in Nat /\ slots \in Nat
  /\ start \in Nat /\ since \in Nat /\ before \in Nat

\* Catching up never beats the rate: at every instant the slots taken, less one,
\* fit in the time since the clock started.
RateKept == slots - Interval <= now - start

\* After a stall of any length a burst has at most seven slots: since any instant,
\* the slots taken exceed those the rate gives to the elapsed time by at most seven
\* (six, and one more on a reading made before that instant).
BurstBounded == (slots - before) - 7 * Interval <= now - since

=============================================================================
