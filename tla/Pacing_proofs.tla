---------------------------- MODULE Pacing_proofs ----------------------------
(***************************************************************************)
(* The bounds of the send clocks, for every interval.  The clock is never  *)
(* behind start + slots, since taking a slot moves it on by an interval at *)
(* least: that is the rate.  A slot taken on a reading not older than an   *)
(* instant leaves the clock at most four intervals before that instant:    *)
(* that is the burst.                                                      *)
(***************************************************************************)
EXTENDS Pacing, TLAPS

\* The slots since the instant observed, in units of time.
Taken == slots - before

TimesInOrder == seen <= now /\ since <= now
TakenCounted == Taken = 0 \/ Taken = Interval \/ Taken >= 2 * Interval
ReadSince    == (fresh = 1 /\ Taken > 0) => since <= seen
ClockNear    == Taken >= 2 * Interval => since + Taken - 6 * Interval <= nextSend

IInv ==
  /\ TypeOK /\ TimesInOrder /\ start <= now
  /\ start + slots <= nextSend
  /\ RateKept /\ TakenCounted /\ ReadSince /\ ClockNear /\ BurstBounded

\* A clock that is moved on gains an interval, and is at most four intervals late.
LEMMA AdvanceBounds ==
  ASSUME TypeOK, NEW t \in Nat
  PROVE  /\ Advance(t) \in Nat
         /\ nextSend + Interval <= Advance(t)
         /\ t - 4 * Interval <= Advance(t)
BY PacingAssumption, SMT DEF Advance, TypeOK

LEMMA InitIInv == Init => IInv
BY PacingAssumption, SMT
  DEF Init, IInv, TypeOK, TimesInOrder, RateKept, TakenCounted, ReadSince, ClockNear,
      BurstBounded, Taken

LEMMA NextIInv == IInv /\ [Next]_vars => IInv'
<1> SUFFICES ASSUME IInv, [Next]_vars PROVE IInv'
  OBVIOUS
<1> USE PacingAssumption
    DEF IInv, TypeOK, TimesInOrder, RateKept, TakenCounted, ReadSince, ClockNear,
        BurstBounded, Taken
<1>1. CASE Tick
  BY <1>1, SMT DEF Tick
<1>2. CASE ReadNow
  BY <1>2, SMT DEF ReadNow
<1>3. CASE TakeSlot
  <2>1. /\ nextSend' \in Nat /\ nextSend + Interval <= nextSend'
        /\ seen - 4 * Interval <= nextSend'
    BY <1>3, AdvanceBounds, SMT DEF TakeSlot
  <2>2. fresh = 1 /\ nextSend <= seen /\ fresh' = 0 /\ slots' = slots + Interval
    BY <1>3 DEF TakeSlot
  <2>3. /\ now' = now /\ seen' = seen /\ start' = start
        /\ since' = since /\ before' = before
    BY <1>3 DEF TakeSlot
  <2>4. TypeOK' /\ TimesInOrder' /\ (start <= now)' /\ (start + slots <= nextSend)'
    BY <2>1, <2>2, <2>3, SMT
  <2>5. RateKept' /\ ReadSince'
    BY <2>1, <2>2, <2>3, SMT
  <2>6. TakenCounted'
    BY <2>1, <2>2, <2>3, SMT
  <2>7. ClockNear'
    <3>1. CASE Taken = 0
      BY <3>1, <2>1, <2>2, <2>3, SMT
    <3>2. CASE Taken = Interval
      BY <3>2, <2>1, <2>2, <2>3, SMT
    <3>3. CASE Taken >= 2 * Interval
      BY <3>3, <2>1, <2>2, <2>3, SMT
    <3>4. QED
      BY <3>1, <3>2, <3>3
  <2>8. BurstBounded'
    BY <2>1, <2>2, <2>3, SMT
  <2>9. QED
    BY <2>4, <2>5, <2>6, <2>7, <2>8
<1>4. CASE Observe
  BY <1>4, SMT DEF Observe
<1>5. CASE UNCHANGED vars
  BY <1>5 DEF vars
<1>6. QED
  BY <1>1, <1>2, <1>3, <1>4, <1>5 DEF Next

LEMMA InvariantHolds == Spec => []IInv
BY InitIInv, NextIInv, PTL DEF Spec

\* A paced sender never gets ahead of its rate, whatever the clocks it reads.
THEOREM RateIsKept == Spec => []RateKept
BY InvariantHolds, PTL DEF IInv

\* Nor does it catch up in a burst of more than seven frames beyond the rate.
THEOREM BurstIsBounded == Spec => []BurstBounded
BY InvariantHolds, PTL DEF IInv

=============================================================================
