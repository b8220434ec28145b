------------------------- MODULE SctpConnection_proofs -------------------------
(***************************************************************************)
(* Proofs about SctpConnection, for every length and number of frames: the *)
(* types, the order of what is written, the half-close after the last      *)
(* frame, that no push is left behind a sleeping send thread, and the      *)
(* order of the teardown.                                                  *)
(***************************************************************************)
EXTENDS SctpConnection, Integers, SequenceTheorems, TLAPS

-----------------------------------------------------------------------------
(* Units of whole frames.                                                  *)

Whole(n) == n * FrameUnits

LEMMA OneMore ==
  ASSUME NEW n \in Nat
  PROVE  Whole(n) \in Nat /\ Whole(n + 1) = Whole(n) + FrameUnits
BY BoundsAssumption DEF Whole

LEMMA DivMod ==
  ASSUME NEW q \in Nat, NEW r \in 0 .. FrameUnits - 1
  PROVE  (Whole(q) + r) \div FrameUnits = q /\ (Whole(q) + r) % FrameUnits = r
<1> DEFINE x == q * FrameUnits + r
           d == x \div FrameUnits
           m == x % FrameUnits
<1> USE BoundsAssumption
<1>1. x \in Nat
  OBVIOUS
<1>2. x = FrameUnits * d + m /\ d \in Nat /\ m \in 0 .. FrameUnits - 1
  BY <1>1
<1> HIDE DEF d, m
<1>3. FrameUnits * d + m = q * FrameUnits + r
  BY <1>2
<1>4. CASE d > q
  <2>1. PICK e \in Nat : d = q + 1 + e
    BY <1>2, <1>4
  <2>2. FrameUnits * d = FrameUnits * q + FrameUnits + FrameUnits * e /\ FrameUnits * e \in Nat
    BY <2>1
  <2> QED
    BY <1>2, <1>3, <2>2
<1>5. CASE d < q
  <2>1. PICK e \in Nat : q = d + 1 + e
    BY <1>2, <1>5
  <2>2. FrameUnits * q = FrameUnits * d + FrameUnits + FrameUnits * e /\ FrameUnits * e \in Nat
    BY <1>2, <2>1
  <2> QED
    BY <1>2, <1>3, <2>2
<1> QED
  BY <1>2, <1>3, <1>4, <1>5 DEF d, m, Whole

-----------------------------------------------------------------------------
(* The invariant.                                                          *)

\* TypeOK in three parts.
SeqTypes == pending \in Seq(Nat) /\ wire \in Seq(WireUnits)

FlagTypes ==
  /\ sendMutex \in BOOLEAN
  /\ closed \in BOOLEAN /\ sendCloseRequested \in BOOLEAN /\ gStopRequested \in BOOLEAN
  /\ fdOpen \in BOOLEAN /\ socketDown \in BOOLEAN /\ writeShut \in BOOLEAN

ScalarTypes ==
  /\ queued \in Nat
  /\ senderPc \in {"top", "lock", "test", "block", "waiting", "send", "shutdown", "closing",
                   "ended"}
  /\ current \in Nat /\ offset \in 0 .. FrameUnits
  /\ appPc \in {"ready", "push", "pushed", "requested", "done"}
  /\ receiverPc \in {"check", "recv", "closing", "ended"}
  /\ mainPc \in {"run", "join", "joined"}
  /\ closePc \in [Closers -> {"out", "called", "notify", "shutdown", "closeFd", "returned"}]
  /\ onClosed \in Nat

LEMMA TypesSplit == TypeOK <=> SeqTypes /\ FlagTypes /\ ScalarTypes
BY DEF TypeOK, SeqTypes, FlagTypes, ScalarTypes

\* send_mutex_ is held exactly between the lock and the sleep or the unlock, and what
\* the predicate of the wait saw is still so when the send thread goes to sleep.
SleepInv ==
  /\ sendMutex <=> senderPc \in {"test", "block"}
  /\ senderPc = "block" => pending = <<>>
  /\ senderPc = "waiting" /\ pending # <<>> => appPc = "pushed"

\* The thread that tears down, and how far it is.
Tearing(t) == closePc[t] \in {"notify", "shutdown", "closeFd"}

TeardownInv ==
  /\ \A t, u \in Closers : Tearing(t) /\ Tearing(u) => t = u
  /\ \A t \in Closers : Tearing(t) => closed
  /\ \A t \in Closers : closePc[t] = "closeFd" => socketDown
  /\ ~fdOpen => socketDown
  /\ socketDown => closed

\* How many frames the send thread has taken, and what of them is on the wire.
Taken == queued - Len(pending)

OrderInv ==
  /\ Len(pending) <= queued
  /\ \A i \in 1 .. Len(pending) : pending[i] = Taken + i
  /\ senderPc = "send" => /\ Taken >= 1 /\ current = Taken /\ offset < FrameUnits
                          /\ Len(wire) = Whole(Taken - 1) + offset
  /\ senderPc \in {"top", "lock", "test", "block", "waiting", "shutdown"} =>
       Len(wire) = Whole(Taken)
  /\ Len(wire) <= Whole(Taken)
  /\ sendCloseRequested => appPc \in {"requested", "done"}
  /\ senderPc = "shutdown" => sendCloseRequested /\ pending = <<>>
  /\ writeShut => /\ senderPc = "ended" /\ sendCloseRequested /\ pending = <<>>
                  /\ Len(wire) = Whole(Taken)

\* The unit at each place of the wire.
Unit(i) == <<((i - 1) \div FrameUnits) + 1, ((i - 1) % FrameUnits) + 1>>

UnitsInv == \A i \in 1 .. Len(wire) : wire[i] = Unit(i)

IInv ==
  SeqTypes /\ FlagTypes /\ ScalarTypes /\ SleepInv /\ TeardownInv /\ OrderInv /\ UnitsInv

LEMMA InitIInv == Init => IInv
<1> SUFFICES ASSUME Init PROVE IInv
  OBVIOUS
<1> USE BoundsAssumption
<1>1. SeqTypes
  BY EmptySeq DEF Init, SeqTypes
<1>5. FlagTypes
  BY Zenon DEF Init, FlagTypes
<1>6. ScalarTypes
  BY DEF Init, ScalarTypes
<1>2. SleepInv /\ TeardownInv
  BY DEF Init, SleepInv, TeardownInv, Tearing
<1>3. Whole(0) = 0
  BY DEF Whole
<1>4. OrderInv /\ UnitsInv
  BY <1>3 DEF Init, OrderInv, UnitsInv, Taken
<1> QED
  BY <1>1, <1>2, <1>4, <1>5, <1>6 DEF IInv

-----------------------------------------------------------------------------
(* The steps.  All but SenderWrites leave the wire alone.                  *)

AppMoves == SendCopy \/ CloseSend \/ AppStep
Quiet ==
  \/ SenderTop \/ SenderLock \/ SenderTests \/ SenderBlocks \/ SpuriousWakeup \/ SenderReturns
  \/ SenderFails \/ SenderOnClosed
Others == ReceiverStep \/ MainCloses \/ MainJoins \/ SignalHandler

LEMMA WiresUnits ==
  ASSUME SeqTypes, ScalarTypes, NEW n \in 1 .. FrameUnits
  PROVE  LET units == [i \in 1 .. n |-> <<current, offset + i>>]
             longer == wire \o units
         IN  /\ longer \in Seq(WireUnits) /\ Len(longer) = Len(wire) + n
             /\ \A i \in 1 .. Len(wire) : longer[i] = wire[i]
             /\ \A i \in 1 .. n : longer[Len(wire) + i] = <<current, offset + i>>
<1> USE BoundsAssumption
<1> DEFINE units == [i \in 1 .. n |-> <<current, offset + i>>]
<1>1. units \in Seq(WireUnits) /\ Len(units) = n
  <2>1. \A i \in 1 .. n : <<current, offset + i>> \in WireUnits
    BY DEF ScalarTypes, WireUnits
  <2>2. units \in [1 .. n -> WireUnits] /\ n \in Nat
    BY <2>1
  <2> QED
    BY <2>2, IsASeq
<1>2. wire \in Seq(WireUnits) /\ Len(wire) \in Nat
  BY LenProperties DEF SeqTypes
<1>3. /\ wire \o units \in Seq(WireUnits) /\ Len(wire \o units) = Len(wire) + Len(units)
      /\ \A i \in 1 .. Len(wire) + Len(units) :
           (wire \o units)[i] = IF i <= Len(wire) THEN wire[i] ELSE units[i - Len(wire)]
  BY <1>1, <1>2, ConcatProperties
<1>4. ASSUME NEW i \in 1 .. n
      PROVE  (wire \o units)[Len(wire) + i] = <<current, offset + i>>
  <2>1. /\ Len(wire) + i \in 1 .. Len(wire) + Len(units) /\ ~(Len(wire) + i <= Len(wire))
        /\ Len(wire) + i - Len(wire) = i
    BY <1>1, <1>2
  <2>2. (wire \o units)[Len(wire) + i] = units[i]
    BY <1>3, <2>1
  <2> QED
    BY <2>2
<1>5. ASSUME NEW i \in 1 .. Len(wire)
      PROVE  (wire \o units)[i] = wire[i]
  BY <1>1, <1>2, <1>3
<1> QED
  BY <1>1, <1>3, <1>4, <1>5

AnyStep ==
  \/ AppMoves \/ SenderStep \/ SenderFails \/ SpuriousWakeup \/ Others
  \/ \E t \in Closers : CloseStep(t)

\* Three steps change a sequence.
LEMMA SeqTypesKept == ASSUME SeqTypes, ScalarTypes, AnyStep PROVE SeqTypes'
<1>1. CASE SendCopyPush
  BY <1>1, AppendProperties DEF SeqTypes, ScalarTypes, SendCopyPush, socketVars
<1>2. CASE SenderTakes
  BY <1>2, HeadTailProperties DEF SeqTypes, SenderTakes, socketVars
<1>3. ASSUME NEW n \in 1 .. FrameUnits, SenderWrites(n) PROVE SeqTypes'
  BY <1>3, WiresUnits DEF SeqTypes, SenderWrites, queueVars
<1>4. CASE UNCHANGED <<pending, wire>>
  BY <1>4 DEF SeqTypes
<1>5. ASSUME ~SendCopyPush, ~SenderTakes, ~(\E n \in 1 .. FrameUnits : SenderWrites(n))
      PROVE  UNCHANGED <<pending, wire>>
  BY <1>5 DEF AnyStep, AppMoves, AppStep, SenderStep, Others, ReceiverStep, CloseStep, SendCopy,
     CloseSend, SendCopyNotify, CloseSendNotify, SenderTop, SenderTests, SpuriousWakeup,
     SenderLock, SenderBlocks, SenderReturns, SenderTakesClose, SenderFails, SenderShutsWrite,
     SenderOnClosed, ReceiverReturns, ReceiverChecks, ReceiverLeaves, ReceiverOnClosed,
     MainCloses, MainJoins, SignalHandler, Close, CloseNotify, CloseShutdown, CloseFd,
     queueVars, socketVars
<1> QED
  BY <1>1, <1>2, <1>3, <1>4, <1>5

LEMMA FlagTypesKept == ASSUME FlagTypes, AnyStep PROVE FlagTypes'
<1> USE DEF queueVars, flagVars, socketVars, sendVars, pcVars
<1>1. CASE AppMoves
  BY <1>1, Zenon DEF FlagTypes, AppMoves, AppStep, SendCopy, CloseSend, SendCopyPush,
                     SendCopyNotify, CloseSendNotify
<1>2. ASSUME NEW t \in Closers, CloseStep(t) PROVE FlagTypes'
  BY <1>2, Zenon DEF FlagTypes, CloseStep, Close, CloseNotify, CloseShutdown, CloseFd
<1>3. CASE SenderTop \/ SenderTests \/ SpuriousWakeup \/ SenderLock \/ SenderBlocks
  BY <1>3, Zenon DEF FlagTypes, SenderTop, SenderTests, SpuriousWakeup, SenderLock, SenderBlocks
<1>4. CASE SenderReturns \/ SenderTakesClose \/ SenderTakes
  BY <1>4, Zenon DEF FlagTypes, SenderReturns, SenderTakesClose, SenderTakes
<1>5. CASE SenderShutsWrite
  <2>1. writeShut' \in BOOLEAN
    BY <1>5, Zenon DEF FlagTypes, SenderShutsWrite
  <2> QED
    BY <1>5, <2>1, Zenon DEF FlagTypes, SenderShutsWrite
<1>6. ASSUME NEW n \in 1 .. FrameUnits, SenderWrites(n) PROVE FlagTypes'
  BY <1>6, Zenon DEF FlagTypes, SenderWrites
<1>7. CASE SenderFails \/ SenderOnClosed
  BY <1>7, Zenon DEF FlagTypes, SenderFails, SenderOnClosed
<1>8. CASE Others
  BY <1>8, Zenon DEF FlagTypes, Others, ReceiverStep, ReceiverReturns, ReceiverChecks,
                     ReceiverLeaves, ReceiverOnClosed, MainCloses, MainJoins, SignalHandler
<1> QED
  BY <1>1, <1>2, <1>3, <1>4, <1>5, <1>6, <1>7, <1>8 DEF AnyStep, SenderStep

LEMMA ScalarTypesKept == ASSUME SeqTypes, ScalarTypes, AnyStep PROVE ScalarTypes'
<1> USE BoundsAssumption DEF queueVars, flagVars, socketVars, sendVars, pcVars, ScalarTypes
<1>1. CASE AppMoves
  BY <1>1 DEF AppMoves, AppStep, SendCopy, CloseSend, SendCopyPush, SendCopyNotify,
              CloseSendNotify, Notify
<1>2. ASSUME NEW t \in Closers, CloseStep(t) PROVE ScalarTypes'
  <2>1. CASE Close(t)
    BY <1>2, <2>1 DEF Close
  <2>2. CASE CloseNotify(t)
    BY <1>2, <2>2 DEF CloseNotify, Notify
  <2>3. CASE CloseShutdown(t)
    BY <1>2, <2>3 DEF CloseShutdown
  <2>4. CASE CloseFd(t)
    BY <1>2, <2>4 DEF CloseFd
  <2> QED
    BY <1>2, <2>1, <2>2, <2>3, <2>4 DEF CloseStep
<1>3. CASE SenderTop \/ SenderTests \/ SpuriousWakeup \/ SenderLock \/ SenderBlocks
  BY <1>3 DEF SenderGoes, SenderTop, SenderTests, SpuriousWakeup, SenderLock, SenderBlocks
<1>4. CASE SenderReturns \/ SenderTakesClose \/ SenderShutsWrite
  BY <1>4 DEF SenderGoes, SenderReturns, SenderTakesClose, SenderShutsWrite
<1>5. CASE SenderTakes
  <2>1. current' \in Nat
    BY <1>5, HeadTailProperties DEF SeqTypes, SenderTakes
  <2> QED
    BY <1>5, <2>1 DEF SenderTakes
<1>6. ASSUME NEW n \in 1 .. FrameUnits, SenderWrites(n) PROVE ScalarTypes'
  BY <1>6 DEF SenderWrites, Fits
<1>7. CASE SenderFails \/ SenderOnClosed
  BY <1>7 DEF SenderGoes, SenderFails, SenderOnClosed, Closers
<1>8. CASE Others
  BY <1>8 DEF Others, ReceiverStep, ReceiverReturns, ReceiverChecks, ReceiverLeaves,
              ReceiverOnClosed, MainCloses, MainJoins, SignalHandler, Closers
<1> HIDE DEF ScalarTypes
<1> QED
  BY <1>1, <1>2, <1>3, <1>4, <1>5, <1>6, <1>7, <1>8 DEF AnyStep, SenderStep

-----------------------------------------------------------------------------
(* Sleep and teardown.                                                     *)

\* The steps that neither take nor give back send_mutex_, push, or take a frame.
LEMMA SleepKept ==
  ASSUME SleepInv, UNCHANGED <<sendMutex, pending>>,
         \/ UNCHANGED <<senderPc, appPc>>
         \/ UNCHANGED senderPc /\ appPc # "pushed"
         \/ UNCHANGED appPc /\ senderPc \notin {"test", "block"}
                            /\ senderPc' \notin {"test", "block", "waiting"}
  PROVE  SleepInv'
BY DEF SleepInv

LEMMA NotifyWakes ==
  ASSUME SleepInv, Notify, UNCHANGED <<sendMutex, pending>>
  PROVE  SleepInv'
BY DEF SleepInv, Notify

LEMMA SleepInvKept == ASSUME FlagTypes, ScalarTypes, SleepInv, AnyStep PROVE SleepInv'
<1> USE DEF queueVars, pcVars
<1>1. CASE SendCopyPush
  BY <1>1 DEF SleepInv, SendCopyPush, SendMutexFree, sendVars
<1>2. CASE SendCopyNotify \/ CloseSendNotify
  BY <1>2, NotifyWakes DEF SendCopyNotify, CloseSendNotify
<1>3. CASE SendCopy \/ CloseSend
  BY <1>3, SleepKept DEF SendCopy, CloseSend, sendVars
<1>4. ASSUME NEW t \in Closers, CloseNotify(t) PROVE SleepInv'
  BY <1>4, NotifyWakes DEF CloseNotify
<1>5. ASSUME NEW t \in Closers, Close(t) \/ CloseShutdown(t) \/ CloseFd(t) PROVE SleepInv'
  BY <1>5, SleepKept DEF Close, CloseShutdown, CloseFd, sendVars
<1>6. CASE SenderTop \/ SpuriousWakeup \/ SenderFails \/ SenderShutsWrite \/ SenderOnClosed
  BY <1>6, SleepKept DEF SenderGoes, SenderTop, SpuriousWakeup, SenderFails, SenderShutsWrite,
                         SenderOnClosed
<1>7. CASE SenderLock
  BY <1>7 DEF SleepInv, SenderGoes, SenderLock
<1>8. CASE SenderTests
  BY <1>8 DEF SleepInv, SenderGoes, SenderTests, WaitIsOver
<1>9. CASE SenderBlocks
  BY <1>9 DEF SleepInv, SenderGoes, SenderBlocks
<1>10. CASE SenderReturns \/ SenderTakesClose
  BY <1>10 DEF SleepInv, SenderGoes, SenderReturns, SenderTakesClose
<1>11. CASE SenderTakes
  BY <1>11 DEF SleepInv, SenderTakes
<1>12. ASSUME NEW n \in 1 .. FrameUnits, SenderWrites(n) PROVE SleepInv'
  <2>1. /\ senderPc = "send" /\ senderPc' \in {"top", "send"}
        /\ UNCHANGED <<sendMutex, pending, appPc>>
    BY <1>12 DEF SenderWrites
  <2> QED
    BY <2>1, SleepKept
<1>13. CASE Others
  BY <1>13, SleepKept DEF Others, ReceiverStep, ReceiverReturns, ReceiverChecks, ReceiverLeaves,
                          ReceiverOnClosed, MainCloses, MainJoins, SignalHandler, sendVars
<1> QED
  BY <1>1, <1>2, <1>3, <1>4, <1>5, <1>6, <1>7, <1>8, <1>9, <1>10, <1>11, <1>12, <1>13
     DEF AnyStep, AppMoves, AppStep, SenderStep, CloseStep

\* Only Close goes into the teardown; the three calls of it do not.
LEMMA TeardownInvKept == ASSUME FlagTypes, ScalarTypes, TeardownInv, AnyStep PROVE TeardownInv'
<1> USE DEF flagVars, socketVars, pcVars
<1>1. ASSUME NEW t \in Closers, Close(t) PROVE TeardownInv'
  <2>1. CASE closed
    BY <1>1, <2>1 DEF ScalarTypes, TeardownInv, Tearing, Close, AlreadyClosed
  <2>2. CASE ~closed
    BY <1>1, <2>2 DEF ScalarTypes, TeardownInv, Tearing, Close, AlreadyClosed
  <2> QED
    BY <2>1, <2>2
<1>2. ASSUME NEW t \in Closers, CloseNotify(t) PROVE TeardownInv'
  BY <1>2 DEF ScalarTypes, TeardownInv, Tearing, CloseNotify
<1>3. ASSUME NEW t \in Closers, CloseShutdown(t) PROVE TeardownInv'
  BY <1>3 DEF ScalarTypes, TeardownInv, Tearing, CloseShutdown
<1>4. ASSUME NEW t \in Closers, CloseFd(t) PROVE TeardownInv'
  BY <1>4 DEF ScalarTypes, TeardownInv, Tearing, CloseFd
<1>5. CASE /\ UNCHANGED <<closed, socketDown, fdOpen>>
           /\ \/ UNCHANGED closePc
              \/ \E t \in Closers : closePc' = [closePc EXCEPT ![t] = "called"]
  BY <1>5 DEF ScalarTypes, TeardownInv, Tearing
<1>6. CASE AppMoves
  BY <1>5, <1>6 DEF AppMoves, AppStep, SendCopy, CloseSend, SendCopyPush, SendCopyNotify,
                    CloseSendNotify
<1>7. CASE SenderStep \/ SpuriousWakeup
  BY <1>5, <1>7 DEF SenderStep, SenderTop, SenderTests, SpuriousWakeup, SenderLock, SenderBlocks,
                    SenderReturns, SenderTakesClose, SenderTakes, SenderShutsWrite, SenderWrites,
                    SenderOnClosed
<1>8. CASE SenderFails \/ Others
  BY <1>5, <1>8 DEF Closers, SenderFails, Others, ReceiverStep, ReceiverReturns, ReceiverChecks,
                    ReceiverLeaves, ReceiverOnClosed, MainCloses, MainJoins, SignalHandler
<1> QED
  BY <1>1, <1>2, <1>3, <1>4, <1>6, <1>7, <1>8 DEF AnyStep, CloseStep

-----------------------------------------------------------------------------
(* The order of the frames.                                                *)

Between == {"top", "lock", "test", "block", "waiting"}

\* The steps that neither push, take nor write.
LEMMA OrderKept ==
  ASSUME OrderInv,
         UNCHANGED <<pending, queued, current, offset, wire, sendCloseRequested, writeShut>>,
         appPc \in {"requested", "done"} => appPc' \in {"requested", "done"},
         \/ senderPc' = senderPc
         \/ senderPc \in Between /\ senderPc' \in Between
         \/ senderPc # "ended" /\ senderPc' \in {"closing", "ended"}
  PROVE  OrderInv'
<1>1. Taken' = Taken
  BY DEF Taken
<1> QED
  BY <1>1, Zenon DEF OrderInv, Between

LEMMA Counts ==
  ASSUME SeqTypes, ScalarTypes, OrderInv
  PROVE  Taken \in Nat /\ Len(pending) \in Nat /\ Len(wire) \in Nat
BY LenProperties DEF SeqTypes, ScalarTypes, OrderInv, Taken

LEMMA OrderInvKept ==
  ASSUME SeqTypes, FlagTypes, ScalarTypes, OrderInv, AnyStep
  PROVE  OrderInv'
<1> USE BoundsAssumption DEF queueVars, flagVars, socketVars, sendVars, pcVars
<1>0. Taken \in Nat /\ Len(pending) \in Nat /\ Len(wire) \in Nat
  BY Counts
<1>1. CASE SendCopyPush
  <2>1. /\ appPc = "push" /\ appPc' = "pushed" /\ queued' = queued + 1
        /\ UNCHANGED <<senderPc, current, offset, wire, sendCloseRequested, writeShut>>
    BY <1>1 DEF SendCopyPush
  <2>2. /\ Len(pending') = Len(pending) + 1 /\ pending'[Len(pending) + 1] = queued + 1
        /\ \A i \in 1 .. Len(pending) : pending'[i] = pending[i]
    BY <1>1, AppendProperties DEF SeqTypes, ScalarTypes, SendCopyPush
  <2>3. Taken' = Taken
    BY <1>0, <2>1, <2>2 DEF Taken, ScalarTypes
  <2>4. ~sendCloseRequested /\ ~writeShut
    BY <2>1 DEF OrderInv
  <2>5. \A i \in 1 .. Len(pending') : pending'[i] = Taken' + i
    <3> SUFFICES ASSUME NEW i \in 1 .. Len(pending') PROVE pending'[i] = Taken' + i
      OBVIOUS
    <3>1. CASE i \in 1 .. Len(pending)
      BY <1>0, <2>2, <2>3, <3>1 DEF OrderInv
    <3>2. CASE i = Len(pending) + 1
      BY <1>0, <2>2, <2>3, <3>2 DEF Taken, ScalarTypes
    <3> QED
      BY <1>0, <2>2, <3>1, <3>2
  <2>6. Len(pending') <= queued'
    BY <1>0, <2>1, <2>2 DEF OrderInv, ScalarTypes
  <2> QED
    BY <2>1, <2>3, <2>4, <2>5, <2>6, Zenon DEF OrderInv
<1>2. CASE SendCopyNotify \/ CloseSendNotify
  BY <1>2, OrderKept DEF SendCopyNotify, CloseSendNotify, Notify, Between
<1>3. CASE SendCopy
  BY <1>3, OrderKept DEF SendCopy
<1>4. CASE CloseSend
  <2>1. /\ appPc = "ready"
        /\ sendCloseRequested' => appPc' = "requested"
        /\ UNCHANGED <<pending, queued, current, offset, wire, writeShut, senderPc>>
    BY <1>4 DEF CloseSend
  <2>2. ~sendCloseRequested
    BY <1>4 DEF OrderInv, CloseSend
  <2>3. Taken' = Taken
    BY <2>1 DEF Taken
  <2>4. senderPc # "shutdown" /\ ~writeShut
    BY <2>2 DEF OrderInv
  <2>5. sendCloseRequested' => appPc' \in {"requested", "done"}
    BY <2>1
  <2> QED
    BY <2>1, <2>3, <2>4, <2>5, Zenon DEF OrderInv
<1>5. ASSUME NEW t \in Closers, CloseStep(t) PROVE OrderInv'
  BY <1>5, OrderKept DEF CloseStep, Close, CloseNotify, CloseShutdown, CloseFd, Notify, Between
<1>6. CASE SenderTop \/ SenderTests \/ SpuriousWakeup \/ SenderLock \/ SenderBlocks \/ SenderReturns
           \/ SenderFails \/ SenderOnClosed
  BY <1>6, OrderKept DEF SenderGoes, SenderTop, SenderTests, SpuriousWakeup, SenderLock,
                         SenderBlocks, SenderReturns, SenderFails, SenderOnClosed, Between
<1>7. CASE SenderTakes
  <2>1. /\ senderPc = "test" /\ senderPc' = "send" /\ pending # <<>>
        /\ current' = Head(pending) /\ offset' = 0 /\ pending' = Tail(pending)
        /\ UNCHANGED <<queued, wire, sendCloseRequested, writeShut, appPc>>
    BY <1>7 DEF SenderTakes
  <2>2. /\ Len(pending') = Len(pending) - 1 /\ Len(pending) >= 1
        /\ \A i \in 1 .. Len(pending') : pending'[i] = pending[i + 1]
    BY <2>1, HeadTailProperties, EmptySeq DEF SeqTypes
  <2>3. Taken' = Taken + 1
    BY <1>0, <2>1, <2>2 DEF Taken, ScalarTypes
  <2>4. current' = Taken'
    BY <1>0, <2>1, <2>2, <2>3 DEF OrderInv, SeqTypes
  <2>5. \A i \in 1 .. Len(pending') : pending'[i] = Taken' + i
    BY <1>0, <2>2, <2>3 DEF OrderInv
  <2>6. Len(wire') = Whole(Taken) /\ Whole(Taken) \in Nat
        /\ Whole(Taken') = Whole(Taken) + FrameUnits
    <3>1. Len(wire) = Whole(Taken)
      BY <2>1 DEF OrderInv
    <3> QED
      BY <1>0, <2>1, <2>3, <3>1, OneMore
  <2>7. Taken' - 1 = Taken
    BY <1>0, <2>3
  <2>8. Len(pending') <= queued' /\ ~writeShut
    BY <1>0, <2>1, <2>2 DEF OrderInv, ScalarTypes
  <2>9. Len(wire') = Whole(Taken' - 1) + offset' /\ offset' < FrameUnits
    BY <2>1, <2>6, <2>7
  <2>10. Len(wire') <= Whole(Taken') /\ Taken' >= 1
    BY <1>0, <2>3, <2>6
  <2> QED
    BY <2>1, <2>4, <2>5, <2>8, <2>9, <2>10 DEF OrderInv
<1>8. CASE SenderTakesClose
  <2>1. /\ senderPc = "test" /\ senderPc' = "shutdown" /\ pending = <<>> /\ sendCloseRequested
        /\ UNCHANGED <<pending, queued, current, offset, wire, sendCloseRequested, writeShut>>
        /\ UNCHANGED appPc
    BY <1>8 DEF SenderTakesClose, SenderGoes, CloseIsNext
  <2>2. Taken' = Taken
    BY <2>1 DEF Taken
  <2> QED
    BY <2>1, <2>2, Zenon DEF OrderInv
<1>9. ASSUME NEW n \in 1 .. FrameUnits, SenderWrites(n) PROVE OrderInv'
  <2>1. /\ senderPc = "send" /\ offset' = offset + n /\ offset + n <= FrameUnits
        /\ senderPc' = IF offset + n >= FrameUnits THEN "top" ELSE "send"
        /\ UNCHANGED <<pending, queued, current, sendCloseRequested, writeShut, appPc>>
    BY <1>9 DEF SenderWrites, Fits
  <2>2. Len(wire') = Len(wire) + n
    BY <1>9, WiresUnits DEF SenderWrites
  <2>3. Taken' = Taken /\ Taken >= 1 /\ offset \in Nat
    BY <1>0, <2>1 DEF OrderInv, Taken, ScalarTypes
  <2>4. Whole(Taken) = Whole(Taken - 1) + FrameUnits /\ Whole(Taken - 1) \in Nat
    <3>1. Taken - 1 \in Nat /\ (Taken - 1) + 1 = Taken
      BY <1>0, <2>3
    <3> QED
      BY <3>1, OneMore
  <2>5. Len(wire') = Whole(Taken - 1) + offset'
    <3>1. Len(wire) = Whole(Taken - 1) + offset
      BY <2>1 DEF OrderInv
    <3>2. offset' = offset + n /\ n \in Nat
      BY <2>1
    <3> QED
      BY <2>2, <2>3, <2>4, <3>1, <3>2
  <2>6. Len(wire') <= Whole(Taken) /\ (offset' >= FrameUnits => Len(wire') = Whole(Taken))
    BY <2>1, <2>3, <2>4, <2>5
  <2>7. ~writeShut
    BY <2>1 DEF OrderInv
  <2>8. \/ senderPc' = "top" /\ Len(wire') = Whole(Taken)
        \/ senderPc' = "send" /\ offset' < FrameUnits
    BY <2>1, <2>3, <2>6
  <2> QED
    BY <2>1, <2>3, <2>5, <2>6, <2>7, <2>8, Zenon DEF OrderInv
<1>10. CASE SenderShutsWrite
  <2>1. /\ senderPc = "shutdown" /\ senderPc' = "ended"
        /\ UNCHANGED <<pending, queued, current, offset, wire, sendCloseRequested, appPc>>
    BY <1>10 DEF SenderShutsWrite, SenderGoes
  <2>2. Taken' = Taken
    BY <2>1 DEF Taken
  <2> QED
    BY <2>1, <2>2, Zenon DEF OrderInv
<1>11. CASE Others
  BY <1>11, OrderKept DEF Others, ReceiverStep, ReceiverReturns, ReceiverChecks, ReceiverLeaves,
                          ReceiverOnClosed, MainCloses, MainJoins, SignalHandler
<1> QED
  BY <1>1, <1>2, <1>3, <1>4, <1>5, <1>6, <1>7, <1>8, <1>9, <1>10, <1>11
     DEF AnyStep, AppMoves, AppStep, SenderStep

\* A unit is written where its frame and its place in it say.
LEMMA UnitsInvKept ==
  ASSUME SeqTypes, ScalarTypes, OrderInv, UnitsInv, AnyStep
  PROVE  UnitsInv'
<1>1. ASSUME NEW n \in 1 .. FrameUnits, SenderWrites(n) PROVE UnitsInv'
  <2>1. /\ senderPc = "send" /\ offset + n <= FrameUnits
        /\ wire' = wire \o [i \in 1 .. n |-> <<current, offset + i>>]
    BY <1>1 DEF SenderWrites, Fits
  <2>2. /\ Len(wire') = Len(wire) + n
        /\ \A i \in 1 .. Len(wire) : wire'[i] = wire[i]
        /\ \A i \in 1 .. n : wire'[Len(wire) + i] = <<current, offset + i>>
    BY <2>1, WiresUnits
  <2>3. /\ current = Taken /\ current >= 1 /\ current \in Nat /\ offset \in Nat
        /\ Len(wire) = Whole(current - 1) + offset
    BY <2>1 DEF OrderInv, ScalarTypes
  <2>4. current - 1 \in Nat /\ Whole(current - 1) \in Nat /\ Len(wire) \in Nat
    BY <2>3, OneMore, Counts
  <2>5. ASSUME NEW i \in 1 .. n PROVE wire'[Len(wire) + i] = Unit(Len(wire) + i)
    <3>1. offset + i - 1 \in 0 .. FrameUnits - 1
      BY <2>1, <2>3, BoundsAssumption
    <3>2. Len(wire) + i - 1 = Whole(current - 1) + (offset + i - 1)
      BY <2>3, <2>4
    <3>3. (Len(wire) + i - 1) \div FrameUnits = current - 1
          /\ (Len(wire) + i - 1) % FrameUnits = offset + i - 1
      BY <2>4, <3>1, <3>2, DivMod
    <3>4. Unit(Len(wire) + i) = <<current, offset + i>>
      BY <2>3, <3>3 DEF Unit
    <3> QED
      BY <2>2, <3>4
  <2>6. ASSUME NEW i \in 1 .. Len(wire') PROVE wire'[i] = Unit(i)
    <3>1. CASE i \in 1 .. Len(wire)
      BY <2>2, <3>1 DEF UnitsInv
    <3>2. CASE i \notin 1 .. Len(wire)
      <4>1. i - Len(wire) \in 1 .. n /\ Len(wire) + (i - Len(wire)) = i
        BY <2>2, <2>4, <3>2, BoundsAssumption
      <4> QED
        BY <2>5, <4>1
    <3> QED
      BY <3>1, <3>2
  <2> QED
    BY <2>6 DEF UnitsInv, Unit
<1>2. CASE UNCHANGED wire
  BY <1>2 DEF UnitsInv, Unit
<1>3. ASSUME ~(\E n \in 1 .. FrameUnits : SenderWrites(n)) PROVE UNCHANGED wire
  BY <1>3 DEF AnyStep, AppMoves, AppStep, SenderStep, Others, ReceiverStep, CloseStep, SendCopy,
     CloseSend, SendCopyPush, SendCopyNotify, CloseSendNotify, SenderTop, SenderTests,
     SpuriousWakeup, SenderLock, SenderBlocks, SenderReturns, SenderTakes, SenderTakesClose,
     SenderFails, SenderShutsWrite, SenderOnClosed, ReceiverReturns, ReceiverChecks,
     ReceiverLeaves, ReceiverOnClosed, MainCloses, MainJoins, SignalHandler, Close, CloseNotify,
     CloseShutdown, CloseFd, socketVars
<1> QED
  BY <1>1, <1>2, <1>3

LEMMA NextIInv == IInv /\ [Next]_vars => IInv'
<1> SUFFICES ASSUME IInv, [Next]_vars PROVE IInv'
  OBVIOUS
<1>1. CASE AnyStep
  BY <1>1, SeqTypesKept, FlagTypesKept, ScalarTypesKept, SleepInvKept, TeardownInvKept,
     OrderInvKept, UnitsInvKept DEF IInv
<1>2. CASE UNCHANGED vars
  <2> USE <1>2 DEF vars, queueVars, flagVars, socketVars, sendVars, pcVars
  <2>1. SeqTypes' /\ ScalarTypes'
    BY DEF IInv, SeqTypes, ScalarTypes
  <2>5. FlagTypes'
    BY Zenon DEF IInv, FlagTypes
  <2>2. SleepInv' /\ TeardownInv'
    BY Zenon DEF IInv, SleepInv, TeardownInv, Tearing
  <2>3. OrderInv'
    BY OrderKept DEF IInv
  <2>4. UnitsInv'
    BY DEF IInv, UnitsInv, Unit
  <2> QED
    BY <2>1, <2>2, <2>3, <2>4, <2>5 DEF IInv
<1> QED
  BY <1>1, <1>2 DEF Next, Terminated, AnyStep, AppMoves, Others

-----------------------------------------------------------------------------
(* The theorems.                                                           *)

\* The invariant all theorems below rest on.
THEOREM InductiveInvariant == Spec => []IInv
BY InitIInv, NextIInv, PTL DEF Spec

\* Every variable stays in its range.
THEOREM TypeCorrect == Spec => []TypeOK
<1>1. IInv => TypeOK
  BY TypesSplit DEF IInv
<1> QED
  BY <1>1, InductiveInvariant, PTL

\* What went out is a prefix of the frames in the order of SendCopy, whole and
\* unmixed, for frames of any length and however sendmsg cuts them.
THEOREM WireKeepsOrder == Spec => []WireInOrder
<1>1. IInv => WireInOrder
  <2> SUFFICES ASSUME IInv PROVE WireInOrder
    OBVIOUS
  <2>1. Taken \in Nat /\ Len(pending) \in Nat /\ Len(wire) \in Nat /\ Len(wire) <= Whole(Taken)
    BY Counts DEF IInv, OrderInv
  <2>2. queued * FrameUnits = Whole(Taken) + Len(pending) * FrameUnits
        /\ Len(pending) * FrameUnits \in Nat /\ Whole(Taken) \in Nat
    BY <2>1, BoundsAssumption DEF IInv, ScalarTypes, Taken, Whole
  <2>3. Len(wire) <= queued * FrameUnits
    BY <2>1, <2>2
  <2> QED
    BY <2>3 DEF IInv, UnitsInv, Unit, WireInOrder
<1> QED
  BY <1>1, InductiveInvariant, PTL

\* The write side is shut only after the last unit of the last frame.
THEOREM HalfCloseIsLast == Spec => []HalfCloseAfterLastFrame
<1>1. IInv => HalfCloseAfterLastFrame
  <2> SUFFICES ASSUME IInv, writeShut PROVE pending = <<>> /\ Len(wire) = queued * FrameUnits
    BY DEF HalfCloseAfterLastFrame
  <2>1. pending = <<>> /\ Len(wire) = Whole(Taken)
    BY DEF IInv, OrderInv
  <2>2. Taken = queued
    BY <2>1, EmptySeq DEF IInv, Taken, ScalarTypes
  <2> QED
    BY <2>1, <2>2 DEF Whole
<1> QED
  BY <1>1, InductiveInvariant, PTL

\* No frame waits behind a sleeping send thread but one whose notification is to come.
THEOREM PushWakesSender == Spec => []NoStrandedPush
<1>1. IInv => NoStrandedPush
  BY Zenon DEF IInv, SleepInv, NoStrandedPush
<1> QED
  BY <1>1, InductiveInvariant, PTL

\* One thread tears the connection down, in the order of Close.
THEOREM TeardownIsOnce == Spec => []OneTeardown
<1>1. IInv => OneTeardown
  BY DEF IInv, TeardownInv, Tearing, OneTeardown
<1> QED
  BY <1>1, InductiveInvariant, PTL

================================================================================
