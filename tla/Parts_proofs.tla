----------------------------- MODULE Parts_proofs -----------------------------
(***************************************************************************)
(* Theorems about two components that do not interact: the frames on a     *)
(* stream (Framing), for every stream and every delivery of it, and the    *)
(* counters (Stats), for every number of threads and of calls.  The names  *)
(* of both are seen through Parts.                                         *)
(***************************************************************************)
EXTENDS Parts, Sequences, FiniteSetTheorems, TLAPS

-----------------------------------------------------------------------------
(* Induction on an interval, without an operator parameter.                *)

\* A set with 0 that goes on from every m below n reaches n: otherwise adding 1
\* would map it one to one into itself without 0.
LEMMA ReachesEnd ==
  ASSUME NEW n \in Nat, NEW T \in SUBSET (0 .. n), 0 \in T,
         \A m \in T : m < n => m + 1 \in T
  PROVE  n \in T
<1> SUFFICES ASSUME n \notin T PROVE FALSE
  OBVIOUS
<1>1. IsFiniteSet(0 .. n)
  BY FS_Interval
<1>2. IsFiniteSet(T) /\ Cardinality(T) \in Nat
  BY <1>1, FS_Subset, FS_CardinalityType
<1>3. IsFiniteSet(T \ {0}) /\ Cardinality(T \ {0}) = Cardinality(T) - 1
  BY <1>2, FS_RemoveElement
<1>4. [m \in T |-> m + 1] \in Injection(T, T \ {0})
  BY DEF Injection, IsInjective
<1> QED
  BY <1>2, <1>3, <1>4, FS_Injection

\* The same for every number of the interval.
LEMMA HoldsUpTo ==
  ASSUME NEW n \in Nat, NEW T \in SUBSET (0 .. n), 0 \in T,
         \A m \in T : m < n => m + 1 \in T
  PROVE  \A k \in 0 .. n : k \in T
<1> SUFFICES ASSUME NEW k \in 0 .. n PROVE k \in T
  OBVIOUS
<1> DEFINE U == T \cap (0 .. k)
<1>1. U \in SUBSET (0 .. k) /\ 0 \in U /\ \A m \in U : m < k => m + 1 \in U
  OBVIOUS
<1> HIDE DEF U
<1>2. k \in U
  BY <1>1, ReachesEnd
<1> QED
  BY <1>2 DEF U

-----------------------------------------------------------------------------
(* Where the frames end.                                                   *)

FrameTypes == /\ frames \in [1 .. FrameCount -> Sizes] /\ foreign \in 0 .. FrameCount
              /\ arrived \in Nat /\ cut \in Seq(Nat) /\ bufferAt \in Nat
              /\ state \in {"idle", "loop", "thrown"}

EndsUpTo(e, n) ==
  /\ e \in [0 .. n -> Nat] /\ e[0] = 0
  /\ \A i \in 1 .. n : e[i] = e[i - 1] + frames[i]

\* The recursion of end has a solution, so end is one.
LEMMA EndRecurs ==
  ASSUME F!SizesFit, FrameTypes
  PROVE  EndsUpTo(F!end, FrameCount)
<1> USE DEF F!SizesFit, FrameTypes
<1> DEFINE T == {n \in 0 .. FrameCount : \E e : EndsUpTo(e, n)}
<1>1. 0 \in T
  <2>1. EndsUpTo([i \in 0 .. 0 |-> 0], 0)
    BY DEF EndsUpTo
  <2> QED
    BY <2>1
<1>2. ASSUME NEW n \in T, n < FrameCount PROVE n + 1 \in T
  <2>1. PICK e : EndsUpTo(e, n)
    OBVIOUS
  <2> DEFINE g == [i \in 0 .. n + 1 |-> IF i = n + 1 THEN e[n] + frames[n + 1] ELSE e[i]]
  <2>2. n \in Nat /\ n + 1 \in 1 .. FrameCount
    BY <1>2
  <2>6. frames[n + 1] \in Nat
    BY <2>2
  <2>3. g \in [0 .. n + 1 -> Nat] /\ g[0] = 0
    BY <2>1, <2>2, <2>6 DEF EndsUpTo
  <2>4. ASSUME NEW i \in 1 .. n + 1 PROVE g[i] = g[i - 1] + frames[i]
    BY <2>1, <2>2 DEF EndsUpTo
  <2>5. EndsUpTo(g, n + 1)
    BY <2>3, <2>4 DEF EndsUpTo
  <2> QED
    BY <1>2, <2>2, <2>5
<1>3. FrameCount \in T
  <2> HIDE DEF T
  <2>1. T \in SUBSET (0 .. FrameCount)
    BY DEF T
  <2> QED
    BY <1>1, <1>2, <2>1, ReachesEnd
<1>4. PICK e : EndsUpTo(e, FrameCount)
  BY <1>3
<1>5. e = [i \in 0 .. FrameCount |-> IF i = 0 THEN 0 ELSE e[i - 1] + frames[i]]
  BY <1>4 DEF EndsUpTo
<1>6. F!end = [i \in 0 .. FrameCount |-> IF i = 0 THEN 0 ELSE F!end[i - 1] + frames[i]]
  BY <1>5, Zenon DEF F!end
<1>10. F!end[0] = 0 /\ \A i \in 1 .. FrameCount : F!end[i] = F!end[i - 1] + frames[i]
  BY <1>6
\* Its values are numbers, one after the other.
<1> DEFINE U == {n \in 0 .. FrameCount : F!end[n] \in Nat}
<1>7. U \in SUBSET (0 .. FrameCount) /\ 0 \in U
  BY <1>6
<1>8. ASSUME NEW n \in U, n < FrameCount PROVE n + 1 \in U
  <2>1. n + 1 \in 1 .. FrameCount /\ (n + 1) - 1 = n /\ F!end[n] \in Nat
    BY <1>8
  <2>2. F!end[n + 1] = F!end[n] + frames[n + 1]
    BY <1>10, <2>1
  <2>3. frames[n + 1] \in Nat
    BY <2>1
  <2> QED
    BY <2>1, <2>2, <2>3
<1>9. \A n \in 0 .. FrameCount : n \in U
  <2> HIDE DEF U
  <2> QED
    BY <1>7, <1>8, HoldsUpTo
<1> QED
  BY <1>6, <1>9 DEF EndsUpTo

\* Every frame lies behind the ones before it, and is as long as a header.
LEMMA EndsInOrder ==
  ASSUME F!SizesFit, FrameTypes, NEW i \in 0 .. FrameCount, NEW j \in 0 .. FrameCount, i < j
  PROVE  F!end[i] + HeaderSize <= F!end[j]
<1> USE DEF F!SizesFit, FrameTypes
<1> DEFINE T == {n \in 0 .. j - i - 1 : F!end[i] + HeaderSize <= F!end[i + 1 + n]}
<1>0. /\ \A k \in 0 .. FrameCount : F!end[k] \in Nat
      /\ \A k \in 1 .. FrameCount : F!end[k] = F!end[k - 1] + frames[k]
  BY EndRecurs DEF EndsUpTo
<1>1. j - i - 1 \in Nat /\ T \in SUBSET (0 .. j - i - 1)
  OBVIOUS
<1>2. 0 \in T
  <2>1. i + 1 \in 1 .. FrameCount /\ (i + 1) - 1 = i
    OBVIOUS
  <2>2. F!end[i + 1] = F!end[i] + frames[i + 1] /\ frames[i + 1] >= HeaderSize
    BY <1>0, <2>1
  <2>3. i + 1 \in 0 .. FrameCount
    BY <2>1
  <2>4. F!end[i] \in Nat /\ F!end[i + 1] \in Nat
    BY <1>0, <2>3
  <2>5. frames[i + 1] \in Nat /\ HeaderSize \in Nat
    <3>1. frames[i + 1] \in Sizes
      BY <2>1
    <3> QED
      BY <3>1
  <2>6. F!end[i] + HeaderSize <= F!end[i + 1]
    <3> HIDE DEF F!SizesFit, FrameTypes, T
    <3> QED
      BY <2>2, <2>4, <2>5
  <2>7. 0 \in 0 .. j - i - 1 /\ i + 1 + 0 = i + 1
    OBVIOUS
  <2> QED
    BY <2>6, <2>7
<1>3. ASSUME NEW n \in T, n < j - i - 1 PROVE n + 1 \in T
  <2>1. i + 2 + n \in 1 .. FrameCount /\ (i + 2 + n) - 1 = i + 1 + n /\ n \in Nat
    BY <1>3
  <2>2. F!end[i + 2 + n] = F!end[i + 1 + n] + frames[i + 2 + n]
    BY <1>0, <2>1
  <2>6. frames[i + 2 + n] \in Nat
    BY <2>1
  <2>3. F!end[i] \in Nat /\ F!end[i + 1 + n] \in Nat
    BY <1>0, <2>1
  <2>4. i + 1 + (n + 1) = i + 2 + n
    BY <2>1
  <2>5. F!end[i] + HeaderSize <= F!end[i + 2 + n]
    BY <2>2, <2>3, <2>6, <1>3
  <2> QED
    BY <1>3, <2>1, <2>4, <2>5
<1>4. j - i - 1 \in T
  <2> HIDE DEF T
  <2> QED
    BY <1>1, <1>2, <1>3, ReachesEnd
<1>5. i + 1 + (j - i - 1) = j
  OBVIOUS
<1> QED
  BY <1>4, <1>5
-----------------------------------------------------------------------------
(* The receiver's loop.                                                    *)

\* What was cut off is what the stream begins with, up to bufferAt.
CutSoFar ==
  /\ Len(cut) <= FrameCount /\ \A i \in 1 .. Len(cut) : cut[i] = frames[i]
  /\ bufferAt = F!end[Len(cut)] /\ bufferAt <= arrived
  /\ arrived <= F!end[FrameCount]
  /\ foreign # 0 => Len(cut) < foreign

\* Between two calls the next frame is incomplete; an exception names the foreign one.
CallsEnd ==
  /\ state = "idle" /\ Len(cut) < FrameCount => arrived < F!end[Len(cut) + 1]
  /\ state = "thrown" => foreign # 0 /\ Len(cut) = foreign - 1

FramingInv == FrameTypes /\ CutSoFar /\ CallsEnd

\* The buffer begins with the next frame, or with one that is foreign, or the
\* stream is at its end; the size that is read is the size of the frame.
LEMMA NextCandidate ==
  ASSUME F!SizesFit, FramingInv
  PROVE  /\ Len(cut) \in 0 .. FrameCount
         /\ \A i \in F!Candidates : /\ i = Len(cut) + 1 /\ i \in 1 .. FrameCount /\ i # foreign
                                  /\ F!FrameSizeFromHeader(F!Reserved(i)) = frames[i]
                                  /\ frames[i] \in Nat /\ frames[i] >= HeaderSize
                                  /\ F!end[i] = bufferAt + frames[i] /\ F!end[i] \in Nat
         /\ F!Candidates = {} => Len(cut) = FrameCount \/ (foreign # 0 /\ Len(cut) + 1 = foreign)
<1> USE DEF FramingInv, F!SizesFit, FrameTypes, CutSoFar
<1>1. /\ \A k \in 0 .. FrameCount : F!end[k] \in Nat
      /\ \A k \in 1 .. FrameCount : F!end[k] = F!end[k - 1] + frames[k]
  BY EndRecurs DEF EndsUpTo
<1>2. Len(cut) \in 0 .. FrameCount
  OBVIOUS
<1>3. ASSUME NEW i \in F!Candidates
      PROVE  /\ i = Len(cut) + 1 /\ i \in 1 .. FrameCount /\ i # foreign
             /\ F!FrameSizeFromHeader(F!Reserved(i)) = frames[i]
             /\ frames[i] \in Nat /\ frames[i] >= HeaderSize
             /\ F!end[i] = bufferAt + frames[i] /\ F!end[i] \in Nat
  <2>1. i \in 1 .. FrameCount /\ i # foreign /\ F!end[i - 1] = F!end[Len(cut)]
    BY DEF F!Candidates, F!Begin
  <2>2. i - 1 \in 0 .. FrameCount /\ i \in 0 .. FrameCount
    BY <2>1
  <2>3. ~(i - 1 < Len(cut)) /\ ~(Len(cut) < i - 1)
    <3>1. F!end[i - 1] \in Nat /\ F!end[Len(cut)] \in Nat
      BY <1>1, <1>2, <2>2
    <3> QED
      BY <1>2, <2>1, <2>2, <3>1, EndsInOrder
  <2>4. i = Len(cut) + 1
    BY <1>2, <2>1, <2>3
  <2>5. frames[i] \in Nat /\ frames[i] >= HeaderSize
    BY <2>1
  <2>6. F!end[i] = F!end[i - 1] + frames[i] /\ F!end[i] \in Nat
    BY <1>1, <2>1, <2>2
  <2>7. F!FrameSizeFromHeader(F!Reserved(i)) = frames[i]
    BY <2>5 DEF F!FrameSizeFromHeader, F!Reserved
  <2> QED
    BY <2>1, <2>4, <2>5, <2>6, <2>7
<1>4. F!Candidates = {} => Len(cut) = FrameCount \/ (foreign # 0 /\ Len(cut) + 1 = foreign)
  <2> SUFFICES ASSUME F!Candidates = {}, Len(cut) # FrameCount
               PROVE  foreign # 0 /\ Len(cut) + 1 = foreign
    OBVIOUS
  <2>1. Len(cut) + 1 \in 1 .. FrameCount /\ (Len(cut) + 1) - 1 = Len(cut)
    BY <1>2
  <2>2. F!Begin(Len(cut) + 1) = bufferAt
    BY <2>1 DEF F!Begin
  <2>3. Len(cut) + 1 \in {foreign}
    BY <2>1, <2>2 DEF F!Candidates
  <2> QED
    BY <1>2, <2>3
<1> QED
  BY <1>2, <1>3, <1>4

LEMMA FramingInit == F!SizesFit /\ F!Init => FramingInv
<1> SUFFICES ASSUME F!SizesFit, F!Init PROVE FramingInv
  OBVIOUS
<1>1. FrameTypes
  BY DEF F!Init, F!SizesFit, FrameTypes
<1>2. EndsUpTo(F!end, FrameCount)
  BY <1>1, EndRecurs
<1>3. Len(cut) = 0 /\ arrived = 0 /\ bufferAt = 0 /\ state = "idle" /\ FrameCount \in Nat
  BY DEF F!Init, F!SizesFit
<1>4. F!end[0] = 0 /\ F!end[FrameCount] \in Nat
  BY <1>2, <1>3 DEF EndsUpTo
<1>5. CutSoFar
  BY <1>1, <1>3, <1>4 DEF CutSoFar, FrameTypes
<1>6. FrameCount > 0 => 0 < F!end[1]
  <2>1. FrameCount > 0 => F!end[0] + HeaderSize <= F!end[1] /\ F!end[1] \in Nat
    BY <1>1, <1>2, <1>3, EndsInOrder DEF EndsUpTo
  <2> QED
    BY <1>3, <1>4, <2>1 DEF F!SizesFit
<1>7. CallsEnd
  BY <1>3, <1>6 DEF CallsEnd
<1> QED
  BY <1>1, <1>5, <1>7 DEF FramingInv

LEMMA FramingNext ==
  ASSUME F!SizesFit, FramingInv, [F!Next]_(F!vars)
  PROVE  FramingInv'
<1> USE DEF FramingInv, F!SizesFit
<1>1. Len(cut) \in 0 .. FrameCount /\ FrameCount \in Nat /\ HeaderSize \in Nat /\ HeaderSize > 0
  BY NextCandidate
<1>2. \A k \in 0 .. FrameCount : F!end[k] \in Nat
  BY EndRecurs DEF EndsUpTo
<1>3. F!end[Len(cut)] \in Nat /\ F!end[FrameCount] \in Nat /\ arrived \in Nat /\ bufferAt \in Nat
  BY <1>1, <1>2 DEF FrameTypes
<1>4. UNCHANGED frames => UNCHANGED F!end
  BY DEF F!end
<1>5. CASE F!Deliver
  <2>1. /\ UNCHANGED <<frames, foreign, cut, bufferAt>> /\ state' = "loop"
        /\ \E n \in 1 .. F!end[FrameCount] - arrived : arrived' = arrived + n
    BY <1>5 DEF F!Deliver
  <2>2. arrived' \in Nat /\ arrived <= arrived' /\ arrived' <= F!end[FrameCount]
    BY <1>3, <2>1
  <2>3. FrameTypes'
    BY <2>1, <2>2 DEF FrameTypes
  <2>4. CutSoFar'
    BY <1>3, <1>4, <2>1, <2>2 DEF CutSoFar
  <2> QED
    BY <2>1, <2>3, <2>4 DEF CallsEnd
<1>6. CASE F!CutFrame
  <2>1. PICK i \in F!Candidates : LET size == F!FrameSizeFromHeader(F!Reserved(i)) IN
          F!Complete(size) /\ cut' = Append(cut, size) /\ bufferAt' = bufferAt + size
    BY <1>6 DEF F!CutFrame
  <2>2. UNCHANGED <<frames, foreign, arrived, state>> /\ state = "loop"
    BY <1>6 DEF F!CutFrame
  <2>3. /\ i = Len(cut) + 1 /\ i \in 1 .. FrameCount /\ i # foreign
        /\ F!FrameSizeFromHeader(F!Reserved(i)) = frames[i]
        /\ frames[i] \in Nat
        /\ F!end[i] = bufferAt + frames[i]
    BY NextCandidate
  <2>4. /\ cut' = Append(cut, frames[i]) /\ bufferAt' = F!end[i] /\ bufferAt' \in Nat
        /\ F!end[i] <= arrived
    BY <1>3, <2>1, <2>3 DEF F!Complete, F!Buffered
  <2>5. cut' \in Seq(Nat) /\ Len(cut') = i
    BY <2>3, <2>4 DEF FrameTypes
  <2>6. \A k \in 1 .. i : cut'[k] = frames[k]
    BY <2>3, <2>4 DEF FrameTypes, CutSoFar
  <2>7. FrameTypes'
    BY <2>2, <2>4, <2>5 DEF FrameTypes
  <2>8. CutSoFar'
    BY <1>1, <1>4, <2>2, <2>3, <2>4, <2>5, <2>6 DEF CutSoFar, FrameTypes
  <2> QED
    BY <2>2, <2>7, <2>8 DEF CallsEnd
<1>7. CASE F!LeaveLoop
  <2>1. /\ UNCHANGED <<frames, foreign, arrived, cut, bufferAt>> /\ ~F!InvalidFrame
        /\ state' = "idle"
        /\ \A i \in F!Candidates : ~F!Complete(F!FrameSizeFromHeader(F!Reserved(i)))
    BY <1>7 DEF F!LeaveLoop
  <2>2. FrameTypes' /\ CutSoFar'
    BY <1>4, <2>1 DEF FrameTypes, CutSoFar
  <2>3. ASSUME Len(cut) < FrameCount PROVE arrived < F!end[Len(cut) + 1]
    <3> DEFINE i == Len(cut) + 1
    <3>1. i \in 0 .. FrameCount /\ F!end[i] \in Nat
      BY <1>1, <1>2, <2>3
    <3>2. F!end[Len(cut)] + HeaderSize <= F!end[i]
      BY <1>1, <2>3, <3>1, EndsInOrder
    <3>3. CASE F!Candidates = {}
      <4>1. F!Buffered < HeaderSize
        BY <1>1, <1>3, <2>1, <3>3 DEF F!InvalidFrame, F!Buffered
      <4> QED
        BY <1>1, <1>3, <3>1, <3>2, <4>1 DEF F!Buffered, CutSoFar
    <3>4. ASSUME NEW j \in F!Candidates PROVE arrived < F!end[i]
      <4>1. /\ j = i /\ F!FrameSizeFromHeader(F!Reserved(j)) = frames[j]
            /\ frames[j] \in Nat /\ frames[j] >= HeaderSize /\ F!end[j] = bufferAt + frames[j]
        BY NextCandidate
      <4>2. ~(F!Buffered >= HeaderSize /\ F!Buffered >= frames[j])
        BY <2>1, <4>1 DEF F!Complete
      <4> QED
        BY <1>1, <1>3, <4>1, <4>2 DEF F!Buffered
    <3> QED
      BY <3>3, <3>4
  <2> QED
    BY <1>4, <2>1, <2>2, <2>3 DEF CallsEnd
<1>8. CASE F!Throw
  <2>1. /\ UNCHANGED <<frames, foreign, arrived, cut, bufferAt>> /\ state' = "thrown"
        /\ F!InvalidFrame
    BY <1>8 DEF F!Throw
  <2>2. FrameTypes' /\ CutSoFar'
    BY <1>4, <2>1 DEF FrameTypes, CutSoFar
  <2>3. F!Candidates = {}
    <3> SUFFICES ASSUME NEW i \in F!Candidates PROVE FALSE
      OBVIOUS
    <3>1. /\ F!FrameSizeFromHeader(F!Reserved(i)) >= HeaderSize
          /\ F!FrameSizeFromHeader(F!Reserved(i)) \in Nat
      BY NextCandidate
    <3> QED
      BY <1>1, <2>1, <3>1 DEF F!InvalidFrame
  <2>4. Len(cut) # FrameCount
    BY <1>1, <1>3, <2>1 DEF F!InvalidFrame, F!Buffered, CutSoFar
  <2>5. foreign # 0 /\ Len(cut) = foreign - 1
    BY <1>1, <2>3, <2>4, NextCandidate DEF FrameTypes
  <2> QED
    BY <2>1, <2>2, <2>5 DEF CallsEnd
<1>9. CASE UNCHANGED F!vars
  BY <1>4, <1>9 DEF F!vars, FrameTypes, CutSoFar, CallsEnd
<1> QED
  BY <1>5, <1>6, <1>7, <1>8, <1>9 DEF F!Next

\* However the bytes of a stream are delivered, and whatever the sizes of its
\* frames and the fallback of the receiver, TryPeekFrameSize and the loop around
\* it cut off exactly the frames sent, in order, and leave none behind.
THEOREM FramesAreWhole == F!Spec => []FramesWhole
<1>0. F!SizesFit
  BY PartsAssumption
<1>1. F!Init => FramingInv
  BY <1>0, FramingInit
<1>2. FramingInv /\ [F!Next]_(F!vars) => FramingInv'
  BY <1>0, FramingNext
<1>3. FramingInv => FramesWhole
  <2> SUFFICES ASSUME FramingInv PROVE F!FramesWhole
    BY DEF FramesWhole
  <2> USE DEF FramingInv
  <2>1. Len(cut) \in 0 .. FrameCount /\ FrameCount \in Nat
    BY <1>0, NextCandidate DEF F!SizesFit
  <2>2. F!IsPrefix(cut, frames)
    <3>1. Len(frames) = FrameCount
      BY <2>1 DEF FrameTypes
    <3>2. SubSeq(cut, 1, Len(cut)) = SubSeq(frames, 1, Len(cut))
      BY <2>1, <3>1 DEF FrameTypes, CutSoFar
    <3> QED
      BY <2>1, <3>1, <3>2 DEF F!IsPrefix
  <2>3. ASSUME state = "idle", NEW i \in 1 .. FrameCount, F!end[i] <= arrived
        PROVE  i <= Len(cut)
    <3> SUFFICES ASSUME Len(cut) < i PROVE FALSE
      BY <2>1
    <3> DEFINE k == Len(cut) + 1
    <3>1. k \in 0 .. FrameCount /\ i \in 0 .. FrameCount /\ (k = i \/ k < i)
      BY <2>1
    <3>2. F!end[k] \in Nat /\ F!end[i] \in Nat
      BY <1>0, <3>1, EndRecurs DEF EndsUpTo
    <3>3. F!end[k] <= F!end[i]
      BY <1>0, <3>1, <3>2, EndsInOrder DEF F!SizesFit
    <3>4. arrived < F!end[k]
      BY <2>1, <2>3 DEF CallsEnd
    <3> QED
      BY <2>3, <3>2, <3>3, <3>4 DEF FrameTypes
  <2> QED
    BY <2>2, <2>3 DEF F!FramesWhole, CutSoFar, CallsEnd
<1>4. QED
  BY <1>1, <1>2, <1>3, PTL DEF F!Spec

-----------------------------------------------------------------------------
(* The counters.                                                           *)

StatsTypes ==
  /\ paced \in BOOLEAN /\ mutex \in S!Threads \cup {S!Nobody}
  /\ step \in [S!Threads -> {"idle", "sent", "received"}] /\ loaded \in [S!Threads -> Nat]
  /\ sentTotal \in Nat /\ recvTotal \in Nat /\ sentMessages \in Nat /\ echoedMessages \in Nat
  /\ samples \in Seq(Latencies)

\* mutex_ covers the load and the store of an echo, so the store adds to what is there.
EchoesCounted ==
  /\ \A t \in S!Threads : step[t] = "received" <=> mutex = t
  /\ echoedMessages = Len(samples)
  /\ mutex = S!Nobody => recvTotal = echoedMessages
  /\ \A t \in S!Threads :
       step[t] = "received" => loaded[t] = echoedMessages /\ recvTotal = echoedMessages + 1

\* No store of a send counts more than the total; the only sender of a paced
\* client finds its own count.
SendsCounted ==
  /\ sentMessages <= sentTotal
  /\ \A t \in S!Threads : step[t] = "sent" => loaded[t] + 1 <= sentTotal
  /\ paced => /\ \A t \in S!Threads : step[t] = "sent" => t = S!Sender
              /\ step[S!Sender] = "sent" =>
                   loaded[S!Sender] = sentMessages /\ sentTotal = sentMessages + 1
              /\ step[S!Sender] # "sent" => sentTotal = sentMessages

StatsInv == StatsTypes /\ EchoesCounted /\ SendsCounted

LEMMA StatsInit == Receivers \subseteq Nat /\ S!Init => StatsInv
<1> SUFFICES ASSUME Receivers \subseteq Nat, S!Init PROVE StatsInv
  OBVIOUS
<1> USE DEF S!Init
<1>1. StatsTypes
  BY DEF StatsTypes
<1>2. EchoesCounted
  BY DEF EchoesCounted, S!Threads, S!Sender, S!Nobody
<1>3. SendsCounted
  BY DEF SendsCounted, S!Threads, S!Sender
<1> QED
  BY <1>1, <1>2, <1>3 DEF StatsInv

LEMMA StatsNext ==
  ASSUME Receivers \subseteq Nat, StatsInv, [S!Next]_(S!vars)
  PROVE  StatsInv'
<1> USE DEF StatsInv, StatsTypes
<1>1. S!Nobody \notin S!Threads /\ S!Sender \in S!Threads /\ Receivers \subseteq S!Threads
  BY DEF S!Nobody, S!Threads, S!Sender
<1>2. ASSUME NEW t \in S!Threads, S!AddSentLoad(t) PROVE StatsInv'
  <2>1. /\ step[t] = "idle" /\ S!Sends(t) /\ sentTotal' = sentTotal + 1
        /\ loaded' = [loaded EXCEPT ![t] = sentMessages] /\ step' = [step EXCEPT ![t] = "sent"]
        /\ UNCHANGED <<paced, mutex, recvTotal, sentMessages, echoedMessages, samples>>
    BY <1>2 DEF S!AddSentLoad
  <2>2. StatsTypes'
    BY <2>1
  <2>3. EchoesCounted'
    BY <1>1, <2>1 DEF EchoesCounted
  <2>4. SendsCounted'
    BY <1>1, <2>1 DEF SendsCounted, S!Sends
  <2> QED
    BY <2>2, <2>3, <2>4
<1>3. ASSUME NEW t \in S!Threads, S!AddSentStore(t) PROVE StatsInv'
  <2>1. /\ step[t] = "sent" /\ sentMessages' = loaded[t] + 1
        /\ step' = [step EXCEPT ![t] = "idle"]
        /\ UNCHANGED <<paced, mutex, loaded, sentTotal, recvTotal, echoedMessages, samples>>
    BY <1>3 DEF S!AddSentStore, S!callVars
  <2>2. StatsTypes'
    BY <2>1
  <2>3. EchoesCounted'
    BY <1>1, <2>1 DEF EchoesCounted
  <2>4. SendsCounted'
    BY <1>1, <2>1 DEF SendsCounted
  <2> QED
    BY <2>2, <2>3, <2>4
<1>4. ASSUME NEW t \in S!Threads, S!AddReceivedLoad(t) PROVE StatsInv'
  <2>1. /\ step[t] = "idle" /\ mutex = S!Nobody /\ mutex' = t /\ recvTotal' = recvTotal + 1
        /\ loaded' = [loaded EXCEPT ![t] = echoedMessages]
        /\ step' = [step EXCEPT ![t] = "received"]
        /\ UNCHANGED <<paced, sentTotal, sentMessages, echoedMessages, samples>>
    BY <1>4 DEF S!AddReceivedLoad, S!MutexFree
  <2>2. StatsTypes'
    BY <2>1
  <2>3. EchoesCounted'
    BY <1>1, <2>1 DEF EchoesCounted
  <2>4. SendsCounted'
    BY <1>1, <2>1 DEF SendsCounted
  <2> QED
    BY <2>2, <2>3, <2>4
<1>5. ASSUME NEW t \in S!Threads, S!AddReceivedStore(t) PROVE StatsInv'
  <2>1. PICK latency \in Latencies : samples' = Append(samples, latency)
    BY <1>5 DEF S!AddReceivedStore
  <2>2. /\ step[t] = "received" /\ echoedMessages' = loaded[t] + 1 /\ mutex' = S!Nobody
        /\ step' = [step EXCEPT ![t] = "idle"]
        /\ UNCHANGED <<paced, loaded, sentTotal, recvTotal, sentMessages>>
    BY <1>5 DEF S!AddReceivedStore, S!callVars
  <2>3. samples' \in Seq(Latencies) /\ Len(samples') = Len(samples) + 1
    BY <2>1
  <2>4. StatsTypes'
    BY <2>2, <2>3
  <2>5. EchoesCounted'
    BY <1>1, <2>2, <2>3 DEF EchoesCounted
  <2>6. SendsCounted'
    BY <1>1, <2>2 DEF SendsCounted
  <2> QED
    BY <2>4, <2>5, <2>6
<1>6. CASE UNCHANGED S!vars
  BY <1>6 DEF S!vars, EchoesCounted, SendsCounted
<1> QED
  BY <1>2, <1>3, <1>4, <1>5, <1>6 DEF S!Next

\* When no thread is inside a counter, the stream's echoes and latencies are as
\* many as the total of Stats says, since OnData counts them under mutex_; its
\* sends are too when only the pacer sends, and are never more.
THEOREM SummaryIsRight == S!Spec => []SummaryAddsUp
<1>1. S!Init => StatsInv
  BY StatsInit, PartsAssumption
<1>2. StatsInv /\ [S!Next]_(S!vars) => StatsInv'
  BY StatsNext, PartsAssumption
<1>3. StatsInv => SummaryAddsUp
  <2> SUFFICES ASSUME StatsInv, \A t \in S!Threads : step[t] = "idle"
               PROVE  /\ echoedMessages = recvTotal /\ Len(samples) = recvTotal
                      /\ paced => sentMessages = sentTotal
                      /\ sentMessages <= sentTotal
    BY DEF SummaryAddsUp, S!SummaryAddsUp
  <2>1. mutex = S!Nobody
    BY DEF StatsInv, StatsTypes, EchoesCounted
  <2>2. step[S!Sender] # "sent"
    BY DEF S!Threads
  <2> QED
    BY <2>1, <2>2 DEF StatsInv, EchoesCounted, SendsCounted
<1>4. QED
  BY <1>1, <1>2, <1>3, PTL DEF S!Spec

-----------------------------------------------------------------------------
(* Sorting: every sequence of numbers can be ranked.                       *)

Ranks(p, m, s) ==
  /\ p \in [1 .. m -> 1 .. m]
  /\ \A i, j \in 1 .. m : p[i] = p[j] => i = j
  /\ \A i \in 1 .. m : \E j \in 1 .. m : p[j] = i
  /\ \A i, j \in 1 .. m : i < j => s[p[i]] <= s[p[j]]

\* Where a value goes among ranked ones: behind k of them.
LEMMA PlaceOf ==
  ASSUME NEW m \in Nat, NEW s, NEW p, Ranks(p, m, s), \A i \in 1 .. m : s[i] \in Nat,
         NEW x \in Nat
  PROVE  \E k \in 0 .. m : /\ \A i \in 1 .. k : s[p[i]] <= x
                           /\ \A i \in k + 1 .. m : x <= s[p[i]]
<1> DEFINE K == {k \in 0 .. m : \A i \in 1 .. k : s[p[i]] <= x}
<1>1. K \in SUBSET (0 .. m) /\ 0 \in K
  OBVIOUS
<1>2. CASE m \in K
  BY <1>2
<1>3. CASE m \notin K
  <2>1. PICK k \in K : k < m /\ k + 1 \notin K
    <3> HIDE DEF K
    <3> QED
      BY <1>1, <1>3, ReachesEnd
  <2>2. k \in 0 .. m /\ k + 1 \in 0 .. m /\ k + 1 \in 1 .. m
    BY <2>1
  <2>3. ~(s[p[k + 1]] <= x)
    BY <2>1, <2>2
  <2>4. ASSUME NEW i \in k + 1 .. m PROVE x <= s[p[i]]
    <3>1. i \in 1 .. m /\ (i = k + 1 \/ k + 1 < i)
      BY <2>2
    <3>2. p[k + 1] \in 1 .. m /\ p[i] \in 1 .. m
      BY <2>2, <3>1 DEF Ranks
    <3>3. s[p[k + 1]] \in Nat /\ s[p[i]] \in Nat
      BY <3>2
    <3>4. k + 1 < i => s[p[k + 1]] <= s[p[i]]
      BY <2>2, <3>1 DEF Ranks
    <3> QED
      BY <2>3, <3>1, <3>3, <3>4
  <2> QED
    BY <2>1, <2>2, <2>4
<1> QED
  BY <1>2, <1>3

LEMMA RankingExists ==
  ASSUME NEW n \in Nat, NEW s, \A i \in 1 .. n : s[i] \in Nat
  PROVE  \E p : Ranks(p, n, s)
<1> DEFINE T == {m \in 0 .. n : \E p : Ranks(p, m, s)}
<1>1. T \in SUBSET (0 .. n)
  OBVIOUS
<1>2. 0 \in T
  <2>1. Ranks([i \in 1 .. 0 |-> i], 0, s)
    BY DEF Ranks
  <2> QED
    BY <2>1
<1>3. ASSUME NEW m \in T, m < n PROVE m + 1 \in T
  <2>1. PICK p : Ranks(p, m, s)
    OBVIOUS
  <2>2. m \in Nat /\ m + 1 \in 1 .. n /\ m + 1 \in 0 .. n /\ s[m + 1] \in Nat
    BY <1>3
  <2>3. \A i \in 1 .. m : s[i] \in Nat
    BY <1>3
  <2>4. PICK k \in 0 .. m : /\ \A i \in 1 .. k : s[p[i]] <= s[m + 1]
                            /\ \A i \in k + 1 .. m : s[m + 1] <= s[p[i]]
    BY <2>1, <2>2, <2>3, PlaceOf
  <2> DEFINE q == [i \in 1 .. m + 1 |->
                     IF i <= k THEN p[i] ELSE IF i = k + 1 THEN m + 1 ELSE p[i - 1]]
  <2>5. /\ \A i \in 1 .. m : p[i] \in 1 .. m
        /\ \A i, j \in 1 .. m : p[i] = p[j] => i = j
        /\ \A i \in 1 .. m : \E j \in 1 .. m : p[j] = i
        /\ \A i, j \in 1 .. m : i < j => s[p[i]] <= s[p[j]]
    BY <2>1 DEF Ranks
  <2>6. \A i \in 1 .. m + 1 :
          \/ i <= k /\ i \in 1 .. m /\ i \in 1 .. k /\ q[i] = p[i]
          \/ i = k + 1 /\ q[i] = m + 1
          \/ k + 1 < i /\ i - 1 \in 1 .. m /\ i - 1 \in k + 1 .. m /\ q[i] = p[i - 1]
    BY <2>2
  <2>7. q \in [1 .. m + 1 -> 1 .. m + 1]
    BY <2>2, <2>5, <2>6
  <2> HIDE DEF q
  <2>8. ASSUME NEW i \in 1 .. m + 1, NEW j \in 1 .. m + 1, q[i] = q[j] PROVE i = j
    <3>1. m + 1 \notin 1 .. m
      BY <2>2
    <3> QED
      BY <2>2, <2>5, <2>6, <2>8, <3>1
  <2>10. ASSUME NEW i \in 1 .. m + 1 PROVE \E j \in 1 .. m + 1 : q[j] = i
    <3>1. CASE i = m + 1
      <4>1. k + 1 \in 1 .. m + 1 /\ q[k + 1] = m + 1
        BY <2>2, <2>6
      <4> QED
        BY <3>1, <4>1
    <3>2. CASE i # m + 1
      <4>1. PICK j \in 1 .. m : p[j] = i
        BY <2>2, <2>5, <3>2
      <4>2. j \in 1 .. m + 1 /\ j + 1 \in 1 .. m + 1 /\ (j + 1) - 1 = j
        BY <2>2
      <4>3. CASE j <= k
        <5>1. q[j] = p[j]
          BY <2>2, <2>6, <4>2, <4>3
        <5> QED
          BY <4>1, <4>2, <5>1
      <4>4. CASE ~(j <= k)
        <5>1. q[j + 1] = p[j]
          BY <2>2, <2>6, <4>2, <4>4
        <5> QED
          BY <4>1, <4>2, <5>1
      <4> QED
        BY <4>3, <4>4
    <3> QED
      BY <3>1, <3>2
  <2>11. ASSUME NEW i \in 1 .. m + 1, NEW j \in 1 .. m + 1, i < j PROVE s[q[i]] <= s[q[j]]
    <3>1. CASE i <= k /\ j <= k
      BY <2>5, <2>6, <2>11, <3>1
    <3>2. CASE i <= k /\ j = k + 1
      BY <2>2, <2>4, <2>6, <3>2
    <3>3. CASE i <= k /\ k + 1 < j
      <4>1. i \in 1 .. m /\ q[i] = p[i] /\ j - 1 \in 1 .. m /\ q[j] = p[j - 1] /\ i < j - 1
        BY <2>2, <2>6, <3>3
      <4> QED
        BY <2>5, <4>1
    <3>4. CASE i = k + 1
      <4>1. k + 1 < j /\ q[i] = m + 1
        BY <2>2, <2>6, <2>11, <3>4
      <4>2. q[j] = p[j - 1] /\ j - 1 \in k + 1 .. m
        BY <2>2, <2>6, <4>1
      <4> QED
        BY <2>4, <4>1, <4>2
    <3>5. CASE k + 1 < i
      <4>1. /\ i - 1 \in 1 .. m /\ q[i] = p[i - 1] /\ j - 1 \in 1 .. m /\ q[j] = p[j - 1]
            /\ i - 1 < j - 1
        BY <2>2, <2>6, <2>11, <3>5
      <4> QED
        BY <2>5, <4>1
    <3> QED
      BY <2>2, <2>11, <3>1, <3>2, <3>3, <3>4, <3>5
  <2>9. Ranks(q, m + 1, s)
    BY <2>7, <2>8, <2>10, <2>11 DEF Ranks
  <2> QED
    BY <2>2, <2>9
<1>4. n \in T
  <2> HIDE DEF T
  <2> QED
    BY <1>1, <1>2, <1>3, ReachesEnd
<1> QED
  BY <1>4

-----------------------------------------------------------------------------
(* The percentiles.                                                        *)

\* Stats has its own Cardinality, with the same definition.
LEMMA SameCardinality == \A X : S!Cardinality(X) = Cardinality(X)
BY Zenon DEF S!Cardinality, Cardinality

\* What PercentilesNearest counts.
Below(w, n, v)    == S!Cardinality({i \in 1 .. n : w[i] < v})
UpTo(w, n, v)     == S!Cardinality({i \in 1 .. n : w[i] <= v})
InBucket(w, n, b) == S!Cardinality({i \in 1 .. n : S!Bucket(w[i]) = b})

\* The value of rank k has less than k values below it, and at least k up to it.
LEMMA RankBetween ==
  ASSUME NEW n \in Nat, NEW s, \A i \in 1 .. n : s[i] \in Nat, NEW p, Ranks(p, n, s),
         NEW k \in 1 .. n
  PROVE  /\ Below(s, n, s[p[k]]) \in 0 .. k - 1
         /\ UpTo(s, n, s[p[k]]) \in Nat /\ UpTo(s, n, s[p[k]]) >= k
<1> DEFINE B == {i \in 1 .. n : s[i] < s[p[k]]}
           U == {i \in 1 .. n : s[i] <= s[p[k]]}
<1>1. IsFiniteSet(1 .. n)
  BY FS_Interval
<1>2. /\ \A i \in 1 .. n : p[i] \in 1 .. n
      /\ \A i, j \in 1 .. n : p[i] = p[j] => i = j
      /\ \A i \in 1 .. n : \E j \in 1 .. n : p[j] = i
      /\ \A i, j \in 1 .. n : i < j => s[p[i]] <= s[p[j]]
  BY DEF Ranks
<1>3. B \in SUBSET (1 .. n) /\ U \in SUBSET (1 .. n)
  OBVIOUS
<1>4. IsFiniteSet(B) /\ IsFiniteSet(U) /\ Cardinality(B) \in Nat /\ Cardinality(U) \in Nat
  BY <1>1, <1>3, FS_Subset, FS_CardinalityType
<1>5. Cardinality(B) <= k - 1
  <2> DEFINE g == [i \in B |-> CHOOSE j \in 1 .. n : p[j] = i]
  <2>1. \A i \in B : g[i] \in 1 .. n /\ p[g[i]] = i
    BY <1>2
  <2>2. ASSUME NEW i \in B PROVE g[i] \in 1 .. k - 1
    <3>1. g[i] \in 1 .. n /\ s[p[g[i]]] < s[p[k]] /\ s[p[g[i]]] \in Nat /\ s[p[k]] \in Nat
      BY <1>2, <2>1
    <3>2. ~(k < g[i]) /\ k # g[i]
      BY <1>2, <3>1
    <3> QED
      BY <3>1, <3>2
  <2>3. g \in [B -> 1 .. k - 1] /\ \A i, j \in B : g[i] = g[j] => i = j
    BY <2>1, <2>2
  <2>4. g \in Injection(B, 1 .. k - 1)
    BY <2>3 DEF Injection, IsInjective
  <2>5. IsFiniteSet(1 .. k - 1) /\ Cardinality(1 .. k - 1) = k - 1
    BY FS_Interval
  <2> QED
    BY <2>4, <2>5, FS_Injection
<1>6. Cardinality(U) >= k
  <2> DEFINE g == [j \in 1 .. k |-> p[j]]
  <2>1. \A j \in 1 .. k : p[j] \in U
    <3> SUFFICES ASSUME NEW j \in 1 .. k PROVE s[p[j]] <= s[p[k]] /\ p[j] \in 1 .. n
      OBVIOUS
    <3>1. j \in 1 .. n /\ (j < k \/ j = k) /\ p[k] \in 1 .. n
      BY <1>2
    <3> QED
      BY <1>2, <3>1
  <2>2. g \in Injection(1 .. k, U)
    <3>1. g \in [1 .. k -> U] /\ \A i, j \in 1 .. k : g[i] = g[j] => i = j
      BY <1>2, <2>1
    <3> QED
      BY <3>1 DEF Injection, IsInjective
  <2>3. Cardinality(1 .. k) = k
    BY FS_Interval
  <2> QED
    BY <1>4, <2>2, <2>3, FS_Injection
<1>7. Below(s, n, s[p[k]]) = Cardinality(B) /\ UpTo(s, n, s[p[k]]) = Cardinality(U)
  BY SameCardinality, Zenon DEF Below, UpTo
<1> HIDE DEF B, U
<1> QED
  BY <1>4, <1>5, <1>6, <1>7

Permilles == 0 .. 1000

Distance(r, x) == LET d == 1000 * r - x IN IF d < 0 THEN -d ELSE d

Nearest(r, n, q) ==
  \A other \in 0 .. n - 1 : Distance(r, q * (n - 1)) <= Distance(other, q * (n - 1))

\* The rank PercentileValue computes is the nearest one.
LEMMA IndexNearest ==
  ASSUME NEW n \in Nat \ {0}, NEW q \in Permilles
  PROVE  /\ S!PercentileIndex(n, q) \in 0 .. n - 1
         /\ Nearest(S!PercentileIndex(n, q), n, q)
<1> DEFINE x == q * (n - 1)
           r == (2 * x + 1000) \div 2000
<1>1. x \in Nat /\ x <= 1000 * (n - 1)
  BY DEF Permilles
<1>2. 2 * q * (n - 1) = 2 * x
  BY DEF Permilles
<1> HIDE DEF x
<1>3. r \in Nat /\ 2000 * r <= 2 * x + 1000 /\ 2 * x + 1000 < 2000 * r + 2000
  BY <1>1
<1> HIDE DEF r
<1>4. r \in 0 .. n - 1
  BY <1>1, <1>3
<1>8. (2 * q * (n - 1) + 1000) \div 2000 = r
  BY <1>2 DEF r
<1>5. S!PercentileIndex(n, q) = r
  BY <1>4, <1>8 DEF S!PercentileIndex
<1>6. Distance(r, x) <= 500
  BY <1>1, <1>3 DEF Distance
<1>7. ASSUME NEW other \in 0 .. n - 1 PROVE Distance(r, x) <= Distance(other, x)
  BY <1>1, <1>3, <1>4 DEF Distance
<1> QED
  BY <1>4, <1>5, <1>7 DEF x, Nearest

LEMMA ProductMonotone ==
  ASSUME NEW a \in Nat, NEW b \in Nat, NEW m \in Nat, a <= b
  PROVE  a * m \in Nat /\ b * m \in Nat /\ a * m <= b * m
OBVIOUS

\* A higher percentile has no lower rank.
LEMMA IndexMonotone ==
  ASSUME NEW n \in Nat \ {0}
  PROVE  \A q, higher \in Permilles :
           q < higher => S!PercentileIndex(n, q) <= S!PercentileIndex(n, higher)
<1> SUFFICES ASSUME NEW q \in Permilles, NEW higher \in Permilles, q < higher
             PROVE  S!PercentileIndex(n, q) <= S!PercentileIndex(n, higher)
  OBVIOUS
<1> DEFINE x == q * (n - 1)
           y == higher * (n - 1)
<1>1. x \in Nat /\ y \in Nat /\ x <= y
  <2>1. n - 1 \in Nat /\ q \in Nat /\ higher \in Nat /\ q <= higher
    BY DEF Permilles
  <2> QED
    BY <2>1, ProductMonotone
<1>2. 2 * q * (n - 1) = 2 * x /\ 2 * higher * (n - 1) = 2 * y
  BY DEF Permilles
<1> HIDE DEF x, y
<1>3. (2 * x + 1000) \div 2000 <= (2 * y + 1000) \div 2000
  BY <1>1
<1>4. (2 * x + 1000) \div 2000 \in Nat /\ (2 * y + 1000) \div 2000 \in Nat
  BY <1>1
<1> QED
  BY <1>2, <1>3, <1>4 DEF S!PercentileIndex

\* Each of n values is in one of the seven buckets.
LEMMA BucketsPartition ==
  ASSUME NEW n \in Nat, NEW f, \A i \in 1 .. n : f[i] \in 0 .. 6
  PROVE  LET C(b) == Cardinality({i \in 1 .. n : f[i] = b}) IN
         C(0) + C(1) + C(2) + C(3) + C(4) + C(5) + C(6) = n
<1> DEFINE B(b) == {i \in 1 .. n : f[i] = b}
           U(b) == {i \in 1 .. n : f[i] <= b}
<1>1. IsFiniteSet(1 .. n) /\ Cardinality(1 .. n) = n
  BY FS_Interval
<1>2. ASSUME NEW b \in 0 .. 6
      PROVE  /\ IsFiniteSet(B(b)) /\ IsFiniteSet(U(b))
             /\ Cardinality(B(b)) \in Nat /\ Cardinality(U(b)) \in Nat
  <2>1. B(b) \in SUBSET (1 .. n) /\ U(b) \in SUBSET (1 .. n)
    OBVIOUS
  <2> QED
    BY <1>1, <2>1, FS_Subset, FS_CardinalityType
<1>3. ASSUME NEW b \in 0 .. 5
      PROVE  Cardinality(U(b + 1)) = Cardinality(U(b)) + Cardinality(B(b + 1))
  <2>1. U(b + 1) = U(b) \cup B(b + 1) /\ U(b) \cap B(b + 1) = {}
    OBVIOUS
  <2>2. b \in 0 .. 6 /\ b + 1 \in 0 .. 6
    OBVIOUS
  <2>3. Cardinality({}) = 0
    BY FS_EmptySet
  <2> HIDE DEF B, U
  <2>4. Cardinality(U(b) \cup B(b + 1))
          = Cardinality(U(b)) + Cardinality(B(b + 1)) - Cardinality({})
    BY <1>2, <2>1, <2>2, FS_Union
  <2>5. Cardinality(U(b)) \in Nat /\ Cardinality(B(b + 1)) \in Nat
    BY <1>2, <2>2
  <2>6. Cardinality(U(b + 1)) = Cardinality(U(b)) + Cardinality(B(b + 1)) - Cardinality({})
    BY <2>1, <2>4
  <2>7. \A x, y \in Nat : x + y - 0 = x + y
    OBVIOUS
  <2> QED
    BY <2>3, <2>5, <2>6, <2>7
<1>4. U(0) = B(0) /\ U(6) = 1 .. n
  OBVIOUS
<1> HIDE DEF B, U
<1>9. 0 + 1 = 1 /\ 1 + 1 = 2 /\ 2 + 1 = 3 /\ 3 + 1 = 4 /\ 4 + 1 = 5 /\ 5 + 1 = 6
  OBVIOUS
<1>5. /\ Cardinality(U(1)) = Cardinality(U(0)) + Cardinality(B(1))
      /\ Cardinality(U(2)) = Cardinality(U(1)) + Cardinality(B(2))
      /\ Cardinality(U(3)) = Cardinality(U(2)) + Cardinality(B(3))
  BY <1>3, <1>9
<1>6. /\ Cardinality(U(4)) = Cardinality(U(3)) + Cardinality(B(4))
      /\ Cardinality(U(5)) = Cardinality(U(4)) + Cardinality(B(5))
      /\ Cardinality(U(6)) = Cardinality(U(5)) + Cardinality(B(6))
  BY <1>3, <1>9
<1>7. /\ Cardinality(B(0)) \in Nat /\ Cardinality(B(1)) \in Nat /\ Cardinality(B(2)) \in Nat
      /\ Cardinality(B(3)) \in Nat /\ Cardinality(B(4)) \in Nat /\ Cardinality(B(5)) \in Nat
      /\ Cardinality(B(6)) \in Nat
  BY <1>2
<1>8. Cardinality(B(0)) + Cardinality(B(1)) + Cardinality(B(2)) + Cardinality(B(3))
        + Cardinality(B(4)) + Cardinality(B(5)) + Cardinality(B(6)) = n
  BY <1>1, <1>4, <1>5, <1>6, <1>7
<1> QED
  BY <1>8 DEF B

LEMMA BucketInRange ==
  ASSUME NEW latency \in Nat
  PROVE  S!Bucket(latency) \in 0 .. 6
<1> DEFINE D == {i \in 1 .. 6 : S!Bounds[i] < latency}
<1>1. IsFiniteSet(1 .. 6) /\ Cardinality(1 .. 6) = 6
  <2>1. 1 \in Int /\ 6 \in Int /\ ~(6 < 1) /\ 6 - 1 + 1 = 6
    OBVIOUS
  <2> QED
    BY <2>1, FS_Interval
<1>2. D \in SUBSET (1 .. 6)
  OBVIOUS
<1> HIDE DEF D
<1>3. Cardinality(D) \in Nat /\ Cardinality(D) <= 6
  BY <1>1, <1>2, FS_Subset, FS_CardinalityType
<1> QED
  BY <1>3, SameCardinality DEF S!Bucket, D

LEMMA RankedRanks ==
  ASSUME NEW n \in Nat, n = Len(samples), \A i \in 1 .. n : samples[i] \in Nat
  PROVE  Ranks(S!Ranked, n, samples)
<1> DEFINE Ascending(p) == \A i, j \in 1 .. Len(samples) : i < j => samples[p[i]] <= samples[p[j]]
<1>1. PICK q : Ranks(q, n, samples)
  BY RankingExists
<1>2. q \in S!Bijection(1 .. Len(samples), 1 .. Len(samples)) /\ Ascending(q)
  BY <1>1 DEF Ranks, S!Bijection, S!Injection, S!Surjection, S!IsInjective
<1>3. S!Ranked = CHOOSE p \in S!Bijection(1 .. Len(samples), 1 .. Len(samples)) : Ascending(p)
  BY DEF S!Ranked
<1> HIDE DEF Ascending
<1>4. S!Ranked \in S!Bijection(1 .. Len(samples), 1 .. Len(samples)) /\ Ascending(S!Ranked)
  BY <1>2, <1>3, Zenon
<1> QED
  BY <1>4 DEF Ascending, Ranks, S!Bijection, S!Injection, S!Surjection, S!IsInjective

LEMMA RanksInto ==
  ASSUME NEW n, NEW w, NEW p, Ranks(p, n, w)
  PROVE  /\ \A i \in 1 .. n : p[i] \in 1 .. n
         /\ \A i, j \in 1 .. n : i < j => w[p[i]] <= w[p[j]]
BY DEF Ranks

\* The value of a nearest rank, among ranked values.
LEMMA ValueNearest ==
  ASSUME NEW n \in Nat \ {0}, NEW w, \A i \in 1 .. n : w[i] \in Nat, NEW p, Ranks(p, n, w),
         NEW q \in Permilles, NEW k \in 0 .. n - 1, Nearest(k, n, q)
  PROVE  /\ w[p[1]] <= w[p[k + 1]] /\ w[p[k + 1]] <= w[p[n]]
         /\ \E r \in Below(w, n, w[p[k + 1]]) .. UpTo(w, n, w[p[k + 1]]) - 1 : Nearest(r, n, q)
<1>1. k + 1 \in 1 .. n /\ 1 \in 1 .. n /\ n \in 1 .. n
  OBVIOUS
<1>2. w[p[1]] <= w[p[k + 1]] /\ w[p[k + 1]] <= w[p[n]]
  <2>1. (1 < k + 1 \/ 1 = k + 1) /\ (k + 1 < n \/ k + 1 = n)
    OBVIOUS
  <2>2. \A i \in 1 .. n : p[i] \in 1 .. n
    BY RanksInto
  <2>3. w[p[k + 1]] <= w[p[k + 1]]
    BY <1>1, <2>2
  <2>4. \A i, j \in 1 .. n : i < j => w[p[i]] <= w[p[j]]
    BY DEF Ranks
  <2> QED
    BY <1>1, <2>1, <2>3, <2>4
<1>3. /\ Below(w, n, w[p[k + 1]]) \in 0 .. (k + 1) - 1
      /\ UpTo(w, n, w[p[k + 1]]) \in Nat /\ UpTo(w, n, w[p[k + 1]]) >= k + 1
  BY <1>1, RankBetween
<1>4. k \in Below(w, n, w[p[k + 1]]) .. UpTo(w, n, w[p[k + 1]]) - 1
  BY <1>3
<1> QED
  BY <1>2, <1>4

\* A higher percentile is no smaller.
LEMMA ValuesAscend ==
  ASSUME NEW n \in Nat \ {0}, NEW w, \A i \in 1 .. n : w[i] \in Nat, NEW p, Ranks(p, n, w),
         NEW k \in 0 .. n - 1, NEW l \in 0 .. n - 1, k <= l
  PROVE  w[p[k + 1]] <= w[p[l + 1]]
<1>1. k + 1 \in 1 .. n /\ l + 1 \in 1 .. n /\ (k + 1 < l + 1 \/ k = l)
  OBVIOUS
<1>2. \A i \in 1 .. n : p[i] \in 1 .. n
  BY DEF Ranks
<1>3. w[p[k + 1]] <= w[p[k + 1]]
  BY <1>1, <1>2
<1>4. \A i, j \in 1 .. n : i < j => w[p[i]] <= w[p[j]]
  BY DEF Ranks
<1> QED
  BY <1>1, <1>3, <1>4

Shown == {500, 750, 900, 950, 990, 999}

SnapshotOf(sorted) ==
  [count   |-> Len(sorted), min |-> sorted[1], max |-> sorted[Len(sorted)],
   p       |-> [permille \in Shown |-> S!PercentileValue(sorted, permille)],
   buckets |-> [b \in 0 .. 6 |-> InBucket(sorted, Len(sorted), b)]]

LEMMA BucketsCountAll ==
  ASSUME NEW n \in Nat, NEW w, \A i \in 1 .. n : w[i] \in Nat, NEW c,
         \A b \in 0 .. 6 : c[b] = InBucket(w, n, b)
  PROVE  c[0] + c[1] + c[2] + c[3] + c[4] + c[5] + c[6] = n
<1> DEFINE f == [i \in 1 .. n |-> S!Bucket(w[i])]
           C(b) == Cardinality({i \in 1 .. n : f[i] = b})
<1>1. \A i \in 1 .. n : f[i] \in 0 .. 6
  BY BucketInRange
<1>2. ASSUME NEW b \in 0 .. 6 PROVE c[b] = C(b)
  <2>1. {i \in 1 .. n : S!Bucket(w[i]) = b} = {i \in 1 .. n : f[i] = b}
    OBVIOUS
  <2>2. InBucket(w, n, b) = Cardinality({i \in 1 .. n : S!Bucket(w[i]) = b})
    BY SameCardinality, Zenon DEF InBucket
  <2> QED
    BY <2>1, <2>2
<1> HIDE DEF f
<1>3. C(0) + C(1) + C(2) + C(3) + C(4) + C(5) + C(6) = n
  BY <1>1, BucketsPartition
<1> HIDE DEF C
<1>4. /\ c[0] = C(0) /\ c[1] = C(1) /\ c[2] = C(2) /\ c[3] = C(3)
      /\ c[4] = C(4) /\ c[5] = C(5) /\ c[6] = C(6)
  BY <1>2
<1> QED
  BY <1>3, <1>4

LEMMA SnapshotNearest ==
  ASSUME Latencies \subseteq Nat, StatsTypes
  PROVE  S!PercentilesNearest
<1> SUFFICES ASSUME samples # <<>> PROVE S!PercentilesNearest
  BY DEF S!PercentilesNearest
<1>1. Len(samples) \in Nat \ {0} /\ \A i \in 1 .. Len(samples) : samples[i] \in Nat
  <2>1. samples \in Seq(Latencies)
    BY DEF StatsTypes
  <2>2. Len(samples) \in Nat /\ \A i \in 1 .. Len(samples) : samples[i] \in Latencies
    BY <2>1
  <2>3. Len(samples) # 0
    BY <2>1
  <2> QED
    BY <2>2, <2>3
<1> DEFINE n == Len(samples)
           p == S!Ranked
           sorted == [i \in 1 .. n |-> samples[p[i]]]
           s == S!Snapshot
<1>2. Ranks(p, n, samples)
  BY <1>1, RankedRanks
<1>3. s = SnapshotOf(sorted)
  BY Zenon DEF S!Snapshot, SnapshotOf, InBucket, Shown
<1> HIDE DEF p, n, s
<1>4. n \in Nat \ {0} /\ \A i \in 1 .. n : samples[i] \in Nat
  BY <1>1 DEF n
<1>5. Len(sorted) = n /\ \A i \in 1 .. n : sorted[i] = samples[p[i]]
  BY <1>4
<1> HIDE DEF sorted
<1>6. \A i \in 1 .. n : p[i] \in 1 .. n
  BY <1>2 DEF Ranks
<1>7. \A i \in 1 .. n : sorted[i] \in Nat
  BY <1>4, <1>5, <1>6
<1>8. /\ s.count = n /\ s.min = sorted[1] /\ s.max = sorted[n]
      /\ DOMAIN s.p = Shown
      /\ \A q \in Shown : s.p[q] = sorted[S!PercentileIndex(n, q) + 1]
      /\ \A b \in 0 .. 6 : s.buckets[b] = InBucket(sorted, n, b)
  <2>1. Len(sorted) = n
    BY <1>5
  <2> QED
    BY <1>3, <2>1 DEF SnapshotOf, S!PercentileValue
<1>9. \A q \in Shown : q \in Permilles
  BY DEF Shown, Permilles
<1>10. ASSUME NEW q \in Shown
       PROVE  /\ S!PercentileIndex(n, q) \in 0 .. n - 1
              /\ Nearest(S!PercentileIndex(n, q), n, q)
              /\ s.p[q] = samples[p[S!PercentileIndex(n, q) + 1]]
  <2>1. S!PercentileIndex(n, q) \in 0 .. n - 1 /\ Nearest(S!PercentileIndex(n, q), n, q)
    BY <1>4, <1>9, IndexNearest
  <2>2. S!PercentileIndex(n, q) + 1 \in 1 .. n
    BY <1>4, <2>1
  <2> QED
    BY <1>5, <1>8, <2>1, <2>2
<1>11. s.min = samples[p[1]] /\ s.max = samples[p[n]]
  <2>1. 1 \in 1 .. n /\ n \in 1 .. n
    BY <1>4
  <2> QED
    BY <1>5, <1>8, <2>1
<1>12. ASSUME NEW q \in Shown
       PROVE  /\ s.min <= s.p[q] /\ s.p[q] <= s.max
              /\ \E r \in Below(samples, n, s.p[q]) .. UpTo(samples, n, s.p[q]) - 1 :
                   Nearest(r, n, q)
  <2>1. PICK k \in 0 .. n - 1 : Nearest(k, n, q) /\ s.p[q] = samples[p[k + 1]]
    BY <1>10
  <2>2. q \in Permilles
    BY <1>9
  <2>3. /\ samples[p[1]] <= samples[p[k + 1]] /\ samples[p[k + 1]] <= samples[p[n]]
        /\ \E r \in Below(samples, n, samples[p[k + 1]])
                      .. UpTo(samples, n, samples[p[k + 1]]) - 1 :
             Nearest(r, n, q)
    BY <1>2, <1>4, <2>1, <2>2, ValueNearest
  <2> QED
    BY <1>11, <2>1, <2>3
<1>13. ASSUME NEW q \in Shown, NEW higher \in Shown, q < higher
       PROVE  s.p[q] <= s.p[higher]
  <2> DEFINE k == S!PercentileIndex(n, q)
             l == S!PercentileIndex(n, higher)
  <2>1. k \in 0 .. n - 1 /\ l \in 0 .. n - 1
    BY <1>10
  <2>2. k <= l
    <3>1. q \in Permilles /\ higher \in Permilles
      BY <1>9
    <3> QED
      BY <1>4, <1>13, <3>1, IndexMonotone
  <2>3. s.p[q] = samples[p[k + 1]] /\ s.p[higher] = samples[p[l + 1]]
    BY <1>10
  <2> HIDE DEF k, l
  <2>4. samples[p[k + 1]] <= samples[p[l + 1]]
    BY <1>2, <1>4, <2>1, <2>2, ValuesAscend
  <2> QED
    BY <2>3, <2>4
<1>14. s.buckets[0] + s.buckets[1] + s.buckets[2] + s.buckets[3] + s.buckets[4]
         + s.buckets[5] + s.buckets[6] = s.count
  BY <1>4, <1>7, <1>8, BucketsCountAll
<1>15. \A q \in DOMAIN s.p :
         /\ s.min <= s.p[q] /\ s.p[q] <= s.max
         /\ \E r \in Below(samples, n, s.p[q]) .. UpTo(samples, n, s.p[q]) - 1 : Nearest(r, n, q)
         /\ \A higher \in DOMAIN s.p : q < higher => s.p[q] <= s.p[higher]
  BY <1>8, <1>12, <1>13
<1> QED
  BY <1>14, <1>15, Zenon DEF S!PercentilesNearest, s, n, Below, UpTo, Nearest, Distance

\* Whatever the latencies are, each percentile of StreamMetrics::Snapshot is one
\* of them with the nearest rank, the percentiles ascend, and the histogram
\* counts every latency once.
THEOREM PercentilesAreNearest == S!Spec => []PercentilesNearest
<1>1. S!Init => StatsInv
  BY StatsInit, PartsAssumption
<1>2. StatsInv /\ [S!Next]_(S!vars) => StatsInv'
  BY StatsNext, PartsAssumption
<1>3. StatsInv => PercentilesNearest
  BY SnapshotNearest, PartsAssumption DEF StatsInv, PercentilesNearest
<1>4. QED
  BY <1>1, <1>2, <1>3, PTL DEF S!Spec

==============================================================================
