--------------------------- MODULE QuicServer_proofs ---------------------------
(***************************************************************************)
(* Proofs about QuicServer, for every number of listeners, connections,    *)
(* streams and frames: the types, the count of pending sends that decides  *)
(* when a stream is shut down, and the refinement of EchoPeer.             *)
(***************************************************************************)
EXTENDS QuicServer, FiniteSetTheorems, TLAPS

\* The types; the bounds of the counters are in StreamInv.
Types ==
  /\ mainPc \in {"listen", "serve", "destroy", "done"}
  /\ gStopRequested \in BOOLEAN
  /\ quic \in [Conns -> {"none", "open", "shutdown", "closed"}]
  /\ context \in [Streams -> {"none", "live", "deleted"}]
  /\ pendingSends \in [Streams -> Nat] /\ sends \in [Streams -> Nat]
  /\ peerFinished \in [Streams -> BOOLEAN] /\ shutdownStarted \in [Streams -> BOOLEAN]
  /\ handler \in [Streams -> {"idle", "sending"}] /\ refused \in [Streams -> BOOLEAN]
  /\ received \in [Streams -> Nat] /\ echoed \in [Streams -> Nat]
  /\ inFlight \in [Streams -> Nat]

\* Listeners are opened in order, and one is still to come while Run opens them.
ListenersInv ==
  /\ listeners \subseteq Listeners
  /\ mainPc = "listen" => \E n \in 0 .. ServerCount - 1 : listeners = 0 .. n - 1

\* Where every frame is, and what the shutdown of a stream tells.
StreamInv(s) ==
  /\ received[s] <= MaxFrames
  /\ inFlight[s] <= echoed[s]
  /\ pendingSends[s] + echoed[s] <= received[s] + inFlight[s]
  /\ sends[s] + inFlight[s] <= pendingSends[s]
  /\ handler[s] = "idle" => sends[s] = 0
  /\ ~refused[s] => pendingSends[s] = sends[s] + inFlight[s] /\ received[s] = echoed[s] + sends[s]
  /\ refused[s] => pendingSends[s] > sends[s] + inFlight[s]
  /\ shutdownStarted[s] => peerFinished[s] /\ pendingSends[s] = 0
  /\ (handler[s] = "idle" /\ peerFinished[s] /\ pendingSends[s] = 0) => shutdownStarted[s]

IInv == Types /\ ListenersInv /\ \A s \in Streams : StreamInv(s)

LEMMA InitIInv == Init => IInv
<1> SUFFICES ASSUME Init PROVE IInv
  OBVIOUS
<1> USE ServerAssumption
<1>1. Types
  BY DEF Init, Types
<1>2. ListenersInv
  <2>1. listeners = 0 .. 0 - 1 /\ 0 \in 0 .. ServerCount - 1
    BY DEF Init
  <2> QED
    BY <2>1 DEF Init, ListenersInv
<1>3. \A s \in Streams : StreamInv(s)
  BY DEF Init, StreamInv
<1> QED
  BY <1>1, <1>2, <1>3 DEF IInv

\* A step that leaves Run's variables alone keeps ListenersInv.
LEMMA ListenersKept == ListenersInv /\ UNCHANGED runVars => ListenersInv'
BY DEF ListenersInv, runVars

\* A step that leaves the contexts and the counts alone keeps StreamInv.
LEMMA StreamsKept ==
  (\A s \in Streams : StreamInv(s)) /\ UNCHANGED <<ctxVars, recvVars, countVars>>
    => (\A s \in Streams : StreamInv(s))'
BY DEF StreamInv, ctxVars, recvVars, countVars

\* Run's steps: which listeners there are.
LEMMA MainKeepsIInv ==
  IInv /\ (MainStep \/ StartThrows \/ SignalHandler) => IInv'
<1> SUFFICES ASSUME IInv, MainStep \/ StartThrows \/ SignalHandler PROVE IInv'
  OBVIOUS
<1> USE ServerAssumption
<1>1. (\A s \in Streams : StreamInv(s))'
  <2>1. UNCHANGED <<ctxVars, recvVars, countVars>>
    BY DEF MainStep, StartListener, StartThrows, CloseListener, RegistrationClose, SignalHandler
  <2> QED
    BY <2>1, StreamsKept DEF IInv
<1>2. Types'
  BY DEF IInv, Types, MainStep, StartListener, StartThrows, CloseListener, RegistrationClose,
         SignalHandler, quicVars, ctxVars, recvVars, countVars
<1>3. ListenersInv'
  <2>1. CASE StartListener
    <3>1. PICK n \in 0 .. ServerCount - 1 : listeners = 0 .. n - 1
      BY <2>1 DEF IInv, ListenersInv, StartListener
    <3>2. Cardinality(listeners) = n
      BY <3>1, FS_Interval
    <3>3. listeners' = 0 .. (n + 1) - 1
      BY <2>1, <3>1, <3>2 DEF StartListener
    <3>4. mainPc' = "listen" => n + 1 \in 0 .. ServerCount - 1
      BY <2>1, <3>2 DEF StartListener, Enough
    <3>5. listeners' \subseteq Listeners
      BY <3>3 DEF Listeners
    <3> QED
      BY <3>3, <3>4, <3>5 DEF ListenersInv
  <2>2. CASE StartThrows \/ RegistrationClose
    BY <2>2 DEF IInv, ListenersInv, StartThrows, RegistrationClose
  <2>3. CASE CloseListener
    BY <2>3 DEF IInv, ListenersInv, CloseListener
  <2>4. CASE SignalHandler
    BY <2>4 DEF IInv, ListenersInv, SignalHandler
  <2> QED
    BY <2>1, <2>2, <2>3, <2>4 DEF MainStep
<1> QED
  BY <1>1, <1>2, <1>3 DEF IInv

\* The events of a connection touch no stream's context.
LEMMA ConnectionsKeepIInv ==
  ASSUME IInv, NEW c \in Conns,
         NewConnection(c) \/ ConnectionShutsDown(c) \/ ConnectionShutdownComplete(c)
  PROVE  IInv'
<1>1. UNCHANGED <<runVars, ctxVars, recvVars, countVars, context>>
  BY DEF NewConnection, ConnectionShutsDown, ConnectionShutdownComplete
<1>2. Types'
  BY <1>1 DEF IInv, Types, NewConnection, ConnectionShutsDown, ConnectionShutdownComplete,
              runVars, ctxVars, recvVars, countVars
<1> QED
  BY <1>1, <1>2, ListenersKept, StreamsKept DEF IInv

\* The events and handlers of a stream.
LEMMA StreamsKeepIInv ==
  ASSUME IInv, NEW s \in Streams, StreamStep(s)
  PROVE  IInv'
<1> USE ServerAssumption
<1>1. ListenersInv'
  <2>1. UNCHANGED runVars
    BY DEF StreamStep, HandlerStep, PeerStreamStarted, OnReceive, StreamSend, ReceiveEnds,
           StreamSendFails, SendComplete, PeerSendShutdown, StreamShutdownComplete
  <2> QED
    BY <2>1, ListenersKept DEF IInv
<1> DEFINE Kept == Types' /\ \A q \in Streams : StreamInv(q)'
<1> SUFFICES Kept
  BY <1>1 DEF IInv
<1>2. CASE PeerStreamStarted(s) \/ StreamShutdownComplete(s)
  <2>1. UNCHANGED <<runVars, ctxVars, recvVars, countVars, quic>>
    BY <1>2 DEF PeerStreamStarted, StreamShutdownComplete
  <2>2. Types'
    BY <1>2, <2>1 DEF IInv, Types, PeerStreamStarted, StreamShutdownComplete, runVars, ctxVars,
                      recvVars, countVars
  <2> QED
    BY <2>1, <2>2, StreamsKept DEF IInv
<1>3. ASSUME NEW k \in 0 .. MaxFrames, NEW fin \in BOOLEAN, OnReceive(s, k, fin) PROVE Kept
  <2>1. Types'
    BY <1>3 DEF IInv, Types, OnReceive, runVars, quicVars
  <2>2. ASSUME NEW q \in Streams PROVE StreamInv(q)'
    BY <1>3, <2>2 DEF IInv, Types, StreamInv, OnReceive
  <2> QED
    BY <2>1, <2>2
<1>4. CASE StreamSend(s)
  <2>1. Types'
    BY <1>4 DEF IInv, Types, StreamSend, runVars, quicVars, ctxVars
  <2>2. ASSUME NEW q \in Streams PROVE StreamInv(q)'
    <3>1. StreamInv(q) /\ StreamInv(s)
      BY <2>2 DEF IInv
    <3>2. CASE q # s
      BY <1>4, <2>2, <3>1, <3>2 DEF IInv, Types, StreamInv, StreamSend, ctxVars
    <3>3. CASE q = s
      <4>1. /\ sends'[s] = sends[s] - 1 /\ echoed'[s] = echoed[s] + 1
            /\ inFlight'[s] = inFlight[s] + 1
        BY <1>4 DEF IInv, Types, StreamSend
      <4> QED
        BY <1>4, <3>1, <3>3, <4>1 DEF IInv, Types, StreamInv, StreamSend, ctxVars
    <3> QED
      BY <3>2, <3>3
  <2> QED
    BY <2>1, <2>2
<1>5. CASE StreamSendFails(s)
  <2>1. Types'
    BY <1>5 DEF IInv, Types, StreamSendFails, runVars, quicVars, ctxVars
  <2>2. ASSUME NEW q \in Streams PROVE StreamInv(q)'
    BY <1>5, <2>2 DEF IInv, Types, StreamInv, StreamSendFails, ctxVars
  <2> QED
    BY <2>1, <2>2
<1>6. CASE ReceiveEnds(s)
  <2>1. Types'
    BY <1>6 DEF IInv, Types, ReceiveEnds, MaybeShutdownStream, runVars, quicVars, countVars
  <2>2. ASSUME NEW q \in Streams PROVE StreamInv(q)'
    BY <1>6, <2>2 DEF IInv, Types, StreamInv, ReceiveEnds, MaybeShutdownStream, countVars
  <2> QED
    BY <2>1, <2>2
<1>7. CASE SendComplete(s)
  <2>1. Decrement(pendingSends[s]) = pendingSends[s] - 1 /\ pendingSends[s] - 1 \in Nat
    BY <1>7 DEF IInv, Types, StreamInv, SendComplete, Decrement
  <2>2. Types'
    BY <1>7, <2>1 DEF IInv, Types, SendComplete, MaybeShutdownStream, runVars, quicVars, recvVars
  <2>3. ASSUME NEW q \in Streams PROVE StreamInv(q)'
    BY <1>7, <2>1, <2>3 DEF IInv, Types, StreamInv, SendComplete, MaybeShutdownStream, recvVars
  <2> QED
    BY <2>2, <2>3
<1>8. CASE PeerSendShutdown(s)
  <2>1. Types'
    BY <1>8 DEF IInv, Types, PeerSendShutdown, MaybeShutdownStream, runVars, quicVars, recvVars,
                countVars
  <2>2. ASSUME NEW q \in Streams PROVE StreamInv(q)'
    BY <1>8, <2>2 DEF IInv, Types, StreamInv, PeerSendShutdown, MaybeShutdownStream, recvVars,
                      countVars
  <2> QED
    BY <2>1, <2>2
<1> QED
  BY <1>2, <1>3, <1>4, <1>5, <1>6, <1>7, <1>8 DEF StreamStep, HandlerStep

LEMMA NextIInv == IInv /\ [Next]_vars => IInv'
<1> SUFFICES ASSUME IInv, [Next]_vars PROVE IInv'
  OBVIOUS
<1>1. CASE UNCHANGED vars
  <2>1. UNCHANGED <<runVars, ctxVars, recvVars, countVars>>
    BY <1>1 DEF vars
  <2>2. Types'
    BY <1>1 DEF IInv, Types, vars, runVars, quicVars, ctxVars, recvVars, countVars
  <2> QED
    BY <2>1, <2>2, ListenersKept, StreamsKept DEF IInv
<1>2. CASE MainStep \/ StartThrows \/ SignalHandler
  BY <1>2, MainKeepsIInv
<1>3. CASE \E c \in Conns :
        NewConnection(c) \/ ConnectionShutsDown(c) \/ ConnectionShutdownComplete(c)
  BY <1>3, ConnectionsKeepIInv
<1>4. CASE \E s \in Streams : StreamStep(s)
  BY <1>4, StreamsKeepIInv
<1> QED
  BY <1>1, <1>2, <1>3, <1>4 DEF Next, Ended

\* The invariant all theorems below rest on.
THEOREM InductiveInvariant == Spec => []IInv
BY InitIInv, NextIInv, PTL DEF Spec

\* The counters stay within the frames a stream carries, pending_sends included.
THEOREM TypeCorrect == Spec => []TypeOK
<1>1. IInv => TypeOK
  <2> SUFFICES ASSUME IInv PROVE TypeOK
    OBVIOUS
  <2> USE ServerAssumption
  <2>1. ASSUME NEW s \in Streams
        PROVE  /\ pendingSends[s] \in 0 .. MaxFrames /\ sends[s] \in 0 .. MaxFrames
               /\ received[s] \in 0 .. MaxFrames /\ echoed[s] \in 0 .. MaxFrames
               /\ inFlight[s] \in 0 .. MaxFrames
    BY <2>1 DEF IInv, Types, StreamInv
  <2>2. /\ pendingSends \in [Streams -> 0 .. MaxFrames] /\ sends \in [Streams -> 0 .. MaxFrames]
        /\ received \in [Streams -> 0 .. MaxFrames] /\ echoed \in [Streams -> 0 .. MaxFrames]
        /\ inFlight \in [Streams -> 0 .. MaxFrames]
    BY <2>1 DEF IInv, Types
  <2> QED
    BY <2>2 DEF IInv, Types, ListenersInv, TypeOK
<1> QED
  BY <1>1, InductiveInvariant, PTL

\* pending_sends is exact until a send is refused, and whichever event comes last
\* shuts the stream down.
THEOREM PendingIsExact == Spec => []PendingDecides
<1>1. IInv => PendingDecides
  BY DEF IInv, Types, StreamInv, PendingDecides
<1> QED
  BY <1>1, InductiveInvariant, PTL

-----------------------------------------------------------------------------
(* The refinement of EchoPeer.                                             *)

LEMMA InitRefines == Init => Peer!Init
BY DEF Init, Peer!Init

\* With nothing pending every frame has gone back.
LEMMA DrainedIsAnswered ==
  ASSUME IInv, NEW s \in Streams, pendingSends[s] = 0
  PROVE  echoed[s] = received[s] /\ sends[s] = 0 /\ inFlight[s] = 0
<1>1. /\ pendingSends[s] \in Nat /\ sends[s] \in Nat /\ inFlight[s] \in Nat
      /\ received[s] \in Nat /\ echoed[s] \in Nat
  BY DEF IInv, Types
<1>2. StreamInv(s)
  BY DEF IInv
<1>3. sends[s] = 0 /\ inFlight[s] = 0
  BY <1>1, <1>2 DEF StreamInv
<1>4. ~refused[s]
  BY <1>1, <1>2, <1>3 DEF StreamInv
<1> QED
  BY <1>1, <1>2, <1>3, <1>4 DEF StreamInv

\* What MaybeShutdownStream does to an abstract stream whose peer has finished.
LEMMA MaybeRefines ==
  ASSUME IInv, NEW s \in Streams, NEW pending \in Nat, MaybeShutdownStream(s, peerFinished[s], pending),
         pending = 0 => received[s] = echoed[s],
         UNCHANGED <<received, echoed, peerFinished>>
  PROVE  [Peer!Next]_Peer!vars
<1>1. CASE peerFinished[s] /\ pending = 0
  <2>1. Peer!Finish(s)
    BY <1>1 DEF IInv, Types, MaybeShutdownStream, Peer!Finish
  <2> QED
    BY <2>1 DEF Peer!Next
<1>2. CASE ~(peerFinished[s] /\ pending = 0)
  <2>1. shutdownStarted' = shutdownStarted
    BY <1>2 DEF IInv, Types, MaybeShutdownStream
  <2> QED
    BY <2>1 DEF Peer!vars
<1> QED
  BY <1>1, <1>2

LEMMA StreamRefines ==
  ASSUME IInv, NEW s \in Streams, StreamStep(s)
  PROVE  [Peer!Next]_Peer!vars
<1> USE ServerAssumption
<1>1. CASE PeerStreamStarted(s) \/ StreamShutdownComplete(s) \/ StreamSendFails(s)
  BY <1>1 DEF PeerStreamStarted, StreamShutdownComplete, StreamSendFails, ctxVars, countVars,
              Peer!vars
<1>2. ASSUME NEW k \in 0 .. MaxFrames, NEW fin \in BOOLEAN, OnReceive(s, k, fin)
      PROVE  [Peer!Next]_Peer!vars
  <2>1. Peer!Arrive(s, k, fin)
    BY <1>2 DEF OnReceive, Peer!Arrive
  <2> QED
    BY <2>1 DEF Peer!Next
<1>3. CASE StreamSend(s)
  <2>1. ~shutdownStarted[s] /\ echoed[s] < received[s]
    BY <1>3 DEF IInv, Types, StreamInv, StreamSend
  <2>2. Peer!GiveBack(s)
    BY <1>3, <2>1 DEF StreamSend, ctxVars, Peer!GiveBack
  <2> QED
    BY <2>2 DEF Peer!Next
<1>4. CASE ReceiveEnds(s)
  <2>1. pendingSends[s] = 0 => received[s] = echoed[s]
    BY DrainedIsAnswered
  <2>2. UNCHANGED <<received, echoed, peerFinished>>
    BY <1>4 DEF ReceiveEnds, countVars
  <2>3. pendingSends[s] \in Nat /\ MaybeShutdownStream(s, peerFinished[s], pendingSends[s])
    BY <1>4 DEF IInv, Types, ReceiveEnds
  <2> QED
    BY <2>1, <2>2, <2>3, MaybeRefines
<1>5. CASE SendComplete(s)
  <2> DEFINE left == Decrement(pendingSends[s])
  <2>1. left \in Nat /\ (left = 0 => received[s] = echoed[s])
    <3>1. /\ pendingSends[s] \in Nat /\ sends[s] \in Nat /\ inFlight[s] \in Nat
          /\ received[s] \in Nat /\ echoed[s] \in Nat
      BY DEF IInv, Types
    <3>2. StreamInv(s) /\ inFlight[s] > 0
      BY <1>5 DEF IInv, SendComplete
    <3>3. pendingSends[s] > 0 /\ left = pendingSends[s] - 1
      BY <3>1, <3>2 DEF StreamInv, Decrement
    <3>4. ASSUME left = 0 PROVE sends[s] = 0 /\ ~refused[s]
      BY <3>1, <3>2, <3>3, <3>4 DEF StreamInv
    <3>5. ASSUME left = 0 PROVE received[s] = echoed[s]
      BY <3>1, <3>2, <3>4, <3>5 DEF StreamInv
    <3> QED
      BY <3>1, <3>3, <3>5
  <2>2. UNCHANGED <<received, echoed, peerFinished>>
    BY <1>5 DEF SendComplete
  <2>3. MaybeShutdownStream(s, peerFinished[s], left)
    BY <1>5 DEF SendComplete
  <2> QED
    BY <2>1, <2>2, <2>3, MaybeRefines
<1>6. CASE PeerSendShutdown(s)
  <2>1. UNCHANGED <<received, echoed>> /\ peerFinished' = [peerFinished EXCEPT ![s] = TRUE]
    BY <1>6 DEF PeerSendShutdown, countVars
  <2>2. CASE pendingSends[s] = 0
    <3>1. shutdownStarted' = [shutdownStarted EXCEPT ![s] = TRUE]
      BY <1>6, <2>2 DEF IInv, Types, PeerSendShutdown, MaybeShutdownStream
    <3>2. Peer!EndAnswered(s)
      BY <2>1, <2>2, <3>1, DrainedIsAnswered DEF Peer!EndAnswered
    <3> QED
      BY <3>2 DEF Peer!Next
  <2>3. CASE pendingSends[s] # 0
    <3>1. shutdownStarted' = shutdownStarted
      BY <1>6, <2>3 DEF IInv, Types, PeerSendShutdown, MaybeShutdownStream
    <3>2. CASE peerFinished[s]
      BY <2>1, <3>1, <3>2 DEF IInv, Types, Peer!vars
    <3>3. CASE ~peerFinished[s]
      <4>1. received' = [received EXCEPT ![s] = @ + 0]
        BY <2>1 DEF IInv, Types
      <4>2. Peer!Arrive(s, 0, TRUE)
        BY <2>1, <3>1, <3>3, <4>1 DEF Peer!Arrive
      <4>3. 0 \in 0 .. MaxFrames /\ TRUE \in BOOLEAN
        OBVIOUS
      <4> QED
        BY <4>2, <4>3 DEF Peer!Next
    <3> QED
      BY <3>2, <3>3
  <2> QED
    BY <2>2, <2>3
<1> QED
  BY <1>1, <1>2, <1>3, <1>4, <1>5, <1>6 DEF StreamStep, HandlerStep

\* The server is an echo peer on every stream: it gives back no frame it did not get
\* and finishes only what the peer has finished and it has answered in full.
THEOREM EchoPeerImplemented == Spec => ImplementsEchoPeer
<1>1. IInv /\ [Next]_vars => [Peer!Next]_Peer!vars
  <2> SUFFICES ASSUME IInv, [Next]_vars PROVE [Peer!Next]_Peer!vars
    OBVIOUS
  <2>1. CASE \E s \in Streams : StreamStep(s)
    BY <2>1, StreamRefines
  <2>2. CASE UNCHANGED <<ctxVars, countVars>>
    BY <2>2 DEF ctxVars, countVars, Peer!vars
  <2>3. CASE MainStep \/ StartThrows \/ SignalHandler
    BY <2>2, <2>3 DEF MainStep, StartListener, StartThrows, CloseListener, RegistrationClose,
                      SignalHandler
  <2>4. CASE \E c \in Conns :
          NewConnection(c) \/ ConnectionShutsDown(c) \/ ConnectionShutdownComplete(c)
    BY <2>2, <2>4 DEF NewConnection, ConnectionShutsDown, ConnectionShutdownComplete
  <2>5. CASE UNCHANGED vars
    BY <2>2, <2>5 DEF vars
  <2> QED
    BY <2>1, <2>3, <2>4, <2>5 DEF Next, Ended
<1> QED
  BY <1>1, InitRefines, InductiveInvariant, PTL DEF Spec, ImplementsEchoPeer, Peer!Spec

================================================================================
