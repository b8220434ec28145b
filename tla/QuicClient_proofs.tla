--------------------------- MODULE QuicClient_proofs ---------------------------
(***************************************************************************)
(* Theorems about QuicClient, for every set of configurations: any number  *)
(* of connections and streams, any window, paced or not, faulty or not.    *)
(***************************************************************************)
EXTENDS QuicClient, FiniteSetTheorems, TLAPS

\* The connections of this run.
RunConns == 0 .. config.clients - 1

\* TypeOK, but for the bounds of the counters, in groups.
StreamTypes ==
  /\ opened \in [Conns -> SUBSET Ordinals] /\ streamStarted \in [Conns -> SUBSET Ordinals]
  /\ shutdownStarted \in [Conns -> SUBSET Ordinals]
  /\ streamClosed \in [Conns -> SUBSET Ordinals]
  /\ nextSequence \in [Conns -> [Ordinals -> Nat]]
  /\ echoedMessages \in [Conns -> [Ordinals -> Nat]]
ConnTypes ==
  /\ mutex \in [Conns -> Threads \cup {Nobody}]
  /\ connectionClosed \in [Conns -> BOOLEAN]
ControlTypes ==
  /\ config \in Configs /\ activeConnections \in Int
  /\ stopSending \in BOOLEAN /\ pacerStop \in BOOLEAN /\ gStopRequested \in BOOLEAN
PumpTypes ==
  /\ pump \in [Threads -> {"idle", "select", "send", "decide", "shut"}]
  /\ picked \in [Threads -> Ordinals]
WorkTypes ==
  /\ worker \in [Conns -> {"idle", "pump", "pumping", "streamClose", "lastStream",
                           "connectionClose", "countDown", "notify"}]
  /\ stream \in [Conns -> Ordinals]
RunTypes ==
  /\ mainPc \in {"start", "wait", "stop", "stopping", "force", "forcing", "close", "join",
                "done", "threw"}
  /\ mainConn \in RunConns /\ pacerConn \in Conns
  /\ pacerPc \in {"off", "loop", "pumping", "done"}
QuicTypes ==
  /\ quic \in [Conns -> {"idle", "connecting", "connected", "shutdown", "complete"}]
  /\ connectionGone \in [Conns -> BOOLEAN]
  /\ streamGone \in [Conns -> SUBSET Ordinals]
  /\ accepted \in [Conns -> [Ordinals -> Nat]]

Types == /\ StreamTypes /\ ConnTypes /\ ControlTypes /\ PumpTypes /\ WorkTypes /\ RunTypes
         /\ QuicTypes

\* Who is in PumpSends.
CallsPlaced ==
  /\ pump[Main] # "idle" <=> mainPc = "stopping"
  /\ pump[Main] \in {"idle", "decide", "shut"}
  /\ pump[Pacer] # "idle" <=> pacerPc = "pumping"
  /\ \A c \in Conns : pump[c] # "idle" <=> worker[c] = "pumping"

\* A pump has the mutex of its connection, and nobody has a mutex otherwise, but
\* main in ForceShutdown.
MutexHeld ==
  /\ \A t \in Threads : pump[t] # "idle" => mutex[Target(t)] = t
  /\ mainPc = "forcing" => mutex[mainConn] = Main
  /\ \A c \in Conns :
       \/ mutex[c] = Nobody
       \/ mutex[c] = c /\ worker[c] = "pumping"
       \/ mutex[c] = Main /\ mainConn = c /\ mainPc \in {"stopping", "forcing"}
       \/ mutex[c] = Pacer /\ pacerConn = c /\ pacerPc = "pumping"

\* How far Run and the pacer are.
RunProgress ==
  /\ mainPc = "start" => /\ pacerPc = "off"
                         /\ \A c \in mainConn .. config.clients - 1 : quic[c] = "idle"
  /\ mainPc \in {"stop", "stopping"} => stopSending
  /\ mainPc = "done" => pacerPc \in {"off", "done"}
  /\ ~config.paced => pacerPc = "off"
  /\ pacerPc = "pumping" => quic[pacerConn] # "idle"

\* What the events of a connection have told so far.
EventsInOrder(c) ==
  /\ c \notin RunConns => quic[c] = "idle"
  /\ quic[c] \in {"idle", "connecting"} => opened[c] = {}
  /\ worker[c] \in {"pump", "pumping", "streamClose", "lastStream"} =>
       quic[c] \in {"connected", "shutdown"}
  /\ worker[c] \in {"connectionClose", "countDown", "notify"} => quic[c] = "complete"
  /\ connectionGone[c] <=> quic[c] = "complete" /\ worker[c] # "connectionClose"

\* The life of the streams of a connection.
StreamLives(c) ==
  /\ streamStarted[c] \subseteq opened[c]
  /\ shutdownStarted[c] \subseteq streamStarted[c]
  /\ streamClosed[c] \subseteq streamStarted[c]
  /\ streamGone[c] \subseteq streamClosed[c]
  /\ worker[c] = "streamClose" => stream[c] \in streamClosed[c]
  /\ \A o \in streamClosed[c] \ streamGone[c] : worker[c] = "streamClose" /\ o = stream[c]
  /\ quic[c] = "complete" => streamStarted[c] \subseteq streamClosed[c]

\* Where the frames of a stream are.
FramesOf(c, o) ==
  /\ echoedMessages[c][o] <= accepted[c][o] /\ accepted[c][o] <= nextSequence[c][o]
  /\ nextSequence[c][o] - echoedMessages[c][o] <= MaxInflight
  /\ nextSequence[c][o] <= MaxMessages
  /\ o \notin streamStarted[c] => nextSequence[c][o] = 0

\* What a pump has found out stays true until it acts on it.
Found(t, c) ==
  /\ pump[t] = "send" =>
       /\ picked[t] \in streamStarted[c] /\ shutdownStarted[c] = {}
       /\ nextSequence[c][picked[t]] - echoedMessages[c][picked[t]] < MaxInflight
       /\ nextSequence[c][picked[t]] < MaxMessages
       /\ t # Pacer => picked[t] \notin streamClosed[c]
  /\ pump[t] = "shut" => stopSending /\ AllStreamsDrained(c)

Drained(c) == shutdownStarted[c] # {} => stopSending /\ AllStreamsDrained(c)

\* Between two pumps of an unpaced client no window is open.
WindowShut(c) ==
  (/\ ~config.paced /\ c \in config.senders /\ ~stopSending /\ quic[c] = "connected"
   /\ worker[c] \notin {"pump", "pumping"} \/ pump[c] = "decide") =>
     \A o \in Ordinals : ~Eligible(c, o)

\* The connections that have not counted down.
Active == {c \in RunConns : ~(connectionGone[c] /\ worker[c] \in {"idle", "notify"})}
ActiveCounted == activeConnections = Cardinality(Active)

IInv ==
  /\ Types /\ CallsPlaced /\ MutexHeld /\ RunProgress /\ ActiveCounted
  /\ \A c \in Conns : EventsInOrder(c) /\ StreamLives(c) /\ Drained(c) /\ WindowShut(c)
  /\ \A c \in Conns : \A o \in Ordinals : FramesOf(c, o)
  /\ \A t \in Threads : Found(t, Target(t))

-----------------------------------------------------------------------------
(* The operators.                                                          *)

LEMMA Domains ==
  /\ Conns \subseteq Nat /\ Conns \subseteq Threads
  /\ Main \in Threads /\ Pacer \in Threads /\ Nobody \notin Threads
  /\ Main \notin Conns /\ Pacer \notin Conns /\ Main # Pacer
  /\ \A t \in Threads : t = Main \/ t = Pacer \/ t \in Conns
  /\ Target(Main) = mainConn /\ Target(Pacer) = pacerConn /\ \A c \in Conns : Target(c) = c
<1>1. Conns \subseteq Nat
  BY ConfigsAssumption DEF Conns, ConfigType
<1> QED
  BY <1>1 DEF Threads, Main, Pacer, Nobody, Target

LEMMA ConfigFacts ==
  ASSUME config \in Configs
  PROVE  /\ config.clients \in Nat \ {0} /\ config.streams \in Nat \ {0}
         /\ config.paced \in BOOLEAN /\ config.faulty \in BOOLEAN
         /\ RunConns \subseteq Conns /\ 0 \in RunConns
         /\ 0 .. config.streams - 1 \subseteq Ordinals /\ 0 \in Ordinals
         /\ \A c \in RunConns : NextConn(c) \in RunConns
<1>1. /\ config.clients \in Nat \ {0} /\ config.streams \in Nat \ {0}
      /\ config.paced \in BOOLEAN /\ config.faulty \in BOOLEAN
  BY ConfigsAssumption DEF ConfigType
<1>2. RunConns \subseteq Conns /\ 0 .. config.streams - 1 \subseteq Ordinals
  BY DEF RunConns, Conns, Ordinals
<1>3. 0 \in RunConns /\ 0 \in 0 .. config.streams - 1
  BY <1>1 DEF RunConns
<1>4. \A c \in RunConns : NextConn(c) \in RunConns
  BY <1>1 DEF RunConns, NextConn
<1> QED
  BY <1>1, <1>2, <1>3, <1>4

\* The groups that a step leaves alone keep their types.
LEMMA TypesUnchanged ==
  ASSUME Types, UNCHANGED config
  PROVE  /\ UNCHANGED streamVars => StreamTypes'
         /\ UNCHANGED connVars => ConnTypes'
         /\ UNCHANGED ctlVars => ControlTypes'
         /\ UNCHANGED pumpVars => PumpTypes'
         /\ UNCHANGED workVars => WorkTypes'
         /\ UNCHANGED <<mainVars, pacerVars>> => RunTypes'
         /\ UNCHANGED quicVars => QuicTypes'
<1> USE DEF Types
<1>1. UNCHANGED streamVars => StreamTypes'
  BY DEF streamVars, StreamTypes
<1>2. UNCHANGED connVars => ConnTypes'
  BY DEF connVars, ConnTypes
<1>3. UNCHANGED ctlVars => ControlTypes'
  BY DEF ctlVars, ControlTypes
<1>4. UNCHANGED pumpVars => PumpTypes'
  BY DEF pumpVars, PumpTypes
<1>5. UNCHANGED workVars => WorkTypes'
  BY DEF workVars, WorkTypes
<1>6. UNCHANGED <<mainVars, pacerVars>> => RunTypes'
  BY DEF mainVars, pacerVars, RunTypes, RunConns
<1>7. UNCHANGED quicVars => QuicTypes'
  BY DEF quicVars, QuicTypes
<1> QED
  BY <1>1, <1>2, <1>3, <1>4, <1>5, <1>6, <1>7

-----------------------------------------------------------------------------
(* Types.                                                                  *)

LEMMA InitTypes == Init => Types
<1> SUFFICES ASSUME Init PROVE Types
  OBVIOUS
<1> USE Domains, ConfigFacts, ConfigsAssumption DEF Init
<1>1. StreamTypes
  BY DEF StreamTypes
<1>2. ConnTypes
  BY DEF ConnTypes
<1>3. ControlTypes
  <2>1. config.clients \in Int
    BY ConfigFacts
  <2> QED
    BY <2>1 DEF ControlTypes
<1>4. PumpTypes
  BY DEF PumpTypes
<1>5. WorkTypes
  BY DEF WorkTypes
<1>6. RunTypes
  BY DEF RunTypes
<1>7. QuicTypes
  BY DEF QuicTypes
<1> QED
  BY <1>1, <1>2, <1>3, <1>4, <1>5, <1>6, <1>7 DEF Types

LEMMA TargetIsConn ==
  ASSUME Types, NEW t \in Threads
  PROVE  Target(t) \in Conns
BY Domains, ConfigFacts DEF Types, RunTypes, ControlTypes

\* Returning from PumpSends, or doing another step of it.
LEMMA PumpTypesKept ==
  ASSUME Types, NEW t \in Threads, Pump(t)
  PROVE  Types'
<1> DEFINE c == Target(t)
<1>1. c \in Conns /\ picked[t] \in Ordinals
  BY TargetIsConn DEF Types, PumpTypes
<1>2. UNCHANGED config
  BY DEF Pump, SelectStream, SendFrame, SendFails, DecideShutdown, ShutdownStream, ctlVars
<1>3. ASSUME Return(t)
      PROVE  /\ mutex' \in [Conns -> Threads \cup {Nobody}]
             /\ pump' \in [Threads -> {"idle", "select", "send", "decide", "shut"}]
             /\ worker' \in [Conns -> {"idle", "pump", "pumping", "streamClose", "lastStream",
                                       "connectionClose", "countDown", "notify"}]
             /\ RunTypes'
  <2>1. mutex' \in [Conns -> Threads \cup {Nobody}]
    BY <1>1, <1>3 DEF Return, Types, ConnTypes
  <2>2. pump' \in [Threads -> {"idle", "select", "send", "decide", "shut"}]
    BY <1>3 DEF Return, Types, PumpTypes
  <2>3. worker' \in [Conns -> {"idle", "pump", "pumping", "streamClose", "lastStream",
                               "connectionClose", "countDown", "notify"}]
    BY <1>3 DEF Return, Resume, Types, WorkTypes
  <2>4. RunTypes'
    BY <1>2, <1>3, ConfigFacts DEF Return, Resume, Types, RunTypes, ControlTypes, RunConns
  <2> QED
    BY <2>1, <2>2, <2>3, <2>4
<1>4. CASE SelectStream(t)
  BY <1>2, <1>4, TypesUnchanged DEF SelectStream, Types, PumpTypes
<1>5. CASE SendFrame(t)
  <2>1. /\ nextSequence' \in [Conns -> [Ordinals -> Nat]]
        /\ accepted' \in [Conns -> [Ordinals -> Nat]]
    BY <1>1, <1>5 DEF SendFrame, Types, StreamTypes, QuicTypes
  <2>2. StreamTypes' /\ QuicTypes'
    BY <1>5, <2>1 DEF SendFrame, Types, StreamTypes, QuicTypes
  <2>3. PumpTypes'
    BY <1>5 DEF SendFrame, Types, PumpTypes
  <2> QED
    BY <1>2, <1>5, <2>2, <2>3, TypesUnchanged DEF SendFrame, Types
<1>6. CASE SendFails(t)
  <2>1. StreamTypes'
    BY <1>1, <1>6 DEF SendFails, Types, StreamTypes
  <2>2. QuicTypes'
    BY <1>1, <1>6 DEF SendFails, ShutDown, Types, QuicTypes
  <2>3. ConnTypes' /\ PumpTypes' /\ WorkTypes' /\ RunTypes'
    BY <1>3, <1>6 DEF SendFails, Types, ConnTypes, PumpTypes, WorkTypes
  <2> QED
    BY <1>2, <1>6, <2>1, <2>2, <2>3, TypesUnchanged DEF SendFails, Types
<1>7. CASE DecideShutdown(t)
  <2>1. ConnTypes' /\ PumpTypes' /\ WorkTypes' /\ RunTypes'
    <3>1. CASE stopSending /\ AllStreamsDrained(Target(t))
      BY <1>2, <1>7, <3>1, ConfigFacts, TypesUnchanged
         DEF DecideShutdown, Types, ConnTypes, PumpTypes, WorkTypes, ControlTypes
    <3>2. CASE ~(stopSending /\ AllStreamsDrained(Target(t)))
      BY <1>3, <1>7, <3>2 DEF DecideShutdown, Types, ConnTypes, PumpTypes, WorkTypes
    <3> QED
      BY <3>1, <3>2
  <2> QED
    BY <1>2, <1>7, <2>1, TypesUnchanged DEF DecideShutdown, Types
<1>8. CASE ShutdownStream(t)
  <2>1. StreamTypes'
    <3>1. shutdownStarted[c] \cup {picked[t]} \in SUBSET Ordinals
      BY <1>1 DEF Types, StreamTypes
    <3>2. \/ shutdownStarted' = shutdownStarted
          \/ shutdownStarted' = [shutdownStarted EXCEPT ![c] = shutdownStarted[c] \cup {picked[t]}]
      BY <1>8 DEF ShutdownStream
    <3>3. shutdownStarted' \in [Conns -> SUBSET Ordinals]
      BY <1>1, <3>1, <3>2 DEF Types, StreamTypes
    <3> QED
      BY <1>8, <3>3 DEF ShutdownStream, Types, StreamTypes
  <2>2. ConnTypes' /\ PumpTypes' /\ WorkTypes' /\ RunTypes'
    <3>1. CASE picked[t] + 1 < config.streams
      <4>1. picked[t] + 1 \in Ordinals
        <5>1. picked[t] \in Nat
          BY <1>1, ConfigsAssumption DEF Ordinals, ConfigType
        <5> QED
          BY <3>1, <5>1, ConfigFacts DEF Types, ControlTypes
      <4> QED
        BY <1>2, <1>8, <3>1, <4>1, TypesUnchanged
           DEF ShutdownStream, Types, ConnTypes, PumpTypes, WorkTypes
    <3>2. CASE ~(picked[t] + 1 < config.streams)
      BY <1>3, <1>8, <3>2 DEF ShutdownStream, Types, ConnTypes, PumpTypes, WorkTypes
    <3> QED
      BY <3>1, <3>2
  <2> QED
    BY <1>2, <1>8, <2>1, <2>2, TypesUnchanged DEF ShutdownStream, Types, QuicTypes
<1> QED
  BY <1>4, <1>5, <1>6, <1>7, <1>8 DEF Pump

LEMMA WorkerTypesKept ==
  ASSUME Types, NEW c \in Conns, Events(c) \/ (Handler(c) /\ ~Pump(c))
  PROVE  Types'
<1> USE DEF Types
<1>1. UNCHANGED config
  BY DEF Events, Handler, OnConnected, OnStartComplete, OnStartFailed, OnReceive, EnterPump,
         OnStreamShutdownComplete, StreamClose, CloseAfterLast, OnConnectionShutdownComplete,
         ConnectionClose, CountDown, NotifyAll, ctlVars
<1>2. \A v \in {"pump", "idle", "pumping", "streamClose", "lastStream", "connectionClose",
                "countDown", "notify"} :
        worker' = [worker EXCEPT ![c] = v] /\ stream' = stream => WorkTypes'
  BY DEF WorkTypes
<1>3. ShutDown(c) \/ UNCHANGED quic => quic' \in [Conns -> {"idle", "connecting", "connected",
                                                            "shutdown", "complete"}]
  BY DEF ShutDown, QuicTypes
<1>4. CASE OnConnected(c)
  <2>1. PICK n \in 0 .. config.streams :
          /\ opened' = [opened EXCEPT ![c] = 0 .. n - 1]
          /\ quic' = [quic EXCEPT ![c] = IF n < config.streams THEN "shutdown" ELSE "connected"]
    BY <1>4 DEF OnConnected
  <2>2. 0 .. n - 1 \subseteq Ordinals
    BY ConfigFacts DEF ControlTypes
  <2>3. StreamTypes' /\ QuicTypes'
    BY <1>4, <2>1, <2>2 DEF OnConnected, StreamTypes, QuicTypes
  <2> QED
    BY <1>1, <1>4, <2>3, TypesUnchanged DEF OnConnected
<1>5. ASSUME NEW o \in Ordinals, OnStartComplete(c, o) PROVE Types'
  <2>1. StreamTypes'
    BY <1>5 DEF OnStartComplete, StreamTypes
  <2>2. WorkTypes'
    BY <1>2, <1>5 DEF OnStartComplete
  <2> QED
    BY <1>1, <1>5, <2>1, <2>2, TypesUnchanged DEF OnStartComplete
<1>6. ASSUME NEW o \in Ordinals, OnStartFailed(c, o) PROVE Types'
  <2>1. QuicTypes'
    BY <1>3, <1>6 DEF OnStartFailed, QuicTypes
  <2> QED
    BY <1>1, <1>6, <2>1, TypesUnchanged DEF OnStartFailed
<1>7. ASSUME NEW o \in Ordinals, OnReceive(c, o) PROVE Types'
  <2>1. PICK k \in 1 .. accepted[c][o] - echoedMessages[c][o] :
          echoedMessages' = [echoedMessages EXCEPT ![c][o] = @ + k]
    BY <1>7 DEF OnReceive
  <2>2. k \in Nat
    BY DEF QuicTypes, StreamTypes
  <2>3. StreamTypes'
    BY <1>7, <2>1, <2>2 DEF OnReceive, StreamTypes
  <2>4. WorkTypes'
    BY <1>2, <1>7 DEF OnReceive
  <2> QED
    BY <1>1, <1>7, <2>3, <2>4, TypesUnchanged DEF OnReceive
<1>8. ASSUME NEW o \in Ordinals, OnStreamShutdownComplete(c, o) PROVE Types'
  <2>1. StreamTypes' /\ WorkTypes'
    BY <1>8 DEF OnStreamShutdownComplete, StreamTypes, WorkTypes
  <2> QED
    BY <1>1, <1>8, <2>1, TypesUnchanged DEF OnStreamShutdownComplete
<1>9. CASE OnConnectionShutdownComplete(c)
  <2>1. WorkTypes'
    BY <1>2, <1>9 DEF OnConnectionShutdownComplete
  <2>2. ConnTypes' /\ QuicTypes'
    BY <1>9 DEF OnConnectionShutdownComplete, ConnTypes, QuicTypes
  <2> QED
    BY <1>1, <1>9, <2>1, <2>2, TypesUnchanged DEF OnConnectionShutdownComplete
<1>10. CASE EnterPump(c)
  <2>1. WorkTypes'
    BY <1>2, <1>10 DEF EnterPump
  <2>2. ConnTypes' /\ PumpTypes'
    BY <1>10, Domains DEF EnterPump, Lock, ConnTypes, PumpTypes
  <2> QED
    BY <1>1, <1>10, <2>1, <2>2, TypesUnchanged DEF EnterPump
<1>11. CASE StreamClose(c)
  <2>1. WorkTypes'
    BY <1>2, <1>11 DEF StreamClose
  <2>2. QuicTypes'
    BY <1>11 DEF StreamClose, QuicTypes, WorkTypes
  <2> QED
    BY <1>1, <1>11, <2>1, <2>2, TypesUnchanged DEF StreamClose
<1>12. CASE CloseAfterLast(c)
  <2>1. WorkTypes'
    BY <1>2, <1>12 DEF CloseAfterLast
  <2>2. QuicTypes'
    BY <1>3, <1>12 DEF CloseAfterLast, QuicTypes
  <2> QED
    BY <1>1, <1>12, <2>1, <2>2, TypesUnchanged DEF CloseAfterLast
<1>13. CASE ConnectionClose(c)
  <2>1. WorkTypes'
    BY <1>2, <1>13 DEF ConnectionClose
  <2>2. QuicTypes'
    BY <1>13 DEF ConnectionClose, QuicTypes
  <2> QED
    BY <1>1, <1>13, <2>1, <2>2, TypesUnchanged DEF ConnectionClose
<1>14. CASE CountDown(c)
  <2>1. WorkTypes'
    BY <1>2, <1>14 DEF CountDown
  <2>2. ControlTypes'
    BY <1>14 DEF CountDown, ControlTypes
  <2> QED
    BY <1>1, <1>14, <2>1, <2>2, TypesUnchanged DEF CountDown
<1>15. CASE NotifyAll(c)
  <2>1. WorkTypes'
    BY <1>2, <1>15 DEF NotifyAll
  <2> QED
    BY <1>1, <1>15, <2>1, TypesUnchanged DEF NotifyAll
<1> QED
  BY <1>4, <1>5, <1>6, <1>7, <1>8, <1>9, <1>10, <1>11, <1>12, <1>13, <1>14, <1>15
     DEF Events, Handler

LEMMA RunTypesKept ==
  ASSUME Types, PacerVisit \/ PacerEnds \/ (MainStep /\ ~Pump(Main)) \/ Disturb
  PROVE  Types'
<1> USE DEF Types
<1>1. UNCHANGED config
  BY DEF PacerVisit, PacerEnds, MainStep, Disturb, StartConnection, StartThrows, Deadline,
         RequestStopSending, LeaveWait, ForceShutdown, ForceCall, WaitForConnectionsToClose,
         JoinPacer, ctlVars
<1>2. /\ mainConn \in Conns /\ NextConn(mainConn) \in RunConns /\ RunConns' = RunConns
  BY <1>1, ConfigFacts DEF ControlTypes, RunTypes, RunConns
<1>3. \A d \in Conns : ShutDown(d) \/ UNCHANGED quic =>
        quic' \in [Conns -> {"idle", "connecting", "connected", "shutdown", "complete"}]
  BY DEF ShutDown, QuicTypes
<1>4. CASE PacerVisit
  <2>1. ConnTypes' /\ PumpTypes' /\ RunTypes'
    BY <1>2, <1>4, Domains DEF PacerVisit, ConnTypes, PumpTypes, RunTypes, mainVars
  <2> QED
    BY <1>1, <1>4, <2>1, TypesUnchanged DEF PacerVisit
<1>5. CASE PacerEnds \/ StartThrows \/ LeaveWait \/ JoinPacer
  <2>1. RunTypes'
    BY <1>2, <1>5 DEF PacerEnds, StartThrows, LeaveWait, JoinPacer, RunTypes, mainVars, pacerVars
  <2> QED
    BY <1>1, <1>5, <2>1, TypesUnchanged DEF PacerEnds, StartThrows, LeaveWait, JoinPacer
<1>6. CASE StartConnection
  <2>1. RunTypes' /\ QuicTypes'
    BY <1>2, <1>6 DEF StartConnection, RunTypes, QuicTypes
  <2> QED
    BY <1>1, <1>6, <2>1, TypesUnchanged DEF StartConnection
<1>7. CASE Deadline \/ WaitForConnectionsToClose
  <2>1. RunTypes' /\ ControlTypes'
    BY <1>2, <1>7 DEF Deadline, WaitForConnectionsToClose, RunTypes, ControlTypes, pacerVars
  <2> QED
    BY <1>1, <1>7, <2>1, TypesUnchanged DEF Deadline, WaitForConnectionsToClose
<1>8. CASE RequestStopSending
  <2>1. /\ mutex' = mutex \/ mutex' = [mutex EXCEPT ![mainConn] = Main]
        /\ pump' = pump \/ pump' = [pump EXCEPT ![Main] = "decide"]
        /\ ShutDown(mainConn) \/ UNCHANGED quic
        /\ mainConn' \in {mainConn, NextConn(mainConn)}
        /\ mainPc' \in {"stop", "stopping", "wait"}
        /\ UNCHANGED <<streamVars, connectionClosed, ctlVars, picked, workVars, pacerVars,
                       connectionGone, streamGone, accepted>>
    BY <1>8, Domains DEF RequestStopSending, Lock
  <2>2. ConnTypes' /\ PumpTypes'
    BY <1>2, <2>1, Domains DEF ConnTypes, PumpTypes
  <2>3. RunTypes'
    BY <1>2, <2>1 DEF RunTypes, pacerVars
  <2>4. QuicTypes'
    BY <1>2, <1>3, <2>1 DEF QuicTypes
  <2> QED
    BY <1>1, <2>1, <2>2, <2>3, <2>4, TypesUnchanged
<1>9. CASE ForceShutdown
  <2>1. ConnTypes'
    BY <1>2, <1>9, Domains DEF ForceShutdown, Lock, ConnTypes
  <2>2. RunTypes'
    BY <1>2, <1>9 DEF ForceShutdown, RunTypes, pacerVars
  <2> QED
    BY <1>1, <1>9, <2>1, <2>2, TypesUnchanged DEF ForceShutdown
<1>10. CASE ForceCall
  <2>1. ConnTypes'
    BY <1>2, <1>10 DEF ForceCall, ConnTypes
  <2>2. RunTypes'
    BY <1>2, <1>10 DEF ForceCall, RunTypes, pacerVars
  <2>3. QuicTypes'
    BY <1>2, <1>3, <1>10 DEF ForceCall, QuicTypes
  <2> QED
    BY <1>1, <1>10, <2>1, <2>2, <2>3, TypesUnchanged DEF ForceCall
<1>11. CASE Disturb
  <2>1. QuicTypes'
    BY <1>3, <1>11 DEF Disturb, QuicTypes
  <2>2. ControlTypes'
    BY <1>11 DEF Disturb, ControlTypes
  <2> QED
    BY <1>1, <1>11, <2>1, <2>2, TypesUnchanged DEF Disturb
<1> QED
  BY <1>4, <1>5, <1>6, <1>7, <1>8, <1>9, <1>10, <1>11 DEF MainStep

LEMMA TypesNext ==
  ASSUME Types, [Next]_vars
  PROVE  Types'
<1>1. CASE UNCHANGED vars
  BY <1>1, TypesUnchanged DEF vars, ctlVars, Types
<1>2. CASE Next /\ ~UNCHANGED vars
  BY <1>2, PumpTypesKept, WorkerTypesKept, RunTypesKept, Domains
     DEF Next, Handler, PacerStep, MainStep, Ended
<1> QED
  BY <1>1, <1>2

-----------------------------------------------------------------------------
(* The initial states.                                                     *)

LEMMA InitIInv == Init => IInv
<1> SUFFICES ASSUME Init PROVE IInv
  OBVIOUS
<1>1. Types
  BY InitTypes
<1>2. /\ CallsPlaced /\ MutexHeld /\ RunProgress
      /\ \A c \in Conns : EventsInOrder(c) /\ StreamLives(c) /\ Drained(c) /\ WindowShut(c)
  <2>1. CallsPlaced
    BY Domains DEF Init, CallsPlaced
  <2>2. MutexHeld
    BY Domains DEF Init, MutexHeld
  <2>3. RunProgress
    <3>1. \A c \in 0 .. config.clients - 1 : c \in Conns
      BY ConfigFacts DEF Init, RunConns
    <3> QED
      BY <3>1, ConfigFacts DEF Init, RunProgress
  <2>4. \A c \in Conns : EventsInOrder(c) /\ StreamLives(c)
    BY DEF Init, EventsInOrder, StreamLives
  <2>5. \A c \in Conns : Drained(c) /\ WindowShut(c)
    BY DEF Init, Drained, WindowShut, Eligible
  <2> QED
    BY <2>1, <2>2, <2>3, <2>4, <2>5
<1>3. \A c \in Conns : \A o \in Ordinals : FramesOf(c, o)
  BY ConfigsAssumption DEF Init, FramesOf
<1>4. \A t \in Threads : Found(t, Target(t))
  BY DEF Init, Found
<1>5. ActiveCounted
  <2>1. Active = 0 .. config.clients - 1
    BY ConfigFacts DEF Init, Active, RunConns
  <2>2. Cardinality(0 .. config.clients - 1) = config.clients
    BY ConfigFacts, FS_Interval DEF Init
  <2> QED
    BY <2>1, <2>2 DEF Init, ActiveCounted
<1> QED
  BY <1>1, <1>2, <1>3, <1>4, <1>5 DEF IInv

-----------------------------------------------------------------------------
(* Who pumps, and who has the mutexes.                                     *)

\* What all steps of a pump have in common: it goes on, or it returns.
LEMMA PumpEffect ==
  ASSUME Types, CallsPlaced, NEW t \in Threads, Pump(t)
  PROVE  /\ pump[t] # "idle"
         /\ UNCHANGED <<ctlVars, opened, streamStarted, streamClosed, echoedMessages,
                        connectionClosed, stream, connectionGone, streamGone>>
         /\ ShutDown(Target(t)) \/ UNCHANGED quic
         /\ \/ /\ \E v \in {"select", "send", "decide", "shut"} :
                    pump' = [pump EXCEPT ![t] = v] /\ (t = Main => v = "shut")
               /\ UNCHANGED <<mutex, worker, mainVars, pacerVars>>
            \/ Return(t)
<1>1. pump[t] \in {"idle", "select", "send", "decide", "shut"}
  BY DEF Types, PumpTypes
<1>2. t = Main => pump[t] \in {"idle", "decide", "shut"}
  BY DEF CallsPlaced
<1>3. CASE SelectStream(t)
  <2>1. pump' = [pump EXCEPT ![t] = "send"] \/ pump' = [pump EXCEPT ![t] = "decide"]
    BY <1>3 DEF SelectStream
  <2> QED
    BY <1>2, <1>3, <2>1
       DEF SelectStream, streamVars, connVars, workVars, mainVars, pacerVars, quicVars
<1>4. CASE SendFrame(t)
  <2>1. pump' = [pump EXCEPT ![t] = "decide"] \/ pump' = [pump EXCEPT ![t] = "select"]
    BY <1>4 DEF SendFrame
  <2> QED
    BY <1>2, <1>4, <2>1
       DEF SendFrame, connVars, workVars, mainVars, pacerVars
<1>5. CASE SendFails(t)
  BY <1>5 DEF SendFails
<1>6. CASE DecideShutdown(t)
  BY <1>6 DEF DecideShutdown, streamVars, mainVars, pacerVars, quicVars
<1>7. CASE ShutdownStream(t)
  <2>1. pump = [pump EXCEPT ![t] = "shut"]
    BY <1>7 DEF ShutdownStream, Types, PumpTypes
  <2> QED
    BY <1>7, <2>1 DEF ShutdownStream, mainVars, pacerVars
<1> QED
  BY <1>3, <1>4, <1>5, <1>6, <1>7 DEF Pump

\* The mutex admits one pump to a connection.
LEMMA OnePump ==
  ASSUME MutexHeld, NEW t \in Threads, NEW u \in Threads, pump[t] # "idle", pump[u] # "idle",
         Target(t) = Target(u)
  PROVE  t = u
BY DEF MutexHeld

\* Where the other threads are when a pump returns.
LEMMA OthersAtReturn ==
  ASSUME Types, CallsPlaced, MutexHeld, NEW t \in Threads, pump[t] # "idle", Return(t)
  PROVE  /\ \A u \in Threads \ {t} : pump'[u] = pump[u] /\ Target(u)' = Target(u)
         /\ pump'[t] = "idle" /\ mutex'[Target(t)] = Nobody
         /\ \A c \in Conns \ {Target(t)} : mutex'[c] = mutex[c]
         /\ \A c \in Conns \ {t} : worker'[c] = worker[c]
         /\ t \in Conns => worker'[t] = "idle"
         /\ t # Main => UNCHANGED mainVars
         /\ t # Pacer => UNCHANGED pacerVars
         /\ t = Main => mainPc = "stopping" /\ mainPc' \in {"wait", "stop"}
         /\ t = Pacer => pacerPc = "pumping" /\ pacerPc' = "loop"
<1>1. Target(t) \in Conns
  BY TargetIsConn
<1>2. /\ \A u \in Threads \ {t} : pump'[u] = pump[u]
      /\ pump'[t] = "idle" /\ mutex'[Target(t)] = Nobody
      /\ \A c \in Conns \ {Target(t)} : mutex'[c] = mutex[c]
  BY <1>1 DEF Return, Types, PumpTypes, ConnTypes
<1>3. /\ \A c \in Conns \ {t} : worker'[c] = worker[c]
      /\ t \in Conns => worker'[t] = "idle"
  BY DEF Return, Resume, Types, WorkTypes
<1>4. /\ t # Main => UNCHANGED mainVars
      /\ t # Pacer => UNCHANGED pacerVars
      /\ t = Main => mainPc' \in {"wait", "stop"}
      /\ t = Pacer => pacerPc' = "loop"
      /\ UNCHANGED pacerConn
  BY DEF Return, Resume, mainVars, pacerVars
<1>5. /\ t = Main => mainPc = "stopping"
      /\ t = Pacer => pacerPc = "pumping"
  BY DEF CallsPlaced
<1>6. \A u \in Threads \ {t} : Target(u)' = Target(u)
  BY <1>4 DEF Target, mainVars
<1> QED
  BY <1>2, <1>3, <1>4, <1>5, <1>6

LEMMA PumpKeepsCalls ==
  ASSUME Types, CallsPlaced, MutexHeld, NEW t \in Threads, Pump(t)
  PROVE  CallsPlaced' /\ MutexHeld'
<1>1. pump[t] # "idle"
  BY PumpEffect
<1>2. CASE Return(t)
  <2>1. CallsPlaced'
    <3>1. pump'[Main] # "idle" <=> mainPc' = "stopping"
      BY <1>1, <1>2, OthersAtReturn, Domains DEF CallsPlaced, mainVars
    <3>2. pump'[Main] \in {"idle", "decide", "shut"}
      BY <1>1, <1>2, OthersAtReturn, Domains DEF CallsPlaced
    <3>3. pump'[Pacer] # "idle" <=> pacerPc' = "pumping"
      BY <1>1, <1>2, OthersAtReturn, Domains DEF CallsPlaced, pacerVars
    <3>4. \A c \in Conns : pump'[c] # "idle" <=> worker'[c] = "pumping"
      BY <1>1, <1>2, OthersAtReturn, Domains DEF CallsPlaced
    <3> QED
      BY <3>1, <3>2, <3>3, <3>4 DEF CallsPlaced
  <2>2. \A u \in Threads : pump'[u] # "idle" => mutex'[Target(u)'] = u
    <3> SUFFICES ASSUME NEW u \in Threads, pump'[u] # "idle" PROVE mutex'[Target(u)'] = u
      OBVIOUS
    <3>1. u # t /\ pump[u] # "idle" /\ Target(u)' = Target(u)
      BY <1>1, <1>2, OthersAtReturn
    <3>2. Target(u) # Target(t) /\ Target(u) \in Conns
      BY <1>1, <3>1, OnePump, TargetIsConn
    <3> QED
      BY <1>1, <1>2, <3>1, <3>2, OthersAtReturn DEF MutexHeld
  <2>3. mainPc' = "forcing" => mutex'[mainConn'] = Main
    <3> SUFFICES ASSUME mainPc' = "forcing" PROVE mutex'[mainConn'] = Main
      OBVIOUS
    <3>1. t # Main /\ UNCHANGED mainVars
      BY <1>1, <1>2, OthersAtReturn
    <3>2. mutex[mainConn] = Main /\ mutex[Target(t)] = t
      BY <1>1, <3>1 DEF MutexHeld, mainVars
    <3>3. mainConn \in Conns \ {Target(t)}
      BY <3>1, <3>2, TargetIsConn, Domains
    <3> QED
      BY <1>1, <1>2, <3>1, <3>2, <3>3, OthersAtReturn DEF mainVars
  <2>4. ASSUME NEW c \in Conns
        PROVE  \/ mutex'[c] = Nobody
               \/ mutex'[c] = c /\ worker'[c] = "pumping"
               \/ mutex'[c] = Main /\ mainConn' = c /\ mainPc' \in {"stopping", "forcing"}
               \/ mutex'[c] = Pacer /\ pacerConn' = c /\ pacerPc' = "pumping"
    <3>1. CASE c = Target(t)
      BY <1>1, <1>2, <3>1, OthersAtReturn
    <3>2. CASE c # Target(t)
      <4>1. mutex'[c] = mutex[c]
        BY <1>1, <1>2, <3>2, OthersAtReturn
      <4>2. mutex[c] = c /\ worker[c] = "pumping" => worker'[c] = "pumping"
        BY <1>1, <1>2, <3>2, OthersAtReturn, Domains
      <4>3. mutex[c] = Main /\ mainConn = c => UNCHANGED mainVars
        BY <1>1, <1>2, <3>2, OthersAtReturn, Domains
      <4>4. mutex[c] = Pacer /\ pacerConn = c => UNCHANGED pacerVars
        BY <1>1, <1>2, <3>2, OthersAtReturn, Domains
      <4> QED
        BY <4>1, <4>2, <4>3, <4>4 DEF MutexHeld, mainVars, pacerVars
    <3> QED
      BY <3>1, <3>2
  <2> QED
    BY <2>1, <2>2, <2>3, <2>4 DEF MutexHeld
<1>3. CASE ~Return(t)
  <2>1. PICK v \in {"select", "send", "decide", "shut"} :
          pump' = [pump EXCEPT ![t] = v] /\ (t = Main => v = "shut")
    BY <1>3, PumpEffect
  <2>2. UNCHANGED <<mutex, worker, mainVars, pacerVars>>
    BY <1>3, PumpEffect
  <2>3. \A u \in Threads : /\ pump'[u] # "idle" <=> pump[u] # "idle"
                           /\ Target(u)' = Target(u)
    BY <1>1, <2>1, <2>2 DEF Types, PumpTypes, Target, mainVars, pacerVars
  <2>4. pump'[Main] \in {"idle", "decide", "shut"}
    BY <2>1, Domains DEF CallsPlaced, Types, PumpTypes
  <2> QED
    BY <2>2, <2>3, <2>4, Domains DEF CallsPlaced, MutexHeld, mainVars, pacerVars
<1> QED
  BY <1>2, <1>3

\* What all other steps of a worker have in common.
LEMMA WorkerEffect ==
  ASSUME Types, NEW c \in Conns, Events(c) \/ (Handler(c) /\ ~Pump(c))
  PROVE  /\ UNCHANGED <<mainVars, pacerVars, config, stopSending, picked>>
         /\ worker[c] # "pumping"
         /\ \/ /\ \E v \in {"pump", "idle", "streamClose", "lastStream", "connectionClose",
                            "countDown", "notify"} : worker' = [worker EXCEPT ![c] = v]
               /\ UNCHANGED <<mutex, pump>>
            \/ EnterPump(c)
<1>1. \A v : worker[c] = v => worker = [worker EXCEPT ![c] = v]
  BY DEF Types, WorkTypes
<1>2. CASE \/ OnConnected(c) \/ OnConnectionShutdownComplete(c)
           \/ \E o \in Ordinals : OnStartFailed(c, o) \/ OnStreamShutdownComplete(c, o)
  BY <1>1, <1>2 DEF OnConnected, OnStartFailed, Ready, OnConnectionShutdownComplete, workVars,
         OnStreamShutdownComplete, ctlVars, pumpVars, connVars
<1>3. CASE \E o \in Ordinals : OnStartComplete(c, o) \/ OnReceive(c, o)
  <2>1. worker' = [worker EXCEPT ![c] = "pump"] \/ worker' = [worker EXCEPT ![c] = "idle"]
    BY <1>3 DEF OnStartComplete, OnReceive
  <2> QED
    BY <1>3, <2>1 DEF OnStartComplete, OnReceive, Ready, ctlVars, pumpVars, connVars
<1>4. CASE EnterPump(c)
  BY <1>4 DEF EnterPump, ctlVars
<1>5. CASE StreamClose(c) \/ CloseAfterLast(c) \/ ConnectionClose(c) \/ CountDown(c) \/ NotifyAll(c)
  BY <1>5 DEF StreamClose, CloseAfterLast, ConnectionClose, CountDown, NotifyAll, ctlVars, pumpVars,
         connVars
<1> QED
  BY <1>2, <1>3, <1>4, <1>5 DEF Events, Handler

LEMMA WorkerKeepsCalls ==
  ASSUME Types, CallsPlaced, MutexHeld, NEW c \in Conns,
         Events(c) \/ (Handler(c) /\ ~Pump(c))
  PROVE  CallsPlaced' /\ MutexHeld'
<1>1. /\ UNCHANGED <<mainVars, pacerVars>> /\ worker[c] # "pumping"
      /\ \A u \in Threads : Target(u)' = Target(u)
  BY WorkerEffect DEF Target, mainVars, pacerVars
<1>2. CASE EnterPump(c)
  <2>1. /\ mutex[c] = Nobody /\ mutex' = [mutex EXCEPT ![c] = c]
        /\ worker' = [worker EXCEPT ![c] = "pumping"] /\ pump' = [pump EXCEPT ![c] = "select"]
    BY <1>2, Domains DEF EnterPump, Lock, CanLock
  <2>2. CallsPlaced'
    BY <1>1, <2>1, Domains DEF CallsPlaced, Types, PumpTypes, WorkTypes, mainVars, pacerVars
  <2>3. \A u \in Threads : pump[u] # "idle" => Target(u) # c
    BY <2>1, Domains DEF MutexHeld
  <2>4. \A u \in Threads : pump'[u] # "idle" => mutex'[Target(u)'] = u
    <3> SUFFICES ASSUME NEW u \in Threads, pump'[u] # "idle" PROVE mutex'[Target(u)] = u
      BY <1>1
    <3>1. CASE u = c
      BY <2>1, <3>1, Domains DEF Types, ConnTypes
    <3>2. CASE u # c
      BY <2>1, <2>3, <3>2, TargetIsConn DEF MutexHeld, Types, ConnTypes, PumpTypes
    <3> QED
      BY <3>1, <3>2
  <2>5. mainPc' = "forcing" => mutex'[mainConn'] = Main
    BY <1>1, <2>1, TargetIsConn, Domains DEF MutexHeld, Types, ConnTypes, mainVars
  <2>6. \A d \in Conns : /\ d # c => mutex'[d] = mutex[d] /\ worker'[d] = worker[d]
                         /\ d = c => mutex'[d] = d /\ worker'[d] = "pumping"
    BY <2>1 DEF Types, ConnTypes, WorkTypes
  <2> QED
    BY <1>1, <2>4, <2>2, <2>5, <2>6 DEF MutexHeld, mainVars, pacerVars
<1>3. CASE ~EnterPump(c)
  <2>1. /\ \E v \in {"pump", "idle", "streamClose", "lastStream", "connectionClose",
                     "countDown", "notify"} : worker' = [worker EXCEPT ![c] = v]
        /\ UNCHANGED <<mutex, pump>>
    BY <1>3, WorkerEffect
  <2>2. \A d \in Conns : worker'[d] = "pumping" <=> worker[d] = "pumping"
    BY <1>1, <2>1 DEF Types, WorkTypes
  <2> QED
    BY <1>1, <2>1, <2>2 DEF CallsPlaced, MutexHeld, mainVars, pacerVars
<1> QED
  BY <1>2, <1>3

LEMMA RunKeepsCalls ==
  ASSUME Types, CallsPlaced, MutexHeld, RunProgress,
         PacerVisit \/ PacerEnds \/ (MainStep /\ ~Pump(Main)) \/ Disturb
  PROVE  CallsPlaced' /\ MutexHeld'
<1>1. mainConn \in Conns /\ mutex \in [Conns -> Threads \cup {Nobody}]
  BY TargetIsConn, Domains DEF Types, ConnTypes
<1>2. CASE UNCHANGED pumpVars /\ UNCHANGED connVars /\ UNCHANGED workVars /\ UNCHANGED mainVars
           /\ UNCHANGED pacerVars
  BY <1>2 DEF pumpVars, connVars, workVars, mainVars, pacerVars, CallsPlaced, MutexHeld, Target
<1>3. CASE PacerVisit
  <2>1. PICK d \in Conns : /\ mutex[d] = Nobody
                           /\ mutex' = [mutex EXCEPT ![d] = Pacer] /\ pacerConn' = d
    BY <1>3 DEF PacerVisit
  <2>2. /\ pump' = [pump EXCEPT ![Pacer] = "select"] /\ pacerPc = "loop" /\ pacerPc' = "pumping"
        /\ UNCHANGED worker /\ UNCHANGED mainVars
    BY <1>3 DEF PacerVisit, workVars
  <2>3. pump[Pacer] = "idle"
    BY <2>2, Domains DEF CallsPlaced
  <2>4. /\ pump'[Pacer] = "select" /\ \A u \in Threads \ {Pacer} : pump'[u] = pump[u]
        /\ mutex'[d] = Pacer /\ \A c \in Conns \ {d} : mutex'[c] = mutex[c]
    BY <1>1, <2>1, <2>2, Domains DEF Types, PumpTypes
  <2>5. CallsPlaced'
    BY <2>2, <2>4, Domains DEF CallsPlaced, mainVars
  <2>6. \A u \in Threads : pump'[u] # "idle" => mutex'[Target(u)'] = u
    <3> SUFFICES ASSUME NEW u \in Threads, pump'[u] # "idle" PROVE mutex'[Target(u)'] = u
      OBVIOUS
    <3>1. CASE u = Pacer
      BY <2>1, <2>4, <3>1, Domains DEF Target
    <3>2. CASE u # Pacer
      <4>1. Target(u)' = Target(u)
        BY <2>2, <3>2 DEF Target, mainVars
      <4>2. mutex[Target(u)] = u /\ Target(u) \in Conns
        BY <2>4, <3>2, TargetIsConn DEF MutexHeld
      <4> QED
        BY <2>1, <2>4, <4>1, <4>2, Domains
    <3> QED
      BY <3>1, <3>2
  <2>7. mainPc' = "forcing" => mutex'[mainConn'] = Main
    BY <1>1, <2>1, <2>2, <2>4, Domains DEF MutexHeld, mainVars
  <2>8. \A c \in Conns : mutex[c] # Pacer
    BY <2>2, Domains DEF MutexHeld
  <2> QED
    BY <2>1, <2>2, <2>4, <2>5, <2>6, <2>7, <2>8 DEF MutexHeld, mainVars
<1>4. CASE PacerEnds
  BY <1>4, Domains DEF PacerEnds, connVars, pumpVars, workVars, mainVars, CallsPlaced,
         MutexHeld, Target
<1>5. CASE \/ StartConnection \/ StartThrows \/ Deadline \/ LeaveWait
           \/ WaitForConnectionsToClose \/ JoinPacer
  <2>1. /\ UNCHANGED <<pump, mutex, worker>> /\ UNCHANGED pacerConn
        /\ mainPc \notin {"stopping", "forcing"} /\ mainPc' \notin {"stopping", "forcing"}
    BY <1>5 DEF StartConnection, StartThrows, Deadline, LeaveWait, pacerVars,
         WaitForConnectionsToClose, JoinPacer, connVars, pumpVars, workVars
  <2>2. pacerPc' = "pumping" <=> pacerPc = "pumping"
    <3>1. CASE StartConnection
      BY <3>1 DEF StartConnection, RunProgress
    <3>2. CASE ~StartConnection
      BY <1>5, <3>2 DEF StartThrows, Deadline, LeaveWait, WaitForConnectionsToClose, JoinPacer,
         pacerVars
    <3> QED
      BY <3>1, <3>2
  <2>3. CallsPlaced'
    BY <2>1, <2>2 DEF CallsPlaced
  <2>4. \A u \in Threads : pump[u] # "idle" => Target(u)' = Target(u)
    BY <2>1 DEF Target, CallsPlaced
  <2> QED
    BY <2>1, <2>2, <2>3, <2>4 DEF MutexHeld
<1>6. CASE RequestStopSending /\ opened[mainConn] # {}
  <2>1. /\ mutex[mainConn] = Nobody /\ mutex' = [mutex EXCEPT ![mainConn] = Main]
        /\ pump' = [pump EXCEPT ![Main] = "decide"] /\ mainPc = "stop" /\ mainPc' = "stopping"
        /\ UNCHANGED <<mainConn, pacerPc, pacerConn, worker>>
    BY <1>6, Domains DEF RequestStopSending, Lock, CanLock, workVars, pacerVars
  <2>2. /\ pump'[Main] = "decide" /\ \A u \in Threads \ {Main} : pump'[u] = pump[u]
        /\ mutex'[mainConn] = Main /\ \A c \in Conns \ {mainConn} : mutex'[c] = mutex[c]
        /\ \A u \in Threads : Target(u)' = Target(u)
    BY <1>1, <2>1, Domains DEF Types, PumpTypes, Target
  <2>3. CallsPlaced'
    BY <2>1, <2>2, Domains DEF CallsPlaced
  <2>4. \A u \in Threads : pump'[u] # "idle" => mutex'[Target(u)] = u
    <3> SUFFICES ASSUME NEW u \in Threads, pump'[u] # "idle" PROVE mutex'[Target(u)] = u
      OBVIOUS
    <3>1. CASE u = Main
      BY <2>2, <3>1, Domains
    <3>2. CASE u # Main
      BY <2>1, <2>2, <3>2, TargetIsConn, Domains DEF MutexHeld
    <3> QED
      BY <3>1, <3>2
  <2> QED
    BY <2>1, <2>2, <2>3, <2>4 DEF MutexHeld
<1>7. CASE ForceShutdown /\ ~connectionClosed[mainConn]
  <2>1. /\ mutex[mainConn] = Nobody /\ mutex' = [mutex EXCEPT ![mainConn] = Main]
        /\ mainPc = "force" /\ mainPc' = "forcing"
        /\ UNCHANGED <<mainConn, pacerPc, pacerConn, worker, pump>>
    BY <1>7, Domains DEF ForceShutdown, Lock, CanLock, workVars, pacerVars, pumpVars
  <2>2. /\ mutex'[mainConn] = Main /\ \A c \in Conns \ {mainConn} : mutex'[c] = mutex[c]
        /\ \A u \in Threads : Target(u)' = Target(u)
    BY <1>1, <2>1, Domains DEF Target
  <2>3. CallsPlaced'
    BY <2>1 DEF CallsPlaced
  <2>4. \A u \in Threads : pump'[u] # "idle" => mutex'[Target(u)] = u
    BY <2>1, <2>2, TargetIsConn, Domains DEF MutexHeld
  <2> QED
    BY <2>1, <2>2, <2>3, <2>4 DEF MutexHeld
<1>8. CASE \/ RequestStopSending /\ opened[mainConn] = {}
           \/ ForceShutdown /\ connectionClosed[mainConn]
  <2>1. /\ UNCHANGED <<pump, mutex, worker, pacerPc, pacerConn>>
        /\ mainPc \in {"stop", "force"} /\ mainPc' \notin {"stopping", "forcing"}
    BY <1>8 DEF RequestStopSending, ForceShutdown, pumpVars, workVars, pacerVars
  <2>2. CallsPlaced'
    BY <2>1 DEF CallsPlaced
  <2>3. \A u \in Threads : pump[u] # "idle" => Target(u)' = Target(u)
    BY <2>1 DEF Target, CallsPlaced
  <2> QED
    BY <2>1, <2>2, <2>3 DEF MutexHeld
<1>9. CASE ForceCall
  <2>1. /\ mutex' = [mutex EXCEPT ![mainConn] = Nobody] /\ mutex[mainConn] = Main
        /\ mainPc = "forcing" /\ mainPc' \in {"force", "close"}
        /\ UNCHANGED <<pacerPc, pacerConn, worker, pump>>
    BY <1>9 DEF ForceCall, workVars, pacerVars, pumpVars, MutexHeld
  <2>2. /\ mutex'[mainConn] = Nobody /\ \A c \in Conns \ {mainConn} : mutex'[c] = mutex[c]
    BY <1>1, <2>1
  <2>3. CallsPlaced'
    BY <2>1 DEF CallsPlaced
  <2>4. \A u \in Threads : pump[u] # "idle" => u # Main /\ Target(u)' = Target(u)
    BY <2>1 DEF CallsPlaced, Target
  <2>5. \A u \in Threads : pump'[u] # "idle" => mutex'[Target(u)'] = u
    BY <2>1, <2>2, <2>4, TargetIsConn DEF MutexHeld
  <2> QED
    BY <2>1, <2>2, <2>3, <2>5 DEF MutexHeld
<1>10. CASE Disturb
  BY <1>2, <1>10 DEF Disturb
<1>11. CASE RequestStopSending \/ ForceShutdown
  BY <1>6, <1>7, <1>8, <1>11
<1> QED
  BY <1>3, <1>4, <1>5, <1>9, <1>10, <1>11 DEF MainStep

-----------------------------------------------------------------------------
(* How far Run, the pacer and the events of each connection are.           *)

\* A pump shuts down at most its own connection, which is alive.
LEMMA PumpQuic ==
  ASSUME Types, CallsPlaced, RunProgress, NEW t \in Threads, Pump(t),
         \A c \in Conns : EventsInOrder(c)
  PROVE  \A c \in Conns :
           \/ quic'[c] = quic[c]
           \/ /\ c = Target(t) /\ quic[c] \notin {"idle", "complete"}
              /\ quic'[c] = "shutdown" /\ t # Main
<1>1. CASE UNCHANGED quic
  BY <1>1
<1>2. CASE ~UNCHANGED quic
  <2>1. SendFails(t) /\ ShutDown(Target(t))
    BY <1>2 DEF Pump, SelectStream, SendFrame, SendFails, DecideShutdown, ShutdownStream, quicVars
  <2>2. t # Main
    BY <2>1 DEF SendFails, CallsPlaced
  <2>3. quic[Target(t)] # "idle"
    <3>1. CASE t = Pacer
      BY <2>1, <3>1, Domains DEF SendFails, CallsPlaced, RunProgress
    <3>2. CASE t \in Conns
      BY <2>1, <3>2, Domains DEF SendFails, CallsPlaced, EventsInOrder
    <3> QED
      BY <2>2, <3>1, <3>2, Domains
  <2>4. quic' = [quic EXCEPT ![Target(t)] = IF @ = "complete" THEN @ ELSE "shutdown"]
    BY <2>1 DEF ShutDown
  <2> QED
    BY <2>2, <2>3, <2>4, TargetIsConn DEF Types, QuicTypes
<1> QED
  BY <1>1, <1>2

LEMMA PumpKeepsProgress ==
  ASSUME Types, CallsPlaced, MutexHeld, RunProgress, NEW t \in Threads, Pump(t),
         \A c \in Conns : EventsInOrder(c)
  PROVE  RunProgress' /\ \A c \in Conns : EventsInOrder(c)'
<1>1. UNCHANGED <<config, stopSending, opened, connectionGone>> /\ pump[t] # "idle"
  BY PumpEffect DEF ctlVars
<1>2. \A c \in Conns :
        \/ quic'[c] = quic[c]
        \/ /\ c = Target(t) /\ quic[c] \notin {"idle", "complete"}
           /\ quic'[c] = "shutdown" /\ t # Main
  BY PumpQuic
<1>3. /\ mainPc' = mainPc \/ (mainPc = "stopping" /\ mainPc' \in {"wait", "stop"})
      /\ pacerPc' = pacerPc \/ (pacerPc = "pumping" /\ pacerPc' = "loop")
      /\ mainPc # "stopping" => mainConn' = mainConn
      /\ pacerPc' = "pumping" => pacerConn' = pacerConn
      /\ \A c \in Conns : worker'[c] = worker[c] \/ (worker[c] = "pumping" /\ worker'[c] = "idle")
  <2>1. CASE Return(t)
    <3>1. t \in Conns => worker[t] = "pumping"
      BY <1>1 DEF CallsPlaced
    <3> QED
      BY <1>1, <2>1, <3>1, OthersAtReturn DEF mainVars, pacerVars
  <2>2. CASE ~Return(t)
    BY <2>2, PumpEffect DEF mainVars, pacerVars
  <2> QED
    BY <2>1, <2>2
<1>4. \A c \in 0 .. config.clients - 1 : c \in Conns
  BY ConfigFacts DEF Types, ControlTypes, RunConns
<1>5. RunProgress'
  <2>1. mainPc' = "start" => /\ pacerPc' = "off"
                             /\ \A c \in mainConn' .. config'.clients - 1 : quic'[c] = "idle"
    <3> SUFFICES ASSUME mainPc' = "start"
                 PROVE  /\ pacerPc' = "off"
                        /\ \A c \in mainConn' .. config'.clients - 1 : quic'[c] = "idle"
      OBVIOUS
    <3>1. mainPc = "start" /\ mainConn' = mainConn /\ pacerPc' = "off" /\ mainConn \in Nat
      BY <1>3, Domains, TargetIsConn DEF RunProgress
    <3>2. \A c \in mainConn .. config.clients - 1 : c \in Conns /\ quic[c] = "idle"
      BY <1>4, <3>1, ConfigFacts DEF RunProgress, Types, ControlTypes
    <3> QED
      BY <1>1, <1>2, <3>1, <3>2
  <2>2. pacerPc' = "pumping" => quic'[pacerConn'] # "idle"
    <3>1. pacerConn \in Conns
      BY DEF Types, RunTypes
    <3> QED
      BY <1>2, <1>3, <3>1 DEF RunProgress
  <2> QED
    BY <1>1, <1>3, <2>1, <2>2 DEF RunProgress
<1>6. ASSUME NEW c \in Conns PROVE EventsInOrder(c)'
  <2>1. EventsInOrder(c) /\ RunConns' = RunConns
    BY <1>1 DEF RunConns
  <2> QED
    BY <1>1, <1>2, <1>3, <2>1 DEF EventsInOrder
<1> QED
  BY <1>5, <1>6

LEMMA WorkerKeepsProgress ==
  ASSUME Types, CallsPlaced, MutexHeld, RunProgress, NEW c \in Conns,
         Events(c) \/ (Handler(c) /\ ~Pump(c)), \A d \in Conns : EventsInOrder(d),
         StreamLives(c)
  PROVE  RunProgress' /\ \A d \in Conns : EventsInOrder(d)'
<1>1. UNCHANGED <<mainVars, pacerVars, config, stopSending>> /\ RunConns' = RunConns
  BY WorkerEffect DEF RunConns
<1>2. \A d \in Conns \ {c} : /\ quic'[d] = quic[d] /\ worker'[d] = worker[d]
                             /\ opened'[d] = opened[d] /\ connectionGone'[d] = connectionGone[d]
  <2>1. \A d \in Conns \ {c} : worker'[d] = worker[d]
    BY WorkerEffect DEF EnterPump, Types, WorkTypes
  <2>2. \/ UNCHANGED quic \/ ShutDown(c)
        \/ \E v : quic' = [quic EXCEPT ![c] = v]
    BY DEF Events, Handler, OnConnected, OnStartComplete, OnStartFailed, OnReceive, EnterPump,
         OnStreamShutdownComplete, StreamClose, CloseAfterLast, OnConnectionShutdownComplete,
         ConnectionClose, CountDown, NotifyAll, quicVars
  <2>3. \A d \in Conns \ {c} : quic'[d] = quic[d]
    BY <2>2 DEF ShutDown, Types, QuicTypes
  <2>4. \/ UNCHANGED opened
        \/ \E v : opened' = [opened EXCEPT ![c] = v]
    BY DEF Events, Handler, OnConnected, OnStartComplete, OnStartFailed, OnReceive, EnterPump,
         OnStreamShutdownComplete, StreamClose, CloseAfterLast, OnConnectionShutdownComplete,
         ConnectionClose, CountDown, NotifyAll, streamVars
  <2>5. \/ UNCHANGED connectionGone
        \/ connectionGone' = [connectionGone EXCEPT ![c] = TRUE]
    BY DEF Events, Handler, OnConnected, OnStartComplete, OnStartFailed, OnReceive, EnterPump,
         OnStreamShutdownComplete, StreamClose, CloseAfterLast, OnConnectionShutdownComplete,
         ConnectionClose, CountDown, NotifyAll, quicVars
  <2> QED
    BY <2>1, <2>3, <2>4, <2>5 DEF Types, StreamTypes, QuicTypes
<1>3. EventsInOrder(c)' /\ (quic'[c] = "idle" <=> quic[c] = "idle")
  <2>1. /\ EventsInOrder(c)
        /\ worker \in [Conns -> {"idle", "pump", "pumping", "streamClose", "lastStream",
                                 "connectionClose", "countDown", "notify"}]
        /\ quic \in [Conns -> {"idle", "connecting", "connected", "shutdown", "complete"}]
    BY DEF Types, WorkTypes, QuicTypes
  <2>2. CASE OnConnected(c)
    <3>1. quic[c] = "connecting" /\ quic'[c] \in {"shutdown", "connected"} /\ UNCHANGED worker
      BY <2>1, <2>2 DEF OnConnected, workVars
    <3>2. worker[c] = "idle" /\ UNCHANGED connectionGone
      BY <2>2 DEF OnConnected, Ready
    <3> QED
      BY <1>1, <2>1, <3>1, <3>2 DEF EventsInOrder
  <2>3. CASE \E o \in Ordinals : OnStartComplete(c, o) \/ OnReceive(c, o)
                                   \/ OnStreamShutdownComplete(c, o)
    <3>1. /\ Ready(c) /\ UNCHANGED quicVars /\ UNCHANGED opened
          /\ worker'[c] \in {"idle", "pump", "streamClose"}
      BY <2>1, <2>3 DEF OnStartComplete, OnReceive, OnStreamShutdownComplete
    <3>2. opened[c] # {}
      BY <2>3 DEF OnStartComplete, OnReceive, OnStreamShutdownComplete, StreamLives
    <3> QED
      BY <1>1, <2>1, <3>1, <3>2 DEF EventsInOrder, Ready, quicVars
  <2>4. CASE \E o \in Ordinals : OnStartFailed(c, o)
    <3>1. /\ worker'[c] = worker[c] /\ UNCHANGED <<opened, connectionGone>>
          /\ quic[c] = "connected" /\ quic'[c] = "shutdown"
      BY <2>1, <2>4 DEF OnStartFailed, ShutDown, streamVars, workVars
    <3> QED
      BY <1>1, <2>1, <3>1 DEF EventsInOrder
  <2>5. CASE OnConnectionShutdownComplete(c)
    <3>1. /\ quic[c] = "shutdown" /\ quic'[c] = "complete"
          /\ worker[c] = "idle" /\ worker'[c] = "connectionClose"
          /\ UNCHANGED connectionGone
      BY <2>1, <2>5 DEF OnConnectionShutdownComplete, Ready
    <3> QED
      BY <1>1, <2>1, <3>1 DEF EventsInOrder
  <2>6. CASE EnterPump(c) \/ StreamClose(c) \/ CountDown(c) \/ NotifyAll(c)
    <3>1. /\ UNCHANGED <<opened, quic, connectionGone>>
          /\ \/ worker[c] = "pump" /\ worker'[c] = "pumping"
             \/ worker[c] = "streamClose" /\ worker'[c] = "lastStream"
             \/ worker[c] = "countDown" /\ worker'[c] = "notify"
             \/ worker[c] = "notify" /\ worker'[c] = "idle"
      BY <2>1, <2>6 DEF EnterPump, StreamClose, CountDown, NotifyAll, streamVars, quicVars
    <3> QED
      BY <1>1, <2>1, <3>1 DEF EventsInOrder
  <2>7. CASE CloseAfterLast(c)
    <3>1. /\ UNCHANGED <<opened, connectionGone>>
          /\ worker[c] = "lastStream" /\ worker'[c] = "idle"
          /\ quic'[c] = quic[c] \/ (quic[c] # "complete" /\ quic'[c] = "shutdown")
      BY <2>1, <2>7 DEF CloseAfterLast, ShutDown, streamVars
    <3> QED
      BY <1>1, <2>1, <3>1 DEF EventsInOrder
  <2>8. CASE ConnectionClose(c)
    <3>1. /\ UNCHANGED <<opened, quic>> /\ connectionGone'[c] = TRUE
          /\ worker[c] = "connectionClose" /\ worker'[c] = "countDown"
      BY <2>1, <2>8 DEF ConnectionClose, streamVars, Types, QuicTypes
    <3> QED
      BY <1>1, <2>1, <3>1 DEF EventsInOrder
  <2> QED
    BY <2>2, <2>3, <2>4, <2>5, <2>6, <2>7, <2>8 DEF Events, Handler
<1>4. \A d \in Conns \ {c} : EventsInOrder(d)'
  BY <1>1, <1>2 DEF EventsInOrder
<1>5. \A d \in Conns : quic'[d] = "idle" <=> quic[d] = "idle"
  BY <1>2, <1>3
<1>6. \A d \in 0 .. config.clients - 1 : d \in Conns
  BY ConfigFacts DEF Types, ControlTypes, RunConns
<1>7. RunProgress'
  <2>1. mainConn \in Nat /\ pacerConn \in Conns /\ config.clients \in Nat
    BY Domains, TargetIsConn, ConfigFacts DEF Types, RunTypes, ControlTypes
  <2>2. \A d \in mainConn .. config.clients - 1 : d \in Conns
    BY <1>6, <2>1
  <2> QED
    BY <1>1, <1>5, <2>1, <2>2 DEF RunProgress, mainVars, pacerVars
<1> QED
  BY <1>3, <1>4, <1>7

LEMMA RunKeepsProgress ==
  ASSUME Types, CallsPlaced, MutexHeld, RunProgress,
         PacerVisit \/ PacerEnds \/ (MainStep /\ ~Pump(Main)) \/ Disturb,
         \A c \in Conns : EventsInOrder(c) /\ StreamLives(c)
  PROVE  RunProgress' /\ \A c \in Conns : EventsInOrder(c)'
<1>1. /\ mainConn \in RunConns /\ NextConn(mainConn) \in RunConns /\ pacerConn \in Conns
      /\ RunConns \subseteq Conns /\ config.clients \in Nat /\ config.paced \in BOOLEAN
      /\ \A c \in Conns : worker[c] \in {"idle", "pump", "pumping", "streamClose", "lastStream",
                                          "connectionClose", "countDown", "notify"}
      /\ quic \in [Conns -> {"idle", "connecting", "connected", "shutdown", "complete"}]
  BY ConfigFacts DEF Types, RunTypes, ControlTypes, WorkTypes, QuicTypes
<1>2. UNCHANGED <<config, opened, worker, connectionGone>> /\ RunConns' = RunConns
  BY DEF PacerVisit, PacerEnds, MainStep, Disturb, StartConnection, StartThrows, Deadline,
         RequestStopSending, LeaveWait, ForceShutdown, ForceCall, WaitForConnectionsToClose,
         JoinPacer, ctlVars, streamVars, workVars, quicVars, RunConns
<1>3. \A c \in Conns :
        /\ c \notin RunConns => quic'[c] = "idle"
        /\ quic'[c] # quic[c] => \/ quic[c] # "complete" /\ quic'[c] = "shutdown"
                                 \/ quic[c] = "idle" /\ quic'[c] = "connecting"
  <2>0. \A c \in Conns : c \notin RunConns => quic[c] = "idle"
    BY DEF EventsInOrder
  <2>1. CASE StartConnection
    <3>1. quic[mainConn] = "idle"
      BY <1>1, <2>1 DEF StartConnection, RunProgress, RunConns
    <3> QED
      BY <1>1, <2>1, <3>1 DEF StartConnection, EventsInOrder
  <2>2. \A d \in RunConns : ShutDown(d) =>
          \A c \in Conns : /\ c \notin RunConns => quic'[c] = quic[c]
                          /\ \/ quic'[c] = quic[c]
                             \/ quic[c] # "complete" /\ quic'[c] = "shutdown"
    BY <1>1 DEF ShutDown
  <2>3. CASE Disturb /\ ~UNCHANGED quic
    <3>1. PICK d \in Conns : quic[d] \in {"connecting", "connected"} /\ ShutDown(d)
      BY <2>3 DEF Disturb
    <3>2. d \in RunConns
      BY <3>1 DEF EventsInOrder
    <3> QED
      BY <2>0, <2>2, <3>1, <3>2
  <2>4. CASE UNCHANGED quic
    BY <2>4 DEF EventsInOrder
  <2>5. CASE ShutDown(mainConn)
    BY <1>1, <2>0, <2>2, <2>5
  <2> QED
    BY <2>1, <2>3, <2>4, <2>5 DEF PacerVisit, PacerEnds, MainStep, StartThrows, Deadline,
       RequestStopSending, LeaveWait, ForceShutdown, ForceCall, WaitForConnectionsToClose,
       JoinPacer, quicVars
<1>4. ASSUME NEW c \in Conns PROVE EventsInOrder(c)'
  <2>1. CASE quic'[c] = quic[c]
    BY <1>2, <2>1 DEF EventsInOrder
  <2>2. CASE quic'[c] = "shutdown" /\ quic[c] # "complete"
    BY <1>1, <1>2, <1>3, <2>2 DEF EventsInOrder
  <2>3. CASE quic'[c] = "connecting" /\ quic[c] = "idle"
    BY <1>1, <1>2, <1>3, <2>3 DEF EventsInOrder
  <2> QED
    BY <1>3, <2>1, <2>2, <2>3
<1>5. \A c \in Conns : quic[c] # "idle" => quic'[c] # "idle"
  BY <1>3
<1>6. \A c \in 0 .. config.clients - 1 : c \in Conns
  BY <1>1 DEF RunConns
<1>7. CASE PacerVisit
  <2>1. UNCHANGED <<mainVars, quicVars, config, stopSending>>
    BY <1>7 DEF PacerVisit, ctlVars
  <2>2. pacerPc = "loop" /\ pacerPc' = "pumping" /\ pacerConn' \in Conns
    BY <1>7 DEF PacerVisit
  <2>3. quic[pacerConn'] # "idle"
    <3>1. PacerHasWork(pacerConn')
      BY <1>7 DEF PacerVisit
    <3>2. \E o \in Ordinals : o \in streamStarted[pacerConn']
      BY <3>1 DEF PacerHasWork, NeedsShutdown, Eligible
    <3> QED
      BY <2>2, <3>2 DEF StreamLives, EventsInOrder
  <2>4. mainPc \notin {"start", "done"} /\ config.paced
    BY <1>1, <2>2 DEF RunProgress
  <2> QED
    BY <1>4, <2>1, <2>2, <2>3, <2>4 DEF RunProgress, mainVars, quicVars
<1>8. CASE PacerEnds
  BY <1>4, <1>8 DEF PacerEnds, RunProgress, mainVars, quicVars, ctlVars
<1>9. CASE StartConnection
  <2>1. /\ pacerPc' \in {"off", "loop"} /\ UNCHANGED <<config, stopSending>>
        /\ mainPc' \in {"start", "wait"}
        /\ mainPc' = "start" => pacerPc' = "off"
        /\ ~config.paced => pacerPc' = "off"
    BY <1>9 DEF StartConnection, ctlVars
  <2>2. mainPc' = "start" => mainConn' = mainConn + 1
    BY <1>1, <1>9 DEF StartConnection, NextConn, RunConns
  <2>3. ASSUME NEW c \in mainConn + 1 .. config.clients - 1 PROVE quic'[c] = "idle"
    <3>1. c \in mainConn .. config.clients - 1 /\ c # mainConn /\ c \in Conns
      BY <1>1, <1>6 DEF RunConns
    <3> QED
      BY <1>1, <1>9, <3>1 DEF StartConnection, RunProgress
  <2> QED
    BY <1>4, <2>1, <2>2, <2>3 DEF RunProgress
<1>10. CASE MainStep /\ ~Pump(Main) /\ ~StartConnection
  <2>1. UNCHANGED pacerVars /\ mainPc' # "start"
    BY <1>10 DEF MainStep, StartThrows, Deadline, RequestStopSending, LeaveWait, ForceShutdown,
       ForceCall, WaitForConnectionsToClose, JoinPacer
  <2>2. mainPc' \in {"stop", "stopping"} => stopSending'
    BY <1>10 DEF MainStep, StartThrows, Deadline, RequestStopSending, LeaveWait, ForceShutdown,
       ForceCall, WaitForConnectionsToClose, JoinPacer, RunProgress, ctlVars
  <2>3. mainPc' = "done" => pacerPc \in {"off", "done"}
    BY <1>10 DEF MainStep, StartThrows, Deadline, RequestStopSending, LeaveWait, ForceShutdown,
       ForceCall, WaitForConnectionsToClose, JoinPacer, RunProgress
  <2> QED
    BY <1>1, <1>2, <1>4, <1>5, <2>1, <2>2, <2>3 DEF RunProgress, pacerVars
<1>11. CASE Disturb
  <2>1. UNCHANGED <<mainVars, pacerVars, config, stopSending>>
    BY <1>11 DEF Disturb
  <2>2. \A c \in Conns : quic[c] = "idle" => quic'[c] = "idle"
    BY <1>1, <1>11 DEF Disturb, ShutDown
  <2>3. \A c \in mainConn .. config.clients - 1 : c \in Conns
    BY <1>1, <1>6 DEF RunConns
  <2> QED
    BY <1>1, <1>4, <1>5, <2>1, <2>2, <2>3 DEF RunProgress, mainVars, pacerVars
<1> QED
  BY <1>7, <1>8, <1>9, <1>10, <1>11

-----------------------------------------------------------------------------
(* The streams and their frames.                                           *)

Streams(c) == /\ StreamLives(c) /\ Drained(c)
              /\ \A o \in Ordinals : FramesOf(c, o)

\* A connection whose streams and frames a step leaves alone.
LEMMA StreamsUnchanged ==
  ASSUME Types, NEW c \in Conns, Streams(c), stopSending => stopSending',
         opened'[c] = opened[c], streamStarted'[c] = streamStarted[c],
         shutdownStarted'[c] = shutdownStarted[c], streamClosed'[c] = streamClosed[c],
         nextSequence'[c] = nextSequence[c], echoedMessages'[c] = echoedMessages[c],
         accepted'[c] = accepted[c], streamGone'[c] = streamGone[c], stream'[c] = stream[c],
         worker'[c] = worker[c] \/ "streamClose" \notin {worker[c], worker'[c]},
         quic'[c] = quic[c] \/ quic'[c] # "complete"
  PROVE  Streams(c)'
<1>1. StreamLives(c)'
  BY DEF Streams, StreamLives
<1>2. Drained(c)'
  BY DEF Streams, Drained, AllStreamsDrained
<1>3. \A o \in Ordinals : FramesOf(c, o)'
  BY DEF Streams, FramesOf
<1> QED
  BY <1>1, <1>2, <1>3 DEF Streams

\* A pump that such a step does not touch.
LEMMA FoundUnchanged ==
  ASSUME NEW t \in Threads, NEW c \in Conns, Found(t, c), stopSending => stopSending',
         pump'[t] = pump[t] \/ pump'[t] = "idle", picked'[t] = picked[t],
         opened'[c] = opened[c], streamStarted'[c] = streamStarted[c],
         shutdownStarted'[c] = shutdownStarted[c], streamClosed'[c] = streamClosed[c],
         nextSequence'[c] = nextSequence[c], echoedMessages'[c] = echoedMessages[c]
  PROVE  Found(t, c)'
BY DEF Found, AllStreamsDrained

LEMMA PumpKeepsStreams ==
  ASSUME Types, CallsPlaced, MutexHeld, RunProgress, NEW t \in Threads, Pump(t),
         \A c \in Conns : EventsInOrder(c) /\ Streams(c),
         \A u \in Threads : Found(u, Target(u))
  PROVE  /\ \A c \in Conns : Streams(c)'
         /\ \A u \in Threads : Found(u, Target(u))'
<1>0. PICK c \in Conns, o \in Ordinals : c = Target(t) /\ o = picked[t]
  BY TargetIsConn DEF Types, PumpTypes
<1>1. /\ c = Target(t) /\ o = picked[t] /\ pump[t] # "idle"
      /\ UNCHANGED <<config, stopSending, opened, streamStarted, streamClosed, echoedMessages,
                     stream, streamGone>>
  BY <1>0, PumpEffect DEF ctlVars
<1>2. \A d \in Conns : /\ worker'[d] = worker[d] \/ "streamClose" \notin {worker[d], worker'[d]}
                       /\ quic'[d] = quic[d] \/ quic'[d] # "complete"
  <2>1. \A d \in Conns : worker'[d] = worker[d] \/ (worker[d] = "pumping" /\ worker'[d] = "idle")
    <3>1. t \in Conns => worker[t] = "pumping"
      BY <1>1 DEF CallsPlaced
    <3> QED
      BY <1>1, <3>1, PumpEffect, OthersAtReturn
  <2> QED
    BY <2>1, PumpQuic
<1>3. \A d \in Conns \ {c} : /\ shutdownStarted'[d] = shutdownStarted[d]
                             /\ nextSequence'[d] = nextSequence[d] /\ accepted'[d] = accepted[d]
  <2>1. /\ \/ UNCHANGED shutdownStarted
           \/ \E v : shutdownStarted' = [shutdownStarted EXCEPT ![c] = v]
        /\ \/ UNCHANGED nextSequence
           \/ \E v : nextSequence' = [nextSequence EXCEPT ![c] = v]
        /\ \/ UNCHANGED accepted
           \/ \E v : accepted' = [accepted EXCEPT ![c] = v]
    BY <1>0 DEF Pump, SelectStream, SendFrame, SendFails, DecideShutdown, ShutdownStream,
           streamVars,
           quicVars
  <2> QED
    BY <1>1, <2>1 DEF Types, StreamTypes, QuicTypes
<1>4. \A d \in Conns \ {c} : Streams(d)'
  BY <1>1, <1>2, <1>3, StreamsUnchanged
<1>5. \A u \in Threads \ {t} :
        /\ pump'[u] = pump[u] /\ picked'[u] = picked[u] /\ Target(u)' = Target(u)
        /\ pump[u] # "idle" => Target(u) \in Conns \ {c}
  <2>1. \A u \in Threads \ {t} : picked'[u] = picked[u]
    BY DEF Pump, SelectStream, SendFrame, SendFails, DecideShutdown, ShutdownStream, Types,
           PumpTypes
  <2>2. \A u \in Threads \ {t} : pump'[u] = pump[u] /\ Target(u)' = Target(u)
    <3>1. CASE Return(t)
      BY <1>1, <3>1, OthersAtReturn
    <3>2. CASE ~Return(t)
      BY <3>2, PumpEffect DEF Types, PumpTypes, Target, mainVars, pacerVars
    <3> QED
      BY <3>1, <3>2
  <2>3. \A u \in Threads \ {t} : pump[u] # "idle" => Target(u) \in Conns \ {c}
    BY <1>1, OnePump, TargetIsConn
  <2> QED
    BY <2>1, <2>2, <2>3
<1>6. ASSUME NEW u \in Threads \ {t} PROVE Found(u, Target(u))'
  <2>1. CASE pump[u] = "idle"
    BY <1>5, <2>1 DEF Found
  <2>2. CASE pump[u] # "idle"
    <3>1. Target(u) \in Conns \ {c} /\ Found(u, Target(u))
      BY <1>5, <2>2
    <3>2. PICK d \in Conns \ {c} : d = Target(u)
      BY <3>1
    <3>3. Found(u, d)'
      BY <1>1, <1>3, <1>5, <3>1, <3>2, FoundUnchanged
    <3>4. Target(u)' = d
      BY <1>5, <3>2
    <3> QED
      BY <3>3, <3>4 DEF Found, AllStreamsDrained
  <2> QED
    BY <2>1, <2>2
<1>7. ASSUME UNCHANGED <<shutdownStarted, nextSequence, accepted>>
      PROVE  Streams(c)'
  BY <1>1, <1>2, <1>7, StreamsUnchanged
<1>8. pump'[t] = "idle" => Found(t, Target(t))'
  BY DEF Found
<1>9. ~Return(t) => Target(t)' = c
  BY <1>0, PumpEffect DEF Target, mainVars, pacerVars
<1>10. Return(t) => Found(t, Target(t))'
  BY <1>1, <1>8, OthersAtReturn
<1>12. ASSUME nextSequence' = [nextSequence EXCEPT ![c][o] = @ + 1],
              accepted' = accepted \/ accepted' = [accepted EXCEPT ![c][o] = @ + 1],
              UNCHANGED shutdownStarted, pump[t] = "send"
       PROVE  Streams(c)'
  <2>1. /\ o \in streamStarted[c] /\ shutdownStarted[c] = {}
        /\ nextSequence[c][o] - echoedMessages[c][o] < MaxInflight
        /\ nextSequence[c][o] < MaxMessages
    BY <1>0, <1>12 DEF Found
  <2>2. StreamLives(c)' /\ Drained(c)'
    BY <1>1, <1>2, <1>12, <2>1 DEF Streams, StreamLives, Drained
  <2>3. ASSUME NEW p \in Ordinals PROVE FramesOf(c, p)'
    <3>1. /\ FramesOf(c, p) /\ accepted[c][p] \in Nat /\ nextSequence[c][p] \in Nat
          /\ echoedMessages[c][p] \in Nat
      BY <1>1 DEF Streams, Types, StreamTypes, QuicTypes
    <3>2. /\ nextSequence'[c][p] = IF p = o THEN nextSequence[c][p] + 1 ELSE nextSequence[c][p]
          /\ \/ accepted'[c][p] = accepted[c][p]
             \/ p = o /\ accepted'[c][p] = accepted[c][p] + 1
      BY <1>1, <1>12 DEF Types, StreamTypes, QuicTypes
    <3> QED
      BY <1>1, <2>1, <3>1, <3>2, ConfigsAssumption DEF FramesOf
  <2> QED
    BY <2>2, <2>3 DEF Streams
<1>17. Streams(c)' /\ Found(t, Target(t))'
  <2>11. CASE SelectStream(t)
    <3>1. Streams(c)'
      BY <1>7, <2>11 DEF SelectStream, streamVars, quicVars
    <3>2. CASE pump' = [pump EXCEPT ![t] = "decide"]
      BY <3>1, <3>2 DEF Found, Types, PumpTypes
    <3>3. CASE pump' # [pump EXCEPT ![t] = "decide"]
      <4>1. PICK p \in Ordinals : Eligible(c, p) /\ picked' = [picked EXCEPT ![t] = p]
        BY <1>0, <2>11, <3>3 DEF SelectStream
      <4>2. ~stopSending /\ pump' = [pump EXCEPT ![t] = "send"] /\ Target(t)' = c
        BY <1>0, <1>9, <2>11, <3>3 DEF SelectStream, Target, mainVars, pacerVars
      <4>3. shutdownStarted[c] = {}
        BY <1>1, <4>2 DEF Streams, Drained
      <4>4. pump'[t] = "send" /\ picked'[t] = p
        BY <4>1, <4>2 DEF Types, PumpTypes
      <4> QED
        BY <1>0, <1>1, <2>11, <3>1, <4>1, <4>2, <4>3, <4>4 DEF Found, Eligible, SelectStream,
               streamVars
    <3> QED
      BY <3>1, <3>2, <3>3
  <2>13. CASE SendFrame(t)
    <3>1. accepted' = accepted \/ accepted' = [accepted EXCEPT ![c][o] = @ + 1]
      BY <1>0, <2>13 DEF SendFrame, Types, QuicTypes
    <3>2. Streams(c)'
      BY <1>0, <1>12, <2>13, <3>1 DEF SendFrame
    <3>3. pump'[t] \in {"decide", "select"}
      BY <2>13 DEF SendFrame, Types, PumpTypes
    <3> QED
      BY <3>2, <3>3 DEF Found
  <2>14. CASE SendFails(t)
    <3>1. Streams(c)'
      BY <1>0, <1>12, <2>14 DEF SendFails
    <3> QED
      BY <1>10, <2>14, <3>1 DEF SendFails
  <2>15. CASE DecideShutdown(t)
    <3>1. Streams(c)'
      BY <1>7, <2>15 DEF DecideShutdown, streamVars, quicVars
    <3>2. CASE stopSending /\ AllStreamsDrained(c)
      <4>1. pump'[t] = "shut" /\ Target(t)' = c
        BY <1>0, <2>15, <3>2 DEF DecideShutdown, Types, PumpTypes, Target, mainVars, pacerVars
      <4> QED
        BY <1>1, <2>15, <3>1, <3>2, <4>1 DEF Found, AllStreamsDrained, DecideShutdown, streamVars
    <3>3. CASE ~(stopSending /\ AllStreamsDrained(c))
      BY <1>0, <1>10, <2>15, <3>1, <3>3 DEF DecideShutdown
    <3> QED
      BY <3>2, <3>3
  <2>16. CASE ShutdownStream(t)
    <3>1. stopSending /\ AllStreamsDrained(c)
      BY <1>0, <2>16 DEF ShutdownStream, Found
    <3>2. /\ \/ shutdownStarted'[c] = shutdownStarted[c]
             \/ shutdownStarted'[c] = shutdownStarted[c] \cup {o} /\ o \in streamStarted[c]
          /\ UNCHANGED <<nextSequence, accepted>>
      BY <1>1, <2>16 DEF ShutdownStream, NeedsShutdown, Types, StreamTypes
    <3>3. StreamLives(c)'
      BY <1>1, <1>2, <3>2 DEF Streams, StreamLives
    <3>4. Drained(c)' /\ \A p \in Ordinals : FramesOf(c, p)'
      BY <1>1, <3>1, <3>2 DEF Streams, Drained, AllStreamsDrained, FramesOf
    <3>5. Found(t, Target(t))'
      <4>1. CASE Return(t)
        BY <1>10, <4>1
      <4>2. CASE ~Return(t)
        <5>1. pump'[t] = "shut"
          BY <2>16, <4>2 DEF ShutdownStream
        <5> QED
          BY <1>1, <1>9, <3>1, <3>2, <4>2, <5>1 DEF Found, AllStreamsDrained
      <4> QED
        BY <4>1, <4>2
    <3> QED
      BY <3>3, <3>4, <3>5 DEF Streams
  <2> QED
    BY <2>11, <2>13, <2>14, <2>15, <2>16 DEF Pump
<1> QED
  BY <1>4, <1>6, <1>17

\* A handler changes nothing of another connection.
LEMMA WorkerLocal ==
  ASSUME Types, NEW c \in Conns, Events(c) \/ (Handler(c) /\ ~Pump(c))
  PROVE  \A d \in Conns \ {c} :
           /\ opened'[d] = opened[d] /\ streamStarted'[d] = streamStarted[d]
           /\ shutdownStarted'[d] = shutdownStarted[d] /\ streamClosed'[d] = streamClosed[d]
           /\ nextSequence'[d] = nextSequence[d] /\ echoedMessages'[d] = echoedMessages[d]
           /\ accepted'[d] = accepted[d] /\ streamGone'[d] = streamGone[d]
           /\ stream'[d] = stream[d] /\ worker'[d] = worker[d] /\ quic'[d] = quic[d]
           /\ pump'[d] = pump[d] /\ connectionGone'[d] = connectionGone[d]
<1>1. /\ UNCHANGED <<shutdownStarted, nextSequence, accepted>>
      /\ UNCHANGED opened \/ \E v : opened' = [opened EXCEPT ![c] = v]
      /\ UNCHANGED streamStarted \/ \E v : streamStarted' = [streamStarted EXCEPT ![c] = v]
      /\ UNCHANGED streamClosed \/ \E v : streamClosed' = [streamClosed EXCEPT ![c] = v]
      /\ UNCHANGED echoedMessages \/ \E v : echoedMessages' = [echoedMessages EXCEPT ![c] = v]
      /\ UNCHANGED streamGone \/ \E v : streamGone' = [streamGone EXCEPT ![c] = v]
      /\ UNCHANGED stream \/ \E v : stream' = [stream EXCEPT ![c] = v]
      /\ UNCHANGED connectionGone \/ \E v : connectionGone' = [connectionGone EXCEPT ![c] = v]
  <2>1. CASE Events(c)
    BY <2>1 DEF Events, OnConnected, OnStartComplete, OnStartFailed, OnReceive,
           OnStreamShutdownComplete, OnConnectionShutdownComplete, streamVars, workVars, quicVars
  <2>2. CASE Handler(c) /\ ~Pump(c)
    BY <2>2 DEF Handler, EnterPump, StreamClose, CloseAfterLast, ConnectionClose, CountDown,
           NotifyAll, streamVars, quicVars
  <2> QED
    BY <2>1, <2>2
<1>2. UNCHANGED quic \/ ShutDown(c) \/ \E v : quic' = [quic EXCEPT ![c] = v]
  BY DEF Events, Handler, OnConnected, OnStartComplete, OnStartFailed, OnReceive, EnterPump,
         OnStreamShutdownComplete, StreamClose, CloseAfterLast, OnConnectionShutdownComplete,
         ConnectionClose, CountDown, NotifyAll, quicVars
<1>3. \A d \in Conns \ {c} : worker'[d] = worker[d] /\ pump'[d] = pump[d]
  BY WorkerEffect, Domains DEF EnterPump, Types, WorkTypes, PumpTypes
<1>4. \A d \in Conns \ {c} : quic'[d] = quic[d]
  BY <1>2 DEF ShutDown, Types, QuicTypes
<1>5. \A d \in Conns \ {c} :
           /\ opened'[d] = opened[d] /\ streamStarted'[d] = streamStarted[d]
           /\ shutdownStarted'[d] = shutdownStarted[d] /\ streamClosed'[d] = streamClosed[d]
           /\ nextSequence'[d] = nextSequence[d] /\ echoedMessages'[d] = echoedMessages[d]
  BY <1>1 DEF Types, StreamTypes
<1>6. \A d \in Conns \ {c} :
           /\ accepted'[d] = accepted[d] /\ streamGone'[d] = streamGone[d]
           /\ connectionGone'[d] = connectionGone[d] /\ stream'[d] = stream[d]
  BY <1>1 DEF Types, QuicTypes, WorkTypes
<1> QED
  BY <1>3, <1>4, <1>5, <1>6

LEMMA WorkerKeepsStreams ==
  ASSUME Types, CallsPlaced, MutexHeld, NEW c \in Conns,
         Events(c) \/ (Handler(c) /\ ~Pump(c)),
         \A d \in Conns : EventsInOrder(d) /\ Streams(d),
         \A u \in Threads : Found(u, Target(u))
  PROVE  /\ \A d \in Conns : Streams(d)'
         /\ \A u \in Threads : Found(u, Target(u))'
<1>1. /\ UNCHANGED <<config, stopSending, picked>> /\ worker[c] # "pumping"
      /\ \A u \in Threads : Target(u)' = Target(u)
  BY WorkerEffect DEF Target, mainVars, pacerVars
<1>2. \A d \in Conns \ {c} : Streams(d)'
  BY <1>1, WorkerLocal, StreamsUnchanged
<1>3. /\ EventsInOrder(c) /\ Streams(c) /\ StreamLives(c) /\ Drained(c)
      /\ \A o \in Ordinals : FramesOf(c, o)
      /\ worker[c] \in {"idle", "pump", "pumping", "streamClose", "lastStream",
                        "connectionClose", "countDown", "notify"}
      /\ quic[c] \in {"idle", "connecting", "connected", "shutdown", "complete"}
      /\ MaxInflight \in Nat \ {0} /\ MaxMessages \in Nat
  BY ConfigsAssumption DEF Streams, Types, WorkTypes, QuicTypes
<1>4. ASSUME ~OnConnected(c)
      PROVE  /\ opened'[c] = opened[c] /\ streamStarted[c] \subseteq streamStarted'[c]
             /\ shutdownStarted'[c] = shutdownStarted[c]
             /\ streamClosed[c] \subseteq streamClosed'[c]
             /\ nextSequence'[c] = nextSequence[c] /\ accepted'[c] = accepted[c]
             /\ \A p \in Ordinals :
                  \/ echoedMessages'[c][p] = echoedMessages[c][p]
                  \/ /\ echoedMessages'[c][p] \in echoedMessages[c][p] + 1 .. accepted[c][p]
                     /\ p \in streamStarted[c] \ streamClosed[c]
  <2>1. UNCHANGED <<opened, shutdownStarted, nextSequence, accepted>>
    BY <1>4 DEF Events, Handler, OnStartComplete, OnStartFailed, OnReceive, EnterPump,
           OnStreamShutdownComplete, StreamClose, CloseAfterLast, OnConnectionShutdownComplete,
           ConnectionClose, CountDown, NotifyAll, streamVars, quicVars
  <2>2. \/ UNCHANGED streamStarted
        \/ \E p \in Ordinals :
             streamStarted' = [streamStarted EXCEPT ![c] = streamStarted[c] \cup {p}]
    BY <1>4 DEF Events, Handler, OnStartComplete, OnStartFailed, OnReceive, EnterPump,
           OnStreamShutdownComplete, StreamClose, CloseAfterLast, OnConnectionShutdownComplete,
           ConnectionClose, CountDown, NotifyAll, streamVars
  <2>3. \/ UNCHANGED streamClosed
        \/ \E p \in Ordinals :
             streamClosed' = [streamClosed EXCEPT ![c] = streamClosed[c] \cup {p}]
    BY <1>4 DEF Events, Handler, OnStartComplete, OnStartFailed, OnReceive, EnterPump,
           OnStreamShutdownComplete, StreamClose, CloseAfterLast, OnConnectionShutdownComplete,
           ConnectionClose, CountDown, NotifyAll, streamVars
  <2>4. /\ streamStarted[c] \subseteq streamStarted'[c]
        /\ streamClosed[c] \subseteq streamClosed'[c]
    BY <2>2, <2>3 DEF Types, StreamTypes
  <2>5. CASE UNCHANGED echoedMessages
    BY <2>1, <2>4, <2>5
  <2>6. CASE \E o \in Ordinals : OnReceive(c, o)
    <3>0. PICK o \in Ordinals : OnReceive(c, o)
      BY <2>6
    <3>1. PICK k \in 1 .. accepted[c][o] - echoedMessages[c][o] :
            /\ o \in streamStarted[c] \ streamClosed[c]
            /\ echoedMessages' = [echoedMessages EXCEPT ![c][o] = @ + k]
      BY <3>0 DEF OnReceive
    <3>2. echoedMessages[c] \in [Ordinals -> Nat] /\ accepted[c] \in [Ordinals -> Nat]
      BY DEF Types, StreamTypes, QuicTypes
    <3>3. \A p \in Ordinals : echoedMessages'[c][p] = IF p = o THEN echoedMessages[c][p] + k
                                                      ELSE echoedMessages[c][p]
      BY <3>1 DEF Types, StreamTypes
    <3>4. echoedMessages[c][o] + k \in echoedMessages[c][o] + 1 .. accepted[c][o]
      BY <3>2
    <3> QED
      BY <2>1, <2>4, <3>1, <3>3, <3>4
  <2> QED
    BY <1>4, <2>5, <2>6 DEF Events, Handler, OnStartComplete, OnStartFailed, EnterPump,
           OnStreamShutdownComplete, StreamClose, CloseAfterLast, OnConnectionShutdownComplete,
           ConnectionClose, CountDown, NotifyAll, streamVars
<1>5. ASSUME NEW u \in Threads PROVE Found(u, Target(u))'
  <2>1. PICK d \in Conns : d = Target(u) /\ d = Target(u)'
    BY <1>1, TargetIsConn
  <2>2. Found(u, d) /\ picked'[u] = picked[u]
    BY <1>1, <2>1
  <2>3. CASE pump'[u] \in {"idle", "select"}
    BY <2>3 DEF Found
  <2>4. CASE pump[u] # "idle" /\ d # c
    <3>1. pump'[u] = pump[u]
      BY <2>1, <2>4, WorkerEffect, Domains DEF EnterPump, Types, PumpTypes
    <3>2. Found(u, d)'
      BY <1>1, <2>2, <2>4, <3>1, WorkerLocal, FoundUnchanged
    <3> QED
      BY <2>1, <3>2 DEF Found, AllStreamsDrained
  <2>5. CASE pump[u] # "idle" /\ d = c
    <3>1. u \in {Main, Pacer} /\ mutex[c] = u
      BY <1>1, <2>1, <2>5, Domains DEF CallsPlaced, MutexHeld
    <3>2. ~OnConnected(c) /\ ~EnterPump(c)
      BY <3>1, Domains DEF OnConnected, EnterPump, Lock, CanLock
    <3>3. pump'[u] = pump[u] /\ (u = Main => pump[u] # "send")
      BY <3>2, WorkerEffect DEF CallsPlaced
    <3>4. CASE pump[u] = "send"
      <4>1. /\ picked[u] \in Ordinals /\ nextSequence[c][picked[u]] \in Nat
            /\ echoedMessages[c][picked[u]] \in Nat /\ accepted[c][picked[u]] \in Nat
        BY DEF Types, PumpTypes, StreamTypes, QuicTypes
      <4>2. nextSequence[c][picked[u]] - echoedMessages'[c][picked[u]] < MaxInflight
        BY <1>3, <1>4, <2>2, <2>5, <3>2, <3>4, <4>1 DEF Found
      <4> QED
        BY <1>4, <2>1, <2>2, <2>5, <3>1, <3>2, <3>3, <3>4, <4>2 DEF Found
    <3>5. CASE pump[u] = "shut"
      <4>1. AllStreamsDrained(c) /\ stopSending
        BY <2>2, <2>5, <3>5 DEF Found
      <4>2. AllStreamsDrained(c)'
        <5> SUFFICES ASSUME NEW p \in opened[c] \ streamClosed[c]
                     PROVE  nextSequence[c][p] = echoedMessages'[c][p]
          BY <1>4, <3>2 DEF AllStreamsDrained
        <5>1. /\ p \in Ordinals /\ nextSequence[c][p] = echoedMessages[c][p]
              /\ nextSequence[c][p] \in Nat /\ accepted[c][p] \in Nat
          BY <4>1 DEF AllStreamsDrained, Types, StreamTypes, QuicTypes
        <5>2. accepted[c][p] <= nextSequence[c][p]
          BY <1>3, <5>1 DEF FramesOf
        <5> QED
          BY <1>4, <3>2, <5>1, <5>2
      <4> QED
        BY <1>1, <2>1, <2>5, <3>3, <3>5, <4>1, <4>2 DEF Found
    <3> QED
      BY <2>1, <3>3, <3>4, <3>5 DEF Found
  <2> QED
    BY <2>3, <2>4, <2>5, WorkerEffect, Domains DEF EnterPump, Types, PumpTypes
<1>6. CASE OnConnected(c)
  <2>1. opened[c] = {} /\ streamStarted[c] = {} /\ shutdownStarted[c] = {}
    BY <1>3, <1>6 DEF OnConnected, EventsInOrder, StreamLives
  <2>2. /\ UNCHANGED <<streamStarted, shutdownStarted, streamClosed, nextSequence,
                       echoedMessages, worker, stream, streamGone, accepted>>
        /\ quic'[c] # "complete"
    BY <1>6 DEF OnConnected, workVars, Types, QuicTypes
  <2>3. Streams(c)'
    BY <1>3, <2>1, <2>2 DEF Streams, StreamLives, Drained, FramesOf
  <2> QED
    BY <1>2, <1>5, <2>3
<1>7. CASE ~OnConnected(c)
  <2>1. \A o \in Ordinals : FramesOf(c, o)'
    <3> SUFFICES ASSUME NEW o \in Ordinals PROVE FramesOf(c, o)'
      OBVIOUS
    <3>1. /\ nextSequence[c][o] \in Nat /\ accepted[c][o] \in Nat
          /\ echoedMessages[c][o] \in Nat
      BY DEF Types, StreamTypes, QuicTypes
    <3> QED
      BY <1>3, <1>4, <1>7, <3>1 DEF FramesOf
  <2>2. Drained(c)'
    <3> SUFFICES ASSUME shutdownStarted[c] # {}, NEW p \in opened[c] \ streamClosed[c]
                 PROVE  nextSequence[c][p] = echoedMessages'[c][p]
      BY <1>1, <1>3, <1>4, <1>7 DEF Drained, AllStreamsDrained
    <3>1. /\ p \in Ordinals /\ nextSequence[c][p] = echoedMessages[c][p]
          /\ nextSequence[c][p] \in Nat /\ accepted[c][p] \in Nat
      BY <1>3 DEF Drained, AllStreamsDrained, Types, StreamTypes, QuicTypes
    <3>2. accepted[c][p] <= nextSequence[c][p]
      BY <1>3, <3>1 DEF FramesOf
    <3> QED
      BY <1>4, <1>7, <3>1, <3>2
  <2>3. StreamLives(c)'
    <3>1. /\ streamStarted \in [Conns -> SUBSET Ordinals]
          /\ streamClosed \in [Conns -> SUBSET Ordinals]
          /\ streamGone \in [Conns -> SUBSET Ordinals]
          /\ worker \in [Conns -> {"idle", "pump", "pumping", "streamClose", "lastStream",
                                   "connectionClose", "countDown", "notify"}]
          /\ stream \in [Conns -> Ordinals]
          /\ quic \in [Conns -> {"idle", "connecting", "connected", "shutdown", "complete"}]
      BY DEF Types, StreamTypes, WorkTypes, QuicTypes
    <3>2. ASSUME NEW o \in Ordinals, OnStartComplete(c, o) PROVE StreamLives(c)'
      BY <1>3, <3>1, <3>2 DEF OnStartComplete, Ready, StreamLives, quicVars
    <3>3. ASSUME NEW o \in Ordinals, OnStartFailed(c, o) PROVE StreamLives(c)'
      BY <1>3, <3>1, <3>3 DEF OnStartFailed, Ready, ShutDown, StreamLives, streamVars, workVars
    <3>4. ASSUME NEW o \in Ordinals, OnReceive(c, o) PROVE StreamLives(c)'
      BY <1>3, <3>1, <3>4 DEF OnReceive, Ready, StreamLives, quicVars
    <3>5. ASSUME NEW o \in Ordinals, OnStreamShutdownComplete(c, o) PROVE StreamLives(c)'
      BY <1>3, <3>1, <3>5 DEF OnStreamShutdownComplete, Ready, StreamLives, quicVars
    <3>6. CASE OnConnectionShutdownComplete(c)
      BY <1>3, <3>1, <3>6 DEF OnConnectionShutdownComplete, Ready, StreamLives, streamVars
    <3>7. CASE EnterPump(c) \/ ConnectionClose(c) \/ CountDown(c) \/ NotifyAll(c)
      BY <1>3, <3>1, <3>7 DEF EnterPump, ConnectionClose, CountDown, NotifyAll, StreamLives,
             streamVars, quicVars
    <3>8. CASE StreamClose(c)
      BY <1>3, <3>1, <3>8 DEF StreamClose, StreamLives, streamVars
    <3>9. CASE CloseAfterLast(c)
      BY <1>3, <3>1, <3>9 DEF CloseAfterLast, ShutDown, StreamLives, streamVars
    <3> QED
      BY <1>7, <3>2, <3>3, <3>4, <3>5, <3>6, <3>7, <3>8, <3>9 DEF Events, Handler
  <2> QED
    BY <1>2, <1>5, <2>1, <2>2, <2>3 DEF Streams
<1> QED
  BY <1>6, <1>7

\* What all other steps of Run and of the pacer have in common.
LEMMA RunEffect ==
  ASSUME Types, CallsPlaced, RunProgress,
         PacerVisit \/ PacerEnds \/ (MainStep /\ ~Pump(Main)) \/ Disturb
  PROVE  /\ UNCHANGED <<streamVars, workVars, config, picked, connectionGone, streamGone, accepted>>
         /\ stopSending => stopSending'
         /\ \A c \in Conns : quic'[c] \in {"connected", "complete"} => quic'[c] = quic[c]
         /\ \A t \in Threads :
              /\ pump'[t] = pump[t] \/ (t \notin Conns /\ pump'[t] \in {"select", "decide"})
              /\ pump[t] # "idle" => Target(t)' = Target(t)
<1>1. /\ UNCHANGED <<streamVars, workVars, config, picked, connectionGone, streamGone, accepted>>
      /\ stopSending => stopSending'
  BY DEF PacerVisit, PacerEnds, MainStep, Disturb, StartConnection, StartThrows, Deadline,
         RequestStopSending, LeaveWait, ForceShutdown, ForceCall, WaitForConnectionsToClose,
         JoinPacer, ctlVars, quicVars, pumpVars
<1>2. \A c \in Conns : quic'[c] \in {"connected", "complete"} => quic'[c] = quic[c]
  <2>1. UNCHANGED quic \/ (\E d \in Conns : ShutDown(d))
          \/ quic' = [quic EXCEPT ![mainConn] = "connecting"]
    BY TargetIsConn, Domains
       DEF PacerVisit, PacerEnds, MainStep, Disturb, StartConnection, StartThrows, Deadline,
         RequestStopSending, LeaveWait, ForceShutdown, ForceCall, WaitForConnectionsToClose,
         JoinPacer, quicVars
  <2> QED
    BY <2>1 DEF ShutDown, Types, QuicTypes
<1>3. \A t \in Threads : pump'[t] = pump[t] \/ (t \notin Conns /\ pump'[t] \in {"select", "decide"})
  BY Domains
     DEF PacerVisit, PacerEnds, MainStep, Disturb, StartConnection, StartThrows, Deadline,
         RequestStopSending, LeaveWait, ForceShutdown, ForceCall, WaitForConnectionsToClose,
         JoinPacer, pumpVars, Types, PumpTypes
<1>4. \A t \in Threads : pump[t] # "idle" => Target(t)' = Target(t)
  <2>1. pump[Main] # "idle" => UNCHANGED mainConn
    BY DEF CallsPlaced, PacerVisit, PacerEnds, MainStep, Disturb, StartConnection, StartThrows,
         Deadline, RequestStopSending, LeaveWait, ForceShutdown, ForceCall, JoinPacer,
         WaitForConnectionsToClose, mainVars
  <2>2. pump[Pacer] # "idle" => UNCHANGED pacerConn
    BY DEF CallsPlaced, PacerVisit, PacerEnds, MainStep, Disturb, StartConnection, StartThrows,
         Deadline, RequestStopSending, LeaveWait, ForceShutdown, ForceCall, JoinPacer,
         WaitForConnectionsToClose, pacerVars
  <2> QED
    BY <2>1, <2>2 DEF Target
<1> QED
  BY <1>1, <1>2, <1>3, <1>4

LEMMA RunKeepsStreams ==
  ASSUME Types, CallsPlaced, RunProgress,
         PacerVisit \/ PacerEnds \/ (MainStep /\ ~Pump(Main)) \/ Disturb,
         \A c \in Conns : Streams(c),
         \A u \in Threads : Found(u, Target(u))
  PROVE  /\ \A c \in Conns : Streams(c)'
         /\ \A u \in Threads : Found(u, Target(u))'
<1>1. \A c \in Conns : Streams(c)'
  <2>1. \A c \in Conns : quic'[c] = quic[c] \/ quic'[c] # "complete"
    BY RunEffect
  <2> QED
    BY <2>1, RunEffect, StreamsUnchanged DEF streamVars, workVars
<1>2. ASSUME NEW u \in Threads PROVE Found(u, Target(u))'
  <2>1. CASE pump'[u] = pump[u] /\ pump[u] # "idle"
    <3>1. PICK d \in Conns : d = Target(u) /\ d = Target(u)'
      BY <2>1, RunEffect, TargetIsConn
    <3>2. Found(u, d)'
      BY <2>1, <3>1, RunEffect, FoundUnchanged DEF streamVars
    <3> QED
      BY <3>1, <3>2 DEF Found, AllStreamsDrained
  <2>2. CASE pump'[u] \in {"idle", "select", "decide"}
    BY <2>2 DEF Found
  <2> QED
    BY <2>1, <2>2, RunEffect
<1> QED
  BY <1>1, <1>2

-----------------------------------------------------------------------------
(* The windows of an unpaced client.                                       *)

LEMMA WindowUnchanged ==
  ASSUME NEW c \in Conns, WindowShut(c), UNCHANGED config, stopSending => stopSending',
         quic'[c] = "connected" => quic[c] = "connected",
         worker'[c] = worker[c] \/ {worker[c], worker'[c]} \cap {"pump", "pumping"} = {},
         pump'[c] = pump[c],
         streamStarted'[c] = streamStarted[c], shutdownStarted'[c] = shutdownStarted[c],
         streamClosed[c] \subseteq streamClosed'[c],
         nextSequence'[c] = nextSequence[c], echoedMessages'[c] = echoedMessages[c]
  PROVE  WindowShut(c)'
BY DEF WindowShut, Eligible

LEMMA PumpKeepsWindows ==
  ASSUME Types, CallsPlaced, MutexHeld, RunProgress, NEW t \in Threads, Pump(t),
         \A c \in Conns : EventsInOrder(c) /\ WindowShut(c),
         \A u \in Threads : Found(u, Target(u))
  PROVE  \A c \in Conns : WindowShut(c)'
<1> SUFFICES ASSUME NEW c \in Conns, ~config.paced, ~stopSending PROVE WindowShut(c)'
  BY PumpEffect DEF WindowShut, ctlVars
<1>1. t \in Conns /\ Target(t) = t /\ t # Pacer /\ t # Main /\ worker[t] = "pumping"
  BY PumpEffect, Domains DEF RunProgress, CallsPlaced
<1>2. UNCHANGED <<config, stopSending, streamStarted, streamClosed, echoedMessages>>
  BY PumpEffect DEF ctlVars
<1>3. CASE c # t
  <2>1. /\ pump'[c] = pump[c] /\ worker'[c] = worker[c] /\ quic'[c] = quic[c]
    BY <1>1, <1>3, PumpEffect, OthersAtReturn, PumpQuic, Domains DEF Types, PumpTypes
  <2>2. /\ shutdownStarted'[c] = shutdownStarted[c] /\ nextSequence'[c] = nextSequence[c]
    BY <1>1, <1>3 DEF Pump, SelectStream, SendFrame, SendFails, DecideShutdown, ShutdownStream,
           streamVars, Types, StreamTypes
  <2> QED
    BY <1>2, <2>1, <2>2, WindowUnchanged
<1>4. CASE c = t
  <2>1. CASE SelectStream(t)
    <3>1. worker'[c] = "pumping" /\ UNCHANGED <<nextSequence, shutdownStarted>>
      BY <1>1, <1>4, <2>1 DEF SelectStream, workVars, streamVars
    <3>2. CASE pump'[c] # "decide"
      BY <3>1, <3>2 DEF WindowShut
    <3>3. CASE pump'[c] = "decide"
      <4>1. c \in config.senders => \A o \in Ordinals : ~Eligible(c, o)
        BY <1>1, <1>4, <2>1, <3>3 DEF SelectStream, Types, PumpTypes
      <4> QED
        BY <1>2, <3>1, <4>1 DEF WindowShut, Eligible
    <3> QED
      BY <3>2, <3>3
  <2>2. CASE SendFrame(t)
    <3>1. worker'[c] = "pumping" /\ pump'[c] = "select"
      BY <1>1, <1>4, <2>2 DEF SendFrame, workVars, Types, PumpTypes
    <3> QED
      BY <3>1 DEF WindowShut
  <2>3. CASE SendFails(t)
    <3>1. quic'[c] # "connected"
      BY <1>1, <1>4, <2>3 DEF SendFails, ShutDown, Types, QuicTypes
    <3> QED
      BY <3>1 DEF WindowShut
  <2>4. CASE DecideShutdown(t)
    <3>1. pump[c] = "decide" /\ UNCHANGED <<nextSequence, shutdownStarted, quic>>
      BY <1>1, <1>4, <2>4 DEF DecideShutdown, streamVars, quicVars
    <3> QED
      BY <1>2, <3>1 DEF WindowShut, Eligible
  <2>5. CASE ShutdownStream(t)
    BY <2>5 DEF ShutdownStream, Found
  <2> QED
    BY <2>1, <2>2, <2>3, <2>4, <2>5 DEF Pump
<1> QED
  BY <1>3, <1>4

LEMMA WorkerKeepsWindows ==
  ASSUME Types, CallsPlaced, NEW c \in Conns, Events(c) \/ (Handler(c) /\ ~Pump(c)),
         \A d \in Conns : EventsInOrder(d) /\ StreamLives(d) /\ WindowShut(d)
  PROVE  \A d \in Conns : WindowShut(d)'
<1>1. UNCHANGED <<config, stopSending>> /\ worker[c] # "pumping" /\ pump[c] = "idle"
  BY WorkerEffect DEF CallsPlaced
<1>2. \A d \in Conns \ {c} : WindowShut(d)'
  BY <1>1, WorkerLocal, WindowUnchanged
<1>3. CASE OnConnected(c)
  <2>1. streamStarted[c] = {} /\ UNCHANGED streamStarted
    BY <1>3 DEF OnConnected, EventsInOrder, StreamLives
  <2>2. WindowShut(c)'
    BY <2>1 DEF WindowShut, Eligible
  <2> QED
    BY <1>2, <2>2
<1>4. CASE \E o \in Ordinals : OnStartComplete(c, o) \/ OnReceive(c, o)
  <2>1. ~config.paced => worker'[c] = "pump" /\ UNCHANGED pump
    BY <1>4 DEF OnStartComplete, OnReceive, PumpsInline, pumpVars, Types, WorkTypes
  <2>2. WindowShut(c)'
    BY <1>1, <2>1 DEF WindowShut
  <2> QED
    BY <1>2, <2>2
<1>5. CASE EnterPump(c)
  <2>1. worker'[c] = "pumping" /\ pump'[c] = "select"
    BY <1>5, Domains DEF EnterPump, Types, WorkTypes, PumpTypes
  <2>2. WindowShut(c)'
    BY <2>1 DEF WindowShut
  <2> QED
    BY <1>2, <2>2
<1>6. CASE \/ \E o \in Ordinals : OnStartFailed(c, o) \/ OnStreamShutdownComplete(c, o)
           \/ OnConnectionShutdownComplete(c) \/ StreamClose(c) \/ CloseAfterLast(c)
           \/ ConnectionClose(c) \/ CountDown(c) \/ NotifyAll(c)
  <2>1. UNCHANGED <<pump, streamStarted, shutdownStarted, nextSequence, echoedMessages>>
    BY <1>6 DEF OnStartFailed, OnStreamShutdownComplete, OnConnectionShutdownComplete,
           StreamClose, CloseAfterLast, ConnectionClose, CountDown, NotifyAll, streamVars, pumpVars
  <2>2. streamClosed[c] \subseteq streamClosed'[c]
    BY <1>6 DEF OnStartFailed, OnStreamShutdownComplete, OnConnectionShutdownComplete,
           StreamClose, CloseAfterLast, ConnectionClose, CountDown, NotifyAll, streamVars,
           Types, StreamTypes
  <2>3. {worker[c], worker'[c]} \cap {"pump", "pumping"} = {}
    BY <1>6 DEF OnStartFailed, OnStreamShutdownComplete, OnConnectionShutdownComplete, Ready,
           StreamClose, CloseAfterLast, ConnectionClose, CountDown, NotifyAll, workVars,
           Types, WorkTypes
  <2>4. quic'[c] = "connected" => quic[c] = "connected"
    BY <1>6 DEF OnStartFailed, OnStreamShutdownComplete, OnConnectionShutdownComplete, ShutDown,
           StreamClose, CloseAfterLast, ConnectionClose, CountDown, NotifyAll, quicVars,
           Types, QuicTypes
  <2>5. WindowShut(c)'
    BY <1>1, <2>1, <2>2, <2>3, <2>4, WindowUnchanged
  <2> QED
    BY <1>2, <2>5
<1> QED
  BY <1>3, <1>4, <1>5, <1>6 DEF Events, Handler

LEMMA RunKeepsWindows ==
  ASSUME Types, CallsPlaced, RunProgress,
         PacerVisit \/ PacerEnds \/ (MainStep /\ ~Pump(Main)) \/ Disturb,
         \A c \in Conns : WindowShut(c)
  PROVE  \A c \in Conns : WindowShut(c)'
<1> SUFFICES ASSUME NEW c \in Conns PROVE WindowShut(c)'
  OBVIOUS
<1>1. pump'[c] = pump[c] /\ (quic'[c] = "connected" => quic[c] = "connected")
  BY RunEffect, Domains
<1> QED
  BY <1>1, RunEffect, WindowUnchanged DEF streamVars, workVars

-----------------------------------------------------------------------------
(* The count of active connections.                                        *)

LEMMA ActiveFinite ==
  ASSUME Types
  PROVE  /\ IsFiniteSet(Active) /\ Cardinality(Active) \in 0 .. config.clients
         /\ Active \subseteq RunConns
<1>1. /\ IsFiniteSet(RunConns) /\ Cardinality(RunConns) = config.clients
      /\ config.clients \in Nat
  <2>1. config.clients \in Nat \ {0} /\ 0 \in Int /\ config.clients - 1 \in Int
    BY ConfigFacts DEF Types, ControlTypes
  <2>2. PICK k \in Int : k = config.clients - 1
    BY <2>1
  <2>3. IsFiniteSet(0 .. k) /\ Cardinality(0 .. k) = IF 0 > k THEN 0 ELSE k - 0 + 1
    BY <2>1, FS_Interval
  <2> QED
    BY <2>1, <2>2, <2>3 DEF RunConns
<1>2. Active \subseteq RunConns
  BY DEF Active
<1>3. IsFiniteSet(Active) /\ Cardinality(Active) <= Cardinality(RunConns)
  BY <1>1, <1>2, FS_Subset
<1> QED
  BY <1>1, <1>2, <1>3, FS_CardinalityType

LEMMA PumpKeepsCount ==
  ASSUME Types, CallsPlaced, MutexHeld, RunProgress, ActiveCounted, NEW t \in Threads, Pump(t),
         \A c \in Conns : EventsInOrder(c)
  PROVE  ActiveCounted'
<1>1. UNCHANGED <<config, activeConnections, connectionGone>> /\ pump[t] # "idle"
  BY PumpEffect DEF ctlVars
<1>2. \A c \in RunConns : worker'[c] = worker[c] \/ (worker[c] = "pumping" /\ worker'[c] = "idle")
  <2>1. t \in Conns => worker[t] = "pumping"
    BY <1>1 DEF CallsPlaced
  <2> QED
    BY <1>1, <2>1, PumpEffect, OthersAtReturn, ConfigFacts DEF Types, ControlTypes
<1>3. \A c \in RunConns : worker[c] = "pumping" => ~connectionGone[c]
  BY ConfigFacts DEF EventsInOrder, Types, ControlTypes
<1>4. Active' = Active
  BY <1>1, <1>2, <1>3 DEF Active, RunConns
<1> QED
  BY <1>1, <1>4 DEF ActiveCounted

LEMMA WorkerKeepsCount ==
  ASSUME Types, ActiveCounted, NEW c \in Conns, Events(c) \/ (Handler(c) /\ ~Pump(c)),
         \A d \in Conns : EventsInOrder(d)
  PROVE  ActiveCounted'
<1>1. UNCHANGED config /\ RunConns' = RunConns /\ RunConns \subseteq Conns
  BY WorkerEffect, ConfigFacts DEF RunConns, Types, ControlTypes
<1>2. \A d \in RunConns \ {c} : d \in Active' <=> d \in Active
  BY <1>1, WorkerLocal DEF Active
<1>3. CASE CountDown(c)
  <2>1. /\ activeConnections' = activeConnections - 1 /\ UNCHANGED connectionGone
        /\ worker[c] = "countDown" /\ worker'[c] = "notify"
    BY <1>3 DEF CountDown, Types, WorkTypes, quicVars
  <2>2. quic[c] = "complete" /\ connectionGone[c] /\ c \in RunConns
    BY <2>1 DEF EventsInOrder
  <2>3. c \in Active /\ Active' = Active \ {c}
    <3>1. c \in Active /\ c \notin Active'
      BY <1>1, <2>1, <2>2 DEF Active
    <3> QED
      BY <1>1, <1>2, <3>1 DEF Active
  <2>4. Cardinality(Active \ {c}) = Cardinality(Active) - 1
    BY <2>3, ActiveFinite, FS_RemoveElement
  <2> QED
    BY <2>1, <2>3, <2>4 DEF ActiveCounted
<1>4. CASE ~CountDown(c)
  <2>1. UNCHANGED activeConnections
    BY <1>4 DEF Events, Handler, OnConnected, OnStartComplete, OnStartFailed, OnReceive, EnterPump,
         OnStreamShutdownComplete, StreamClose, CloseAfterLast, OnConnectionShutdownComplete,
         ConnectionClose, NotifyAll, ctlVars
  <2>2. (connectionGone'[c] /\ worker'[c] \in {"idle", "notify"})
          <=> (connectionGone[c] /\ worker[c] \in {"idle", "notify"})
    <3>1. CASE Events(c)
      <4>1. UNCHANGED connectionGone /\ quic[c] # "complete"
        BY <3>1 DEF Events, OnConnected, OnStartComplete, OnStartFailed, OnReceive, Ready,
             OnStreamShutdownComplete, OnConnectionShutdownComplete, quicVars
      <4> QED
        BY <4>1 DEF EventsInOrder
    <3>2. CASE EnterPump(c) \/ StreamClose(c) \/ CloseAfterLast(c)
      <4>1. UNCHANGED connectionGone /\ worker[c] \in {"pump", "streamClose", "lastStream"}
        BY <3>2 DEF EnterPump, StreamClose, CloseAfterLast, quicVars
      <4> QED
        BY <4>1 DEF EventsInOrder
    <3>3. CASE ConnectionClose(c)
      BY <3>3 DEF ConnectionClose, Types, WorkTypes
    <3>4. CASE NotifyAll(c)
      BY <3>4 DEF NotifyAll, Types, WorkTypes, quicVars
    <3> QED
      BY <1>4, <3>1, <3>2, <3>3, <3>4 DEF Handler
  <2>3. Active' = Active
    BY <1>1, <1>2, <2>2 DEF Active
  <2> QED
    BY <2>1, <2>3 DEF ActiveCounted
<1> QED
  BY <1>3, <1>4

LEMMA RunKeepsCount ==
  ASSUME Types, CallsPlaced, RunProgress, ActiveCounted,
         PacerVisit \/ PacerEnds \/ (MainStep /\ ~Pump(Main)) \/ Disturb
  PROVE  ActiveCounted'
<1>1. UNCHANGED activeConnections
  BY DEF PacerVisit, PacerEnds, MainStep, Disturb, StartConnection, StartThrows, Deadline,
         RequestStopSending, LeaveWait, ForceShutdown, ForceCall, WaitForConnectionsToClose,
         JoinPacer, ctlVars
<1>2. Active' = Active
  BY RunEffect DEF Active, RunConns, workVars
<1> QED
  BY <1>1, <1>2 DEF ActiveCounted

-----------------------------------------------------------------------------
(* The invariant is inductive.                                             *)

LEMMA IInvParts ==
  IInv <=> /\ Types /\ CallsPlaced /\ MutexHeld /\ RunProgress /\ ActiveCounted
           /\ \A c \in Conns : EventsInOrder(c) /\ Streams(c) /\ WindowShut(c)
           /\ \A t \in Threads : Found(t, Target(t))
BY DEF IInv, Streams

LEMMA IInvNext ==
  ASSUME IInv, [Next]_vars
  PROVE  IInv'
<1>1. /\ Types /\ CallsPlaced /\ MutexHeld /\ RunProgress /\ ActiveCounted
      /\ \A c \in Conns : EventsInOrder(c) /\ Streams(c) /\ WindowShut(c)
      /\ \A t \in Threads : Found(t, Target(t))
      /\ \A c \in Conns : StreamLives(c)
  BY IInvParts DEF Streams
<1>2. Types'
  BY <1>1, TypesNext
<1> DEFINE Rest == /\ CallsPlaced /\ MutexHeld /\ RunProgress /\ ActiveCounted
                   /\ \A c \in Conns : EventsInOrder(c) /\ Streams(c) /\ WindowShut(c)
                   /\ \A t \in Threads : Found(t, Target(t))
<1>3. ASSUME NEW t \in Threads, Pump(t) PROVE Rest'
  <2>1. CallsPlaced' /\ MutexHeld'
    BY <1>1, <1>3, PumpKeepsCalls
  <2>2. RunProgress' /\ \A c \in Conns : EventsInOrder(c)'
    BY <1>1, <1>3, PumpKeepsProgress
  <2>3. (\A c \in Conns : Streams(c)') /\ \A u \in Threads : Found(u, Target(u))'
    BY <1>1, <1>3, PumpKeepsStreams
  <2>4. (\A c \in Conns : WindowShut(c)') /\ ActiveCounted'
    BY <1>1, <1>3, PumpKeepsWindows, PumpKeepsCount
  <2> QED
    BY <2>1, <2>2, <2>3, <2>4
<1>4. ASSUME NEW c \in Conns, Events(c) \/ (Handler(c) /\ ~Pump(c)) PROVE Rest'
  <2>1. CallsPlaced' /\ MutexHeld'
    BY <1>1, <1>4, WorkerKeepsCalls
  <2>2. RunProgress' /\ \A d \in Conns : EventsInOrder(d)'
    BY <1>1, <1>4, WorkerKeepsProgress
  <2>3. (\A d \in Conns : Streams(d)') /\ \A u \in Threads : Found(u, Target(u))'
    BY <1>1, <1>4, WorkerKeepsStreams
  <2>4. (\A d \in Conns : WindowShut(d)') /\ ActiveCounted'
    BY <1>1, <1>4, WorkerKeepsWindows, WorkerKeepsCount
  <2> QED
    BY <2>1, <2>2, <2>3, <2>4
<1>5. ASSUME PacerVisit \/ PacerEnds \/ (MainStep /\ ~Pump(Main)) \/ Disturb PROVE Rest'
  <2>1. CallsPlaced' /\ MutexHeld'
    BY <1>1, <1>5, RunKeepsCalls
  <2>2. RunProgress' /\ \A d \in Conns : EventsInOrder(d)'
    BY <1>1, <1>5, RunKeepsProgress
  <2>3. (\A d \in Conns : Streams(d)') /\ \A u \in Threads : Found(u, Target(u))'
    BY <1>1, <1>5, RunKeepsStreams
  <2>4. (\A d \in Conns : WindowShut(d)') /\ ActiveCounted'
    BY <1>1, <1>5, RunKeepsWindows, RunKeepsCount
  <2> QED
    BY <2>1, <2>2, <2>3, <2>4
<1>6. ASSUME UNCHANGED vars PROVE Rest'
  <2>1. CallsPlaced' /\ MutexHeld' /\ RunProgress' /\ ActiveCounted'
    BY <1>1, <1>6 DEF vars, connVars, ctlVars, pumpVars, workVars, mainVars, pacerVars, quicVars,
       CallsPlaced, MutexHeld, RunProgress, ActiveCounted, Active, RunConns, Target
  <2>2. \A c \in Conns : EventsInOrder(c)' /\ Streams(c)' /\ WindowShut(c)'
    BY <1>1, <1>6 DEF vars, streamVars, ctlVars, pumpVars, workVars, quicVars, EventsInOrder,
       Streams, StreamLives, Drained, AllStreamsDrained, FramesOf, WindowShut, Eligible, RunConns
  <2>3. \A t \in Threads : Found(t, Target(t))'
    BY <1>1, <1>6 DEF vars, streamVars, ctlVars, pumpVars, mainVars, pacerVars, Found,
       AllStreamsDrained, Target
  <2> QED
    BY <2>1, <2>2, <2>3
<1>7. Rest'
  BY <1>3, <1>4, <1>5, <1>6, Domains DEF Next, PacerStep, MainStep, Handler, Ended
<1> QED
  BY <1>2, <1>7, IInvParts DEF IInv, Streams

-----------------------------------------------------------------------------
(* Theorems.                                                               *)

\* The parts of the invariant hold together in every reachable state: who pumps and
\* who has which mutex, how far Run, the pacer and the events of each connection
\* are, where its frames are, and which connections are still counted.
THEOREM InductiveInvariant == Spec => []IInv
<1>1. Init => IInv
  BY InitIInv
<1>2. IInv /\ [Next]_vars => IInv'
  BY IInvNext
<1> QED
  BY <1>1, <1>2, PTL DEF Spec

\* Every variable stays in its range; in particular the fetch_sub of the
\* SHUTDOWN_COMPLETE handlers never takes activeConnections below zero, however
\* connections fail, are forced or are abandoned.
THEOREM TypeCorrect == Spec => []TypeOK
<1>1. IInv => TypeOK
  <2> SUFFICES ASSUME IInv PROVE TypeOK
    OBVIOUS
  <2>1. Types
    BY DEF IInv
  <2>2. activeConnections \in 0 .. config.clients
    BY <2>1, ActiveFinite DEF IInv, ActiveCounted
  <2>3. ASSUME NEW c \in Conns, NEW o \in Ordinals
        PROVE  /\ nextSequence[c][o] \in 0 .. MaxMessages
               /\ echoedMessages[c][o] \in 0 .. MaxMessages
               /\ accepted[c][o] \in 0 .. MaxMessages
    <3>1. FramesOf(c, o) /\ MaxMessages \in Nat
      BY ConfigsAssumption DEF IInv
    <3>2. /\ nextSequence[c][o] \in Nat /\ echoedMessages[c][o] \in Nat
          /\ accepted[c][o] \in Nat
      BY <2>1 DEF Types, StreamTypes, QuicTypes
    <3> QED
      BY <3>1, <3>2 DEF FramesOf
  <2>4. /\ nextSequence \in [Conns -> [Ordinals -> 0 .. MaxMessages]]
        /\ echoedMessages \in [Conns -> [Ordinals -> 0 .. MaxMessages]]
        /\ accepted \in [Conns -> [Ordinals -> 0 .. MaxMessages]]
    <3>1. \A f \in [Conns -> [Ordinals -> Nat]] :
            (\A c \in Conns : \A o \in Ordinals : f[c][o] \in 0 .. MaxMessages)
              => f \in [Conns -> [Ordinals -> 0 .. MaxMessages]]
      OBVIOUS
    <3> QED
      BY <2>1, <2>3, <3>1 DEF Types, StreamTypes, QuicTypes
  <2>5. mainConn \in Conns
    BY <2>1, ConfigFacts DEF Types, ControlTypes, RunTypes
  <2> QED
    BY <2>1, <2>2, <2>4, <2>5 DEF TypeOK, Types, StreamTypes, ConnTypes, ControlTypes, PumpTypes,
       WorkTypes, RunTypes, QuicTypes
<1> QED
  BY <1>1, InductiveInvariant, PTL

\* No event handler sends on a closed stream or connection, none shuts a connection
\* down after its ConnectionClose, and no thread shuts a closed stream down, although
\* handles are closed without the mutex that the pumps hold.
THEOREM OpenHandlesKept == Spec => []OpenHandles
<1>1. IInv => OpenHandles
  <2> SUFFICES ASSUME IInv PROVE OpenHandles
    OBVIOUS
  <2>1. /\ Types /\ CallsPlaced
        /\ \A c \in Conns : StreamLives(c) /\ EventsInOrder(c)
        /\ \A t \in Threads : Found(t, Target(t))
    BY DEF IInv
  <2>2. ASSUME NEW t \in Threads, pump[t] = "shut", NeedsShutdown(Target(t), picked[t])
        PROVE  picked[t] \notin streamGone[Target(t)]
    BY <2>1, <2>2, TargetIsConn DEF NeedsShutdown, StreamLives
  <2>3. ASSUME NEW t \in Threads, pump[t] = "send", t # Pacer
        PROVE  /\ picked[t] \notin streamGone[Target(t)]
               /\ ~connectionGone[Target(t)]
    <3>1. picked[t] \notin streamClosed[Target(t)]
      BY <2>1, <2>3 DEF Found
    <3>2. t \in Conns /\ Target(t) = t /\ worker[t] = "pumping"
      BY <2>1, <2>3, Domains DEF CallsPlaced
    <3> QED
      BY <2>1, <3>1, <3>2, TargetIsConn DEF StreamLives, EventsInOrder
  <2>4. \A c \in Conns : worker[c] = "lastStream" => ~connectionGone[c]
    BY <2>1 DEF EventsInOrder
  <2> QED
    BY <2>2, <2>3, <2>4 DEF OpenHandles
<1> QED
  BY <1>1, InductiveInvariant, PTL

\* Streams are shut down only in a stopped run, on a connection whose open streams
\* have all had their last echo; no pump of any thread sends on it afterwards.
THEOREM StreamsCloseAfterDrain == Spec => []CloseAfterDrain
<1>1. IInv => CloseAfterDrain
  BY DEF IInv, CloseAfterDrain, Drained, AllStreamsDrained
<1> QED
  BY <1>1, InductiveInvariant, PTL

\* Without a pacer no window is left open by a worker at rest: every event that opens
\* one is followed by a pump that fills it.
THEOREM WindowStaysFull == Spec => []WindowKeptFull
<1>1. IInv => WindowKeptFull
  <2> SUFFICES ASSUME IInv, NEW c \in Conns \cap config.senders,
                      NEW o \in streamStarted[c] \ streamClosed[c],
                      ~config.paced, ~stopSending, worker[c] = "idle", quic[c] = "connected"
               PROVE  ~Eligible(c, o)
    BY DEF WindowKeptFull
  <2>1. WindowShut(c) /\ o \in Ordinals
    BY DEF IInv, Types, StreamTypes
  <2> QED
    BY <2>1 DEF WindowShut
<1> QED
  BY <1>1, InductiveInvariant, PTL

\* When Run returns with no connection counted as active, every handle is closed, no
\* pump is running, no mutex is held, and all that a handler may still have to do is
\* its notify_all, which Run does not wait for.
THEOREM QuietWhenRunReturns == Spec => []QuietAtEnd
<1>1. IInv => QuietAtEnd
  <2> SUFFICES ASSUME IInv, mainPc = "done", activeConnections = 0,
                      NEW c \in 0 .. config.clients - 1
               PROVE  /\ connectionGone[c] /\ streamGone[c] = streamStarted[c]
                      /\ worker[c] \in {"idle", "notify"} /\ pump[c] = "idle"
                      /\ mutex[c] = Nobody
    BY DEF QuietAtEnd
  <2>1. Types /\ CallsPlaced /\ MutexHeld /\ RunProgress /\ ActiveCounted
    BY DEF IInv
  <2>2. c \in RunConns /\ c \in Conns /\ c \in Threads
    BY <2>1, ConfigFacts, Domains DEF RunConns, Types, ControlTypes
  <2>3. Active = {}
    BY <2>1, ActiveFinite, FS_EmptySet DEF ActiveCounted
  <2>4. connectionGone[c] /\ worker[c] \in {"idle", "notify"}
    BY <2>2, <2>3 DEF Active
  <2>5. EventsInOrder(c) /\ StreamLives(c)
    BY <2>2 DEF IInv
  <2>6. streamGone[c] = streamStarted[c]
    BY <2>4, <2>5 DEF EventsInOrder, StreamLives
  <2>7. pump[c] = "idle" /\ mutex[c] = Nobody
    BY <2>1, <2>2, <2>4 DEF CallsPlaced, MutexHeld, RunProgress
  <2> QED
    BY <2>4, <2>6, <2>7
<1> QED
  BY <1>1, InductiveInvariant, PTL

-----------------------------------------------------------------------------
(* The client implements the abstract echo session.                        *)

LEMMA InitRefines == Init => Session!Init
BY DEF Init, Session!Init

\* Most steps are invisible to the echo session.
LEMMA InvisibleStep ==
  ASSUME UNCHANGED <<nextSequence, echoedMessages, stopSending, shutdownStarted>>
  PROVE  [Session!Next]_(Session!vars)
BY DEF Session!vars

LEMMA FrameIsSend ==
  ASSUME IInv, NEW t \in Threads, SendFrame(t) \/ SendFails(t)
  PROVE  Session!Next
<1>1. PICK c \in Conns, o \in Ordinals : c = Target(t) /\ o = picked[t]
  BY TargetIsConn DEF IInv, Types, PumpTypes
<1>2. /\ nextSequence' = [nextSequence EXCEPT ![c][o] = @ + 1]
      /\ UNCHANGED <<echoedMessages, stopSending, shutdownStarted>>
      /\ pump[t] = "send"
  BY <1>1 DEF SendFrame, SendFails, ctlVars
<1>3. shutdownStarted[c] = {} /\ nextSequence[c][o] - echoedMessages[c][o] < MaxInflight
  BY <1>1, <1>2 DEF IInv, Found
<1>4. \A d \in Conns \ {c} : nextSequence'[d] = nextSequence[d]
  BY <1>2 DEF IInv, Types, StreamTypes
<1>5. Session!Send(c, o)
  BY <1>2, <1>3, <1>4 DEF Session!Send
<1> QED
  BY <1>5 DEF Session!Next

LEMMA ReceiveIsEcho ==
  ASSUME IInv, NEW c \in Conns, NEW o \in Ordinals, OnReceive(c, o)
  PROVE  Session!Next
<1>1. PICK k \in 1 .. accepted[c][o] - echoedMessages[c][o] :
        /\ echoedMessages' = [echoedMessages EXCEPT ![c][o] = @ + k]
        /\ UNCHANGED <<nextSequence, stopSending, shutdownStarted>>
        /\ o \in streamStarted[c] \ streamClosed[c]
  BY DEF OnReceive, ctlVars
<1>2. /\ nextSequence[c][o] \in Nat /\ echoedMessages[c][o] \in Nat /\ accepted[c][o] \in Nat
      /\ accepted[c][o] <= nextSequence[c][o]
      /\ nextSequence[c][o] - echoedMessages[c][o] <= MaxInflight
      /\ MaxInflight \in Nat
  BY ConfigsAssumption DEF IInv, Types, StreamTypes, QuicTypes, FramesOf
<1>3. k \in 1 .. MaxInflight /\ echoedMessages[c][o] + k <= nextSequence[c][o]
  BY <1>2
<1>4. shutdownStarted[c] = {}
  <2>1. shutdownStarted[c] # {} => nextSequence[c][o] = echoedMessages[c][o]
    BY <1>1 DEF IInv, Drained, AllStreamsDrained, StreamLives
  <2> QED
    BY <1>2, <2>1
<1>5. \A d \in Conns \ {c} : echoedMessages'[d] = echoedMessages[d]
  BY <1>1 DEF IInv, Types, StreamTypes
<1>6. Session!Echo(c, o, k)
  BY <1>1, <1>3, <1>4, <1>5 DEF Session!Echo
<1> QED
  BY <1>3, <1>6 DEF Session!Next

LEMMA ShutdownIsFinish ==
  ASSUME IInv, NEW t \in Threads, ShutdownStream(t)
  PROVE  [Session!Next]_(Session!vars)
<1>1. PICK c \in Conns, o \in Ordinals : c = Target(t) /\ o = picked[t]
  BY TargetIsConn DEF IInv, Types, PumpTypes
<1>2. UNCHANGED <<nextSequence, echoedMessages, stopSending>> /\ stopSending
  BY DEF ShutdownStream, ctlVars, IInv, Found
<1>3. CASE shutdownStarted' = shutdownStarted
  BY <1>2, <1>3, InvisibleStep
<1>4. CASE shutdownStarted' # shutdownStarted
  <2>1. shutdownStarted' = [shutdownStarted EXCEPT ![c] = @ \cup {o}]
    BY <1>1, <1>4 DEF ShutdownStream
  <2>2. shutdownStarted'[c] # {} /\ \A d \in Conns \ {c} : shutdownStarted'[d] = shutdownStarted[d]
    BY <2>1 DEF IInv, Types, StreamTypes
  <2>3. CASE \A p \in Ordinals : nextSequence[c][p] = echoedMessages[c][p]
    <3>1. Session!Finish(c)
      BY <1>2, <2>2, <2>3 DEF Session!Finish
    <3> QED
      BY <3>1 DEF Session!Next
  <2>4. CASE ~\A p \in Ordinals : nextSequence[c][p] = echoedMessages[c][p]
    BY <1>2, <2>2, <2>4 DEF Session!vars
  <2> QED
    BY <2>3, <2>4
<1> QED
  BY <1>3, <1>4

LEMMA StepRefines == IInv /\ [Next]_vars => [Session!Next]_(Session!vars)
<1> SUFFICES ASSUME IInv, [Next]_vars PROVE [Session!Next]_(Session!vars)
  OBVIOUS
<1> USE DEF streamVars, ctlVars
<1>1. ASSUME NEW t \in Threads, Pump(t) PROVE [Session!Next]_(Session!vars)
  <2>1. CASE SendFrame(t) \/ SendFails(t)
    BY <2>1, FrameIsSend
  <2>2. CASE ShutdownStream(t)
    BY <2>2, ShutdownIsFinish
  <2>3. CASE SelectStream(t) \/ DecideShutdown(t)
    BY <2>3, InvisibleStep DEF SelectStream, DecideShutdown
  <2> QED
    BY <1>1, <2>1, <2>2, <2>3 DEF Pump
<1>2. ASSUME NEW c \in Conns, Events(c) \/ (Handler(c) /\ ~Pump(c))
      PROVE  [Session!Next]_(Session!vars)
  <2>1. CASE \E o \in Ordinals : OnReceive(c, o)
    BY <2>1, ReceiveIsEcho
  <2>2. CASE ~\E o \in Ordinals : OnReceive(c, o)
    <3>1. UNCHANGED <<nextSequence, echoedMessages, stopSending, shutdownStarted>>
      BY <1>2, <2>2 DEF Events, Handler, OnConnected, OnStartComplete, OnStartFailed, EnterPump,
         OnStreamShutdownComplete, StreamClose, CloseAfterLast, OnConnectionShutdownComplete,
         ConnectionClose, CountDown, NotifyAll
    <3> QED
      BY <3>1, InvisibleStep
  <2> QED
    BY <2>1, <2>2
<1>3. CASE Deadline
  <2>1. Session!Stop
    BY <1>3 DEF Deadline, Session!Stop
  <2> QED
    BY <2>1 DEF Session!Next
<1>4. ASSUME PacerVisit \/ PacerEnds \/ (MainStep /\ ~Pump(Main)) \/ Disturb, ~Deadline
      PROVE  [Session!Next]_(Session!vars)
  <2>1. UNCHANGED <<nextSequence, echoedMessages, stopSending, shutdownStarted>>
    BY <1>4 DEF PacerVisit, PacerEnds, MainStep, Disturb, StartConnection, StartThrows,
         RequestStopSending, LeaveWait, ForceShutdown, ForceCall, WaitForConnectionsToClose,
         JoinPacer
  <2> QED
    BY <2>1, InvisibleStep
<1>5. CASE UNCHANGED vars
  BY <1>5, InvisibleStep DEF vars
<1> QED
  BY <1>1, <1>2, <1>3, <1>4, <1>5, Domains DEF Next, PacerStep, MainStep, Handler, Ended

\* Seen through its counters, the client is a window-limited echo session per stream,
\* and a connection that has begun to shut streams down with nothing in flight never
\* sends again, whichever of the three threads pumps it.
THEOREM EchoSessionImplemented == Spec => ImplementsEchoSession
<1>1. Init => Session!Init
  BY InitRefines
<1>2. IInv /\ [Next]_vars => [Session!Next]_(Session!vars)
  BY StepRefines
<1> QED
  BY <1>1, <1>2, InductiveInvariant, PTL DEF Spec, ImplementsEchoSession, Session!Spec

=============================================================================
