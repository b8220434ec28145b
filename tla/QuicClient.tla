------------------------------ MODULE QuicClient ------------------------------
(***************************************************************************)
(* The QUIC load client: Client with the thread that executes Run, the     *)
(* pacer thread, and the MsQuic worker that delivers the events of each    *)
(* connection.  PumpSends runs under the mutex of its connection; stream   *)
(* and connection handles are closed by event handlers, which take that    *)
(* mutex only around their pumps.                                          *)
(*                                                                         *)
(* MsQuic is external and appears by its events: those of one connection   *)
(* come one at a time and never from inside an API call, a stream gets no  *)
(* event after its SHUTDOWN_COMPLETE and a connection none after its own.  *)
(* A call on a handle that was closed is undefined and has no effect here. *)
(* Clocks are left open: which connection the pacer finds due next, and    *)
(* which of its streams with an open window the rotation meets first.      *)
(***************************************************************************)
EXTENDS Integers, FiniteSets

CONSTANTS
  Configs,      \* the configurations: clients, streams, paced, senders, faulty
  MaxInflight,  \* profile.max_inflight, the same for every stream
  MaxMessages   \* bound of the model on the frames of one stream

Conns    == UNION {0 .. k.clients - 1 : k \in Configs}
Ordinals == UNION {0 .. k.streams - 1 : k \in Configs}

\* senders: the connections ShouldSendOnConnection accepts; paced: PumpSends is
\* left to the pacer; faulty: sends and starts fail, peers and networks close
\* connections, signals arrive and timeouts expire.
ConfigType == [clients : Nat \ {0}, streams : Nat \ {0}, paced : BOOLEAN,
               senders : SUBSET Nat, faulty : BOOLEAN]

ASSUME ConfigsAssumption ==
  Configs \subseteq ConfigType /\ MaxInflight \in Nat \ {0} /\ MaxMessages \in Nat

\* The worker that delivers the events of connection c is thread c.
Main    == -1
Pacer   == -2
Nobody  == -3
Threads == Conns \cup {Main, Pacer}

VARIABLES
  config,
  \* StreamContext: sets of ordinals per connection, and counters per stream
  opened, streamStarted, shutdownStarted, streamClosed, nextSequence, echoedMessages,
  \* ConnectionContext
  mutex, connectionClosed,
  \* Client
  activeConnections, stopSending, pacerStop, gStopRequested,
  \* the PumpSends call each thread is in, and its stream
  pump, picked,
  \* the handler each worker is in, and its stream
  worker, stream,
  mainPc, mainConn, pacerPc, pacerConn,
  \* MsQuic: connections, closed handles, the frames it took
  quic, connectionGone, streamGone, accepted

streamVars == <<opened, streamStarted, shutdownStarted, streamClosed, nextSequence, echoedMessages>>
connVars   == <<mutex, connectionClosed>>
ctlVars    == <<config, activeConnections, stopSending, pacerStop, gStopRequested>>
pumpVars   == <<pump, picked>>
workVars   == <<worker, stream>>
mainVars   == <<mainPc, mainConn>>
pacerVars  == <<pacerPc, pacerConn>>
quicVars   == <<quic, connectionGone, streamGone, accepted>>
vars == <<streamVars, connVars, ctlVars, pumpVars, workVars, mainVars, pacerVars, quicVars>>

Init ==
  /\ config \in Configs
  /\ opened          = [c \in Conns |-> {}]
  /\ streamStarted   = [c \in Conns |-> {}]
  /\ shutdownStarted = [c \in Conns |-> {}]
  /\ streamClosed    = [c \in Conns |-> {}]
  /\ nextSequence    = [c \in Conns |-> [o \in Ordinals |-> 0]]
  /\ echoedMessages  = [c \in Conns |-> [o \in Ordinals |-> 0]]
  /\ mutex            = [c \in Conns |-> Nobody]
  /\ connectionClosed = [c \in Conns |-> FALSE]
  /\ activeConnections = config.clients
  /\ stopSending = FALSE /\ pacerStop = FALSE /\ gStopRequested = FALSE
  /\ pump   = [t \in Threads |-> "idle"]
  /\ picked = [t \in Threads |-> 0]
  /\ worker = [c \in Conns |-> "idle"]
  /\ stream = [c \in Conns |-> 0]
  /\ mainPc = "start" /\ mainConn = 0 /\ pacerPc = "off" /\ pacerConn = 0
  /\ quic   = [c \in Conns |-> "idle"]
  /\ connectionGone = [c \in Conns |-> FALSE]
  /\ streamGone     = [c \in Conns |-> {}]
  /\ accepted       = [c \in Conns |-> [o \in Ordinals |-> 0]]

-----------------------------------------------------------------------------
(* MsQuic, as the client uses it.                                          *)

\* When Run has returned or thrown, the client and its contexts are destroyed.
Running == mainPc \notin {"done", "threw"}

\* ConnectionShutdown: the first one decides; the connection will complete.
ShutDown(c) == quic' = [quic EXCEPT ![c] = IF @ = "complete" THEN @ ELSE "shutdown"]

\* Starts and sends succeed on a connection in order, unless the run is faulty.
MayFail(c) == config.faulty \/ quic[c] # "connected"

-----------------------------------------------------------------------------
(* PumpSends(connection, max_messages), as thread t executes it.           *)

Target(t) == IF t = Main THEN mainConn ELSE IF t = Pacer THEN pacerConn ELSE t

CanLock(t) == mutex[Target(t)] = Nobody
Lock(t)    == CanLock(t) /\ mutex' = [mutex EXCEPT ![Target(t)] = t]

\* The caller's next step, once PumpSends has returned and the lock is released.
\* Mutant of NextConn: the loop over the connections ends one too late.
NextConnTooFar(c) == IF c < config.clients THEN c + 1 ELSE 0
NextConn(c) == IF c + 1 < config.clients THEN c + 1 ELSE 0
Resume(t) ==
  /\ worker'   = IF t \in Conns THEN [worker EXCEPT ![t] = "idle"] ELSE worker
  /\ mainConn' = IF t = Main THEN NextConn(mainConn) ELSE mainConn
  /\ mainPc'   = IF t # Main THEN mainPc
                 ELSE IF NextConn(mainConn) = 0 THEN "wait" ELSE "stop"
  /\ pacerPc'  = IF t = Pacer THEN "loop" ELSE pacerPc
  /\ UNCHANGED pacerConn
Return(t) ==
  /\ pump'  = [pump EXCEPT ![t] = "idle"]
  /\ mutex' = [mutex EXCEPT ![Target(t)] = Nobody]
  /\ Resume(t)

\* Mutant: one frame too many.
EligibleByOne(c, o) ==
  /\ o \in streamStarted[c] \ (shutdownStarted[c] \cup streamClosed[c])
  /\ nextSequence[c][o] - echoedMessages[c][o] <= MaxInflight
  /\ nextSequence[c][o] < MaxMessages

Eligible(c, o) ==
  /\ o \in streamStarted[c] \ (shutdownStarted[c] \cup streamClosed[c])
  /\ nextSequence[c][o] - echoedMessages[c][o] < MaxInflight
  /\ nextSequence[c][o] < MaxMessages

\* The head of the send loop and the choice of a stream.
SelectStream(t) ==
  LET c == Target(t) IN
  /\ pump[t] = "select"
  /\ \/ /\ c \in config.senders /\ ~stopSending
        /\ \E o \in Ordinals :
             /\ Eligible(c, o)
             /\ picked' = [picked EXCEPT ![t] = o]
        /\ pump' = [pump EXCEPT ![t] = "send"]
     \/ /\ c \in config.senders /\ ~stopSending => \A o \in Ordinals : ~Eligible(c, o)
        /\ pump' = [pump EXCEPT ![t] = "decide"]
        /\ UNCHANGED picked
  /\ UNCHANGED <<streamVars, connVars, ctlVars, workVars, mainVars, pacerVars, quicVars>>

\* Sequence number and StreamSend; between the choice and this step the worker of
\* the connection may have closed the stream.
SendFrame(t) ==
  LET c == Target(t)
      o == picked[t] IN
  /\ pump[t] = "send"
  /\ nextSequence' = [nextSequence EXCEPT ![c][o] = @ + 1]
  /\ accepted' = [accepted EXCEPT ![c][o] = IF o \in streamClosed[c] THEN @ ELSE @ + 1]
  /\ pump' = [pump EXCEPT ![t] = IF t = Pacer THEN "decide" ELSE "select"]
  /\ UNCHANGED <<opened, streamStarted, shutdownStarted, streamClosed, echoedMessages,
                 connVars, ctlVars, picked, workVars, mainVars, pacerVars,
                 quic, connectionGone, streamGone>>

\* A refused frame ends the pump and the connection.
SendFails(t) ==
  LET c == Target(t)
      o == picked[t] IN
  /\ pump[t] = "send"
  /\ MayFail(c) \/ o \in streamClosed[c]
  /\ nextSequence' = [nextSequence EXCEPT ![c][o] = @ + 1]
  /\ ShutDown(c)
  /\ Return(t)
  /\ UNCHANGED <<opened, streamStarted, shutdownStarted, streamClosed, echoedMessages,
                 connectionClosed, ctlVars, picked, stream, connectionGone, streamGone, accepted>>

\* Mutant: only the first stream is looked at.
FirstStreamDrained(c) ==
  \A o \in opened[c] \ streamClosed[c] : o = 0 => nextSequence[c][o] = echoedMessages[c][o]

AllStreamsDrained(c) ==
  \A o \in opened[c] \ streamClosed[c] : nextSequence[c][o] = echoedMessages[c][o]

\* After the loop: a drained connection of a stopped run shuts its streams down.
DecideShutdown(t) ==
  LET c == Target(t) IN
  /\ pump[t] = "decide"
  /\ IF stopSending /\ AllStreamsDrained(c)
     THEN /\ pump'   = [pump EXCEPT ![t] = "shut"]
          /\ picked' = [picked EXCEPT ![t] = 0]
          /\ UNCHANGED <<mutex, worker, mainVars, pacerVars>>
     ELSE /\ Return(t)
          /\ UNCHANGED picked
  /\ UNCHANGED <<streamVars, connectionClosed, ctlVars, stream, quicVars>>

\* Mutant: a stream the peer closed is shut down too.
NeedsShutdownOrGone(c, o) == o \in (opened[c] \cap streamStarted[c]) \ shutdownStarted[c]

NeedsShutdown(c, o) ==
  o \in (opened[c] \cap streamStarted[c]) \ (shutdownStarted[c] \cup streamClosed[c])

\* One stream of that loop: the test and StreamShutdown are one critical section
\* of the stream's mutex.
ShutdownStream(t) ==
  LET c == Target(t)
      o == picked[t] IN
  /\ pump[t] = "shut"
  /\ IF NeedsShutdown(c, o)
     THEN shutdownStarted' = [shutdownStarted EXCEPT ![c] = @ \cup {o}]
     ELSE UNCHANGED shutdownStarted
  /\ IF o + 1 < config.streams
     THEN /\ picked' = [picked EXCEPT ![t] = o + 1]
          /\ UNCHANGED <<pump, mutex, worker, mainVars, pacerVars>>
     ELSE /\ Return(t)
          /\ UNCHANGED picked
  /\ UNCHANGED <<opened, streamStarted, streamClosed, nextSequence, echoedMessages,
                 connectionClosed, ctlVars, stream, quic, connectionGone, streamGone, accepted>>

Pump(t) ==
  SelectStream(t) \/ SendFrame(t) \/ SendFails(t) \/ DecideShutdown(t) \/ ShutdownStream(t)

-----------------------------------------------------------------------------
(* The handlers of connection c: OnConnectionEvent and OnStreamEvent.      *)

\* The handler is in no event, and the client is there to be called.
Ready(c) == Running /\ worker[c] = "idle" /\ quic[c] \notin {"idle", "complete"}

\* CONNECTED: StartStreams, the opened streams being those before a failure.
OnConnected(c) ==
  /\ Ready(c) /\ quic[c] = "connecting" /\ CanLock(c)
  /\ \E n \in 0 .. config.streams :
       /\ opened' = [opened EXCEPT ![c] = 0 .. n - 1]
       /\ n < config.streams => config.faulty
       /\ quic' = [quic EXCEPT ![c] = IF n < config.streams THEN "shutdown" ELSE "connected"]
  /\ UNCHANGED <<streamStarted, shutdownStarted, streamClosed, nextSequence, echoedMessages,
                 connVars, ctlVars, pumpVars, workVars, mainVars, pacerVars,
                 connectionGone, streamGone, accepted>>

\* Mutant: the event handlers leave all pumps to the pacer.
PumpsInlineNever == FALSE

PumpsInline == ~config.paced

\* START_COMPLETE: a started stream may send at once.
OnStartComplete(c, o) ==
  /\ Ready(c) /\ o \in opened[c] \ streamStarted[c]
  /\ streamStarted' = [streamStarted EXCEPT ![c] = @ \cup {o}]
  /\ worker' = [worker EXCEPT ![c] = IF PumpsInline THEN "pump" ELSE "idle"]
  /\ UNCHANGED <<opened, shutdownStarted, streamClosed, nextSequence, echoedMessages,
                 connVars, ctlVars, pumpVars, stream, mainVars, pacerVars, quicVars>>

OnStartFailed(c, o) ==
  /\ Ready(c) /\ o \in opened[c] \ streamStarted[c]
  /\ quic[c] = "connected" /\ config.faulty
  /\ ShutDown(c)
  /\ UNCHANGED <<streamVars, connVars, ctlVars, pumpVars, workVars, mainVars, pacerVars,
                 connectionGone, streamGone, accepted>>

\* RECEIVE: k frames came back in one event.
OnReceive(c, o) ==
  /\ Ready(c) /\ o \in streamStarted[c] \ streamClosed[c]
  /\ \E k \in 1 .. accepted[c][o] - echoedMessages[c][o] :
       echoedMessages' = [echoedMessages EXCEPT ![c][o] = @ + k]
  /\ worker' = [worker EXCEPT ![c] = IF PumpsInline THEN "pump" ELSE "idle"]
  /\ UNCHANGED <<opened, streamStarted, shutdownStarted, streamClosed, nextSequence,
                 connVars, ctlVars, pumpVars, stream, mainVars, pacerVars, quicVars>>

\* START_COMPLETE and RECEIVE take the connection's mutex for their pump.
EnterPump(c) ==
  /\ worker[c] = "pump" /\ Lock(c)
  /\ worker' = [worker EXCEPT ![c] = "pumping"]
  /\ pump'   = [pump EXCEPT ![c] = "select"]
  /\ UNCHANGED <<streamVars, connectionClosed, ctlVars, picked, stream, mainVars, pacerVars,
                 quicVars>>

\* The SHUTDOWN_COMPLETE of a stream comes when the connection is shut down, when
\* both sides have finished, or when the peer aborts the stream.
StreamEnds(c, o) ==
  \/ quic[c] = "shutdown" \/ config.faulty
  \/ o \in shutdownStarted[c] /\ accepted[c][o] = echoedMessages[c][o]

OnStreamShutdownComplete(c, o) ==
  /\ Ready(c) /\ o \in streamStarted[c] \ streamClosed[c] /\ StreamEnds(c, o)
  /\ streamClosed' = [streamClosed EXCEPT ![c] = @ \cup {o}]
  /\ worker' = [worker EXCEPT ![c] = "streamClose"]
  /\ stream' = [stream EXCEPT ![c] = o]
  /\ UNCHANGED <<opened, streamStarted, shutdownStarted, nextSequence, echoedMessages,
                 connVars, ctlVars, pumpVars, mainVars, pacerVars, quicVars>>

StreamClose(c) ==
  /\ worker[c] = "streamClose"
  /\ streamGone' = [streamGone EXCEPT ![c] = @ \cup {stream[c]}]
  /\ worker' = [worker EXCEPT ![c] = "lastStream"]
  /\ UNCHANGED <<streamVars, connVars, ctlVars, pumpVars, stream, mainVars, pacerVars,
                 quic, connectionGone, accepted>>

AllStreamsClosed(c) == opened[c] \subseteq streamClosed[c]

\* The last closed stream takes the connection with it.
CloseAfterLast(c) ==
  /\ worker[c] = "lastStream" /\ CanLock(c)
  /\ worker' = [worker EXCEPT ![c] = "idle"]
  /\ IF AllStreamsClosed(c)
     THEN ShutDown(c)
     ELSE UNCHANGED quic
  /\ UNCHANGED <<streamVars, connVars, ctlVars, pumpVars, stream, mainVars, pacerVars,
                 connectionGone, streamGone, accepted>>

\* SHUTDOWN_COMPLETE of the connection, in four steps no mutex covers.
OnConnectionShutdownComplete(c) ==
  /\ Ready(c) /\ quic[c] = "shutdown" /\ streamStarted[c] \subseteq streamClosed[c]
  /\ quic' = [quic EXCEPT ![c] = "complete"]
  /\ connectionClosed' = [connectionClosed EXCEPT ![c] = TRUE]
  /\ worker' = [worker EXCEPT ![c] = "connectionClose"]
  /\ UNCHANGED <<streamVars, mutex, ctlVars, pumpVars, stream, mainVars, pacerVars,
                 connectionGone, streamGone, accepted>>

\* Mutant: the handle is left open.
ConnectionCloseForgotten(c) ==
  /\ worker[c] = "connectionClose"
  /\ worker' = [worker EXCEPT ![c] = "countDown"]
  /\ UNCHANGED <<streamVars, connVars, ctlVars, pumpVars, stream, mainVars, pacerVars, quicVars>>

ConnectionClose(c) ==
  /\ worker[c] = "connectionClose"
  /\ connectionGone' = [connectionGone EXCEPT ![c] = TRUE]
  /\ worker' = [worker EXCEPT ![c] = "countDown"]
  /\ UNCHANGED <<streamVars, connVars, ctlVars, pumpVars, stream, mainVars, pacerVars,
                 quic, streamGone, accepted>>

\* fetch_sub, and notify_all, without done_mutex_: Run may see the zero in between.
CountDown(c) ==
  /\ worker[c] = "countDown"
  /\ activeConnections' = activeConnections - 1
  /\ worker' = [worker EXCEPT ![c] = "notify"]
  /\ UNCHANGED <<streamVars, connVars, config, stopSending, pacerStop, gStopRequested,
                 pumpVars, stream, mainVars, pacerVars, quicVars>>

\* Run polls its condition every 200 ms, so no state depends on the wakeup.
NotifyAll(c) ==
  /\ worker[c] = "notify"
  /\ worker' = [worker EXCEPT ![c] = "idle"]
  /\ UNCHANGED <<streamVars, connVars, ctlVars, pumpVars, stream, mainVars, pacerVars, quicVars>>

Events(c) ==
  \/ OnConnected(c)
  \/ \E o \in Ordinals :
       OnStartComplete(c, o) \/ OnStartFailed(c, o) \/ OnReceive(c, o)
         \/ OnStreamShutdownComplete(c, o)
  \/ OnConnectionShutdownComplete(c)

Handler(c) ==
  /\ Running
  /\ \/ EnterPump(c) \/ Pump(c) \/ StreamClose(c) \/ CloseAfterLast(c)
     \/ ConnectionClose(c) \/ CountDown(c) \/ NotifyAll(c)

-----------------------------------------------------------------------------
(* PacerLoop.  A visit that finds nothing due, no window open and nothing  *)
(* to shut down leaves no trace, so it is no step here.                    *)

PacerHasWork(c) ==
  IF stopSending
  THEN AllStreamsDrained(c) /\ \E o \in Ordinals : NeedsShutdown(c, o)
  ELSE c \in config.senders /\ \E o \in Ordinals : Eligible(c, o)

\* PumpSends(connection, 1); a pass that has begun goes on after StopPacer.
PacerVisit ==
  /\ pacerPc = "loop"
  /\ \E c \in Conns :
       /\ mutex[c] = Nobody /\ PacerHasWork(c)
       /\ mutex' = [mutex EXCEPT ![c] = Pacer]
       /\ pacerConn' = c
  /\ pump' = [pump EXCEPT ![Pacer] = "select"]
  /\ pacerPc' = "pumping"
  /\ UNCHANGED <<streamVars, connectionClosed, ctlVars, picked, workVars, mainVars, quicVars>>

PacerEnds ==
  /\ pacerPc = "loop"
  /\ pacerStop \/ gStopRequested
  /\ pacerPc' = "done"
  /\ UNCHANGED <<streamVars, connVars, ctlVars, pumpVars, workVars, mainVars, pacerConn,
                 quicVars>>

PacerStep == PacerVisit \/ PacerEnds \/ Pump(Pacer)

-----------------------------------------------------------------------------
(* Run.                                                                    *)

\* StartConnections: a failure throws with the earlier connections alive.
StartConnection ==
  /\ mainPc = "start"
  /\ quic' = [quic EXCEPT ![mainConn] = "connecting"]
  /\ mainConn' = NextConn(mainConn)
  /\ mainPc'  = IF NextConn(mainConn) = 0 THEN "wait" ELSE "start"
  /\ pacerPc' = IF NextConn(mainConn) = 0 /\ config.paced THEN "loop" ELSE "off"
  /\ UNCHANGED <<streamVars, connVars, ctlVars, pumpVars, workVars, pacerConn,
                 connectionGone, streamGone, accepted>>

StartThrows ==
  /\ mainPc = "start" /\ config.faulty
  /\ mainPc' = "threw"
  /\ UNCHANGED <<streamVars, connVars, ctlVars, pumpVars, workVars, mainConn, pacerVars, quicVars>>

\* The deadline: stop_sending_.exchange(true), then every connection is told.
Deadline ==
  /\ mainPc = "wait" /\ ~gStopRequested /\ ~stopSending
  /\ stopSending' = TRUE
  /\ mainPc' = "stop"
  /\ UNCHANGED <<streamVars, connVars, config, activeConnections, pacerStop, gStopRequested,
                 pumpVars, workVars, mainConn, pacerVars, quicVars>>

\* RequestStopSending: a pump that sends nothing, or no streams and a shutdown.
RequestStopSending ==
  /\ mainPc = "stop" /\ CanLock(Main)
  /\ IF opened[mainConn] # {}
     THEN /\ Lock(Main)
          /\ pump' = [pump EXCEPT ![Main] = "decide"]
          /\ mainPc' = "stopping"
          /\ UNCHANGED <<mainConn, quic>>
     ELSE /\ ShutDown(mainConn)
          /\ mainConn' = NextConn(mainConn)
          /\ mainPc' = IF NextConn(mainConn) = 0 THEN "wait" ELSE "stop"
          /\ UNCHANGED <<mutex, pump>>
  /\ UNCHANGED <<streamVars, connectionClosed, ctlVars, picked, workVars, pacerVars,
                 connectionGone, streamGone, accepted>>

\* The wait loop ends on a signal, at the drain deadline, or with no connection left.
LeaveWait ==
  /\ mainPc = "wait"
  /\ gStopRequested \/ activeConnections = 0 \/ (stopSending /\ config.faulty)
  /\ mainPc' = "force"
  /\ UNCHANGED <<streamVars, connVars, ctlVars, pumpVars, workVars, mainConn, pacerVars, quicVars>>

\* ForceShutdown reads closed under the mutex, its writer does not take it.
ForceShutdown ==
  /\ mainPc = "force" /\ CanLock(Main)
  /\ IF ~connectionClosed[mainConn]
     THEN /\ Lock(Main)
          /\ mainPc' = "forcing"
          /\ UNCHANGED mainConn
     ELSE /\ mainConn' = NextConn(mainConn)
          /\ mainPc' = IF NextConn(mainConn) = 0 THEN "close" ELSE "force"
          /\ UNCHANGED mutex
  /\ UNCHANGED <<streamVars, connectionClosed, ctlVars, pumpVars, workVars, pacerVars, quicVars>>

ForceCall ==
  /\ mainPc = "forcing"
  /\ ShutDown(mainConn)
  /\ mutex' = [mutex EXCEPT ![mainConn] = Nobody]
  /\ mainConn' = NextConn(mainConn)
  /\ mainPc' = IF NextConn(mainConn) = 0 THEN "close" ELSE "force"
  /\ UNCHANGED <<streamVars, connectionClosed, ctlVars, pumpVars, workVars, pacerVars,
                 connectionGone, streamGone, accepted>>

\* Mutant: the wait has no limit.
GivesUpNever == FALSE

\* wait_for expires: possible when connections can fail to close.
GivesUp == config.faulty

\* WaitForConnectionsToClose gives up after five seconds; then StopPacer.
WaitForConnectionsToClose ==
  /\ mainPc = "close"
  /\ activeConnections = 0 \/ GivesUp
  /\ pacerStop' = TRUE
  /\ mainPc' = "join"
  /\ UNCHANGED <<streamVars, connVars, config, activeConnections, stopSending, gStopRequested,
                 pumpVars, workVars, mainConn, pacerVars, quicVars>>

JoinPacer ==
  /\ mainPc = "join" /\ pacerPc \in {"off", "done"}
  /\ mainPc' = "done"
  /\ UNCHANGED <<streamVars, connVars, ctlVars, pumpVars, workVars, mainConn, pacerVars, quicVars>>

MainStep ==
  \/ StartConnection \/ StartThrows \/ Deadline \/ RequestStopSending \/ Pump(Main)
  \/ LeaveWait \/ ForceShutdown \/ ForceCall \/ WaitForConnectionsToClose \/ JoinPacer

\* Peers and the network shut connections down; SignalHandler.
Disturb ==
  /\ Running /\ config.faulty
  /\ \/ /\ \E c \in Conns : quic[c] \in {"connecting", "connected"} /\ ShutDown(c)
        /\ UNCHANGED gStopRequested
     \/ /\ gStopRequested' = TRUE
        /\ UNCHANGED quic
  /\ UNCHANGED <<streamVars, connVars, config, activeConnections, stopSending, pacerStop,
                 pumpVars, workVars, mainVars, pacerVars, connectionGone, streamGone,
                 accepted>>

\* The program has ended.
Ended == ~Running /\ UNCHANGED vars

Next ==
  \/ \E c \in Conns : Events(c) \/ Handler(c)
  \/ PacerStep \/ MainStep \/ Disturb \/ Ended

Spec == Init /\ [][Next]_vars

\* Every thread goes on and gets a mutex that stays free: each pump that holds one
\* sends a frame or shuts a stream down.  A network without faults delivers every event.
FairSpec ==
  /\ Spec
  /\ WF_vars(MainStep) /\ WF_vars(PacerEnds) /\ WF_vars(PacerVisit \/ Pump(Pacer))
  /\ \A c \in Conns : WF_vars(Handler(c)) /\ WF_vars(~config.faulty /\ Events(c))

-----------------------------------------------------------------------------
(* Properties.                                                             *)

\* Every variable stays in its range; in particular activeConnections counts down
\* to zero and never below it.
TypeOK ==
  /\ config \in Configs
  /\ opened \in [Conns -> SUBSET Ordinals] /\ streamStarted \in [Conns -> SUBSET Ordinals]
  /\ shutdownStarted \in [Conns -> SUBSET Ordinals]
  /\ streamClosed \in [Conns -> SUBSET Ordinals] /\ streamGone \in [Conns -> SUBSET Ordinals]
  /\ nextSequence \in [Conns -> [Ordinals -> 0 .. MaxMessages]]
  /\ echoedMessages \in [Conns -> [Ordinals -> 0 .. MaxMessages]]
  /\ accepted \in [Conns -> [Ordinals -> 0 .. MaxMessages]]
  /\ mutex \in [Conns -> Threads \cup {Nobody}]
  /\ connectionClosed \in [Conns -> BOOLEAN] /\ connectionGone \in [Conns -> BOOLEAN]
  /\ activeConnections \in 0 .. config.clients
  /\ stopSending \in BOOLEAN /\ pacerStop \in BOOLEAN /\ gStopRequested \in BOOLEAN
  /\ pump \in [Threads -> {"idle", "select", "send", "decide", "shut"}]
  /\ picked \in [Threads -> Ordinals]
  /\ worker \in [Conns -> {"idle", "pump", "pumping", "streamClose", "lastStream",
                           "connectionClose", "countDown", "notify"}]
  /\ stream \in [Conns -> Ordinals]
  /\ mainPc \in {"start", "wait", "stop", "stopping", "force", "forcing", "close", "join",
                "done", "threw"}
  /\ mainConn \in Conns /\ pacerConn \in Conns
  /\ pacerPc \in {"off", "loop", "pumping", "done"}
  /\ quic \in [Conns -> {"idle", "connecting", "connected", "shutdown", "complete"}]

\* Handles are closed by event handlers while other threads hold pointers to them.
\* No event handler calls MsQuic on a closed handle, and no thread calls
\* StreamShutdown on one, whatever closes in between.  (The pacer's StreamSend, and
\* ConnectionShutdown from the pacer and from Run, have no such guarantee.)
OpenHandles ==
  /\ \A t \in Threads : LET c == Target(t) IN
       /\ (pump[t] = "shut" /\ NeedsShutdown(c, picked[t])) => picked[t] \notin streamGone[c]
       /\ (pump[t] = "send" /\ t # Pacer) =>
            picked[t] \notin streamGone[c] /\ ~connectionGone[c]
  /\ \A c \in Conns : worker[c] = "lastStream" => ~connectionGone[c]

\* A stream is shut down only once the run has stopped and every stream of its
\* connection has seen its last echo or is closed; nothing is sent afterwards.
CloseAfterDrain ==
  \A c \in Conns : shutdownStarted[c] # {} =>
    /\ stopSending
    /\ \A o \in opened[c] \ streamClosed[c] : nextSequence[c][o] = echoedMessages[c][o]

\* Without a pacer the event handlers keep every window full by themselves: when
\* the worker of a connection rests, no started stream could send one more.
WindowKeptFull ==
  \A c \in Conns \cap config.senders : \A o \in streamStarted[c] \ streamClosed[c] :
    (~config.paced /\ ~stopSending /\ worker[c] = "idle" /\ quic[c] = "connected") =>
      ~Eligible(c, o)

\* When Run returns with no connection counted as active, no handle is open, no
\* handler will touch a context again, and no thread is inside one or in a pump.
\* What may still run is the last line of a handler, its notify_all: done_cv_ is
\* used after Run has seen the zero, when the client may already be destroyed.
QuietAtEnd ==
  (mainPc = "done" /\ activeConnections = 0) => \A c \in 0 .. config.clients - 1 :
    /\ connectionGone[c] /\ streamGone[c] = streamStarted[c]
    /\ worker[c] \in {"idle", "notify"} /\ pump[c] = "idle" /\ mutex[c] = Nobody

\* Every stream of every connection is an echo session limited by its window, and
\* a connection that has begun to shut streams down with nothing in flight is done.
Session == INSTANCE EchoSession WITH
  Conns <- Conns, Ordinals <- Ordinals, Window <- [o \in Ordinals |-> MaxInflight],
  sent <- nextSequence, echoed <- echoedMessages, stopped <- stopSending,
  finished <- [c \in Conns |->
    shutdownStarted[c] # {} /\ \A o \in Ordinals : nextSequence[c][o] = echoedMessages[c][o]]
ImplementsEchoSession == Session!Spec

\* Run always returns.  Without faults it does so without any timeout: the deadline
\* stops the senders, every frame comes back, the streams close, the connections
\* close, and the last one lets Run go.
RunEnds ==
  <>(mainPc = "threw" \/ (mainPc = "done" /\ (config.faulty \/ \A c \in Conns :
       /\ nextSequence[c] = echoedMessages[c]
       /\ streamClosed[c] = opened[c])))

=============================================================================
