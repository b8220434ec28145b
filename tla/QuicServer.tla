------------------------------ MODULE QuicServer ------------------------------
(***************************************************************************)
(* The QUIC echo server: Server with the thread that executes Run, its     *)
(* listeners, and the ServerStreamContext of every stream a client opens.  *)
(*                                                                         *)
(* MsQuic is external and appears by its events.  The events of a stream   *)
(* come one at a time, but SEND_COMPLETE may come while RECEIVE is handing *)
(* frames to StreamSend: the context has a mutex for it.  Every frame that *)
(* StreamSend accepts completes, and SHUTDOWN_COMPLETE is the last event.  *)
(* Frames are counted; how they are cut out of bytes is in Framing.tla.    *)
(***************************************************************************)
EXTENDS Integers, FiniteSets

CONSTANTS
  ServerCount,  \* config_.server_count
  Conns,        \* the connections of clients
  StreamCount,  \* the streams a client opens on one connection
  MaxFrames     \* bound of the model on the frames of one stream

ASSUME ServerAssumption ==
  ServerCount \in Nat \ {0} /\ StreamCount \in Nat \ {0} /\ MaxFrames \in Nat

Listeners == 0 .. ServerCount - 1
Streams   == Conns \X (0 .. StreamCount - 1)

VARIABLES
  \* Run
  mainPc, listeners, gStopRequested,
  \* MsQuic: connections and streams
  quic, context,
  \* ServerStreamContext
  pendingSends, peerFinished, shutdownStarted,
  \* the RECEIVE handler: frames not yet handed to StreamSend
  handler, sends,
  \* frames that arrived, that StreamSend took, that it has not completed
  received, echoed, inFlight, refused

runVars   == <<mainPc, listeners, gStopRequested>>
quicVars  == <<quic, context>>
ctxVars   == <<pendingSends, peerFinished, shutdownStarted>>
recvVars  == <<handler, sends>>
countVars == <<received, echoed, inFlight, refused>>
vars == <<runVars, quicVars, ctxVars, recvVars, countVars>>

Init ==
  /\ mainPc = "listen" /\ listeners = {} /\ gStopRequested = FALSE
  /\ quic    = [c \in Conns |-> "none"]
  /\ context = [s \in Streams |-> "none"]
  /\ pendingSends    = [s \in Streams |-> 0]
  /\ peerFinished    = [s \in Streams |-> FALSE]
  /\ shutdownStarted = [s \in Streams |-> FALSE]
  /\ handler  = [s \in Streams |-> "idle"]
  /\ sends    = [s \in Streams |-> 0]
  /\ received = [s \in Streams |-> 0]
  /\ echoed   = [s \in Streams |-> 0]
  /\ inFlight = [s \in Streams |-> 0]
  /\ refused  = [s \in Streams |-> FALSE]

-----------------------------------------------------------------------------
(* Run.                                                                    *)

Enough(n) == n = ServerCount

\* StartListeners, one listener at a time; a failure throws.
StartListener ==
  /\ mainPc = "listen"
  /\ listeners' = listeners \cup {Cardinality(listeners)}
  /\ mainPc' = IF Enough(Cardinality(listeners) + 1) THEN "serve" ELSE "listen"
  /\ UNCHANGED <<gStopRequested, quicVars, ctxVars, recvVars, countVars>>

StartThrows ==
  /\ mainPc = "listen"
  /\ mainPc' = "destroy"
  /\ UNCHANGED <<listeners, gStopRequested, quicVars, ctxVars, recvVars, countVars>>

\* Mutant: only the first listener is closed.
ClosedFirst == 0 \notin listeners
ClosedAll == listeners = {}

\* After a signal the listeners are closed one by one, and Run returns.
CloseListener ==
  /\ mainPc = "serve" /\ gStopRequested
  /\ IF ClosedAll
     THEN mainPc' = "destroy" /\ UNCHANGED listeners
     ELSE /\ \E l \in listeners :
               /\ \A k \in listeners : l <= k
               /\ listeners' = listeners \ {l}
          /\ UNCHANGED mainPc
  /\ UNCHANGED <<gStopRequested, quicVars, ctxVars, recvVars, countVars>>

\* ~Registration: RegistrationClose waits until listeners and connections are closed.
\* Nobody closes the listeners that a failed StartListeners leaves behind.
RegistrationClose ==
  /\ mainPc = "destroy" /\ listeners = {}
  /\ \A c \in Conns : quic[c] \in {"none", "closed"}
  /\ mainPc' = "done"
  /\ UNCHANGED <<listeners, gStopRequested, quicVars, ctxVars, recvVars, countVars>>

SignalHandler ==
  /\ mainPc \in {"listen", "serve"} /\ ~gStopRequested
  /\ gStopRequested' = TRUE
  /\ UNCHANGED <<mainPc, listeners, quicVars, ctxVars, recvVars, countVars>>

-----------------------------------------------------------------------------
(* Connections: OnListenerEvent and OnConnectionEvent.                     *)

\* NEW_CONNECTION, CONNECTED: the callback handler is set; nothing is kept.
NewConnection(c) ==
  /\ listeners # {} /\ quic[c] = "none"
  /\ quic' = [quic EXCEPT ![c] = "open"]
  /\ UNCHANGED <<runVars, context, ctxVars, recvVars, countVars>>

\* The client, its timeouts or the network shut the connection down.
ConnectionShutsDown(c) ==
  /\ quic[c] = "open"
  /\ quic' = [quic EXCEPT ![c] = "shutdown"]
  /\ UNCHANGED <<runVars, context, ctxVars, recvVars, countVars>>

\* PEER_STREAM_STARTED allocates the context.
PeerStreamStarted(s) ==
  /\ quic[s[1]] = "open" /\ context[s] = "none"
  /\ context' = [context EXCEPT ![s] = "live"]
  /\ UNCHANGED <<runVars, quic, ctxVars, recvVars, countVars>>

\* SHUTDOWN_COMPLETE of a connection follows that of its streams.
ConnectionShutdownComplete(c) ==
  /\ quic[c] = "shutdown"
  /\ \A s \in Streams : s[1] = c => context[s] # "live"
  /\ quic' = [quic EXCEPT ![c] = "closed"]
  /\ UNCHANGED <<runVars, context, ctxVars, recvVars, countVars>>

-----------------------------------------------------------------------------
(* Streams: OnStreamEvent.                                                 *)

\* Mutant of MaybeShutdownStream: it does not wait for the completions.
MaybeShutdownEarly(s, finished, pending) ==
  shutdownStarted' = [shutdownStarted EXCEPT ![s] = @ \/ finished]

\* What MaybeShutdownStream does under the mutex, with the new values of
\* peer_finished and pending_sends.
MaybeShutdownStream(s, finished, pending) ==
  shutdownStarted' = [shutdownStarted EXCEPT ![s] = @ \/ (finished /\ pending = 0)]

\* RECEIVE, first part, under the mutex: the event completes k frames and may carry
\* the end of the stream.  An event that completes none leaves bytes behind.
OnReceive(s, k, fin) ==
  /\ context[s] = "live" /\ handler[s] = "idle" /\ ~peerFinished[s]
  /\ quic[s[1]] = "open" /\ received[s] + k <= MaxFrames
  /\ received' = [received EXCEPT ![s] = @ + k]
  /\ pendingSends' = [pendingSends EXCEPT ![s] = @ + k]
  /\ peerFinished' = [peerFinished EXCEPT ![s] = fin]
  /\ sends'   = [sends EXCEPT ![s] = k]
  /\ handler' = [handler EXCEPT ![s] = "sending"]
  /\ UNCHANGED <<runVars, quicVars, shutdownStarted, echoed, inFlight, refused>>

\* Second part, without the mutex: StreamSend takes a frame.
StreamSend(s) ==
  /\ handler[s] = "sending" /\ sends[s] > 0
  /\ sends'    = [sends EXCEPT ![s] = @ - 1]
  /\ echoed'   = [echoed EXCEPT ![s] = @ + 1]
  /\ inFlight' = [inFlight EXCEPT ![s] = @ + 1]
  /\ UNCHANGED <<runVars, quicVars, ctxVars, handler, received, refused>>

\* A refused frame ends the handler: the frames left are freed, pending_sends keeps
\* counting them.  MsQuic refuses when the stream or its connection is going down.
StreamSendFails(s) ==
  /\ handler[s] = "sending" /\ sends[s] > 0
  /\ refused' = [refused EXCEPT ![s] = TRUE]
  /\ sends'   = [sends EXCEPT ![s] = 0]
  /\ handler' = [handler EXCEPT ![s] = "idle"]
  /\ UNCHANGED <<runVars, quicVars, ctxVars, received, echoed, inFlight>>

\* Third part, under the mutex again.
ReceiveEnds(s) ==
  /\ handler[s] = "sending" /\ sends[s] = 0
  /\ handler' = [handler EXCEPT ![s] = "idle"]
  /\ MaybeShutdownStream(s, peerFinished[s], pendingSends[s])
  /\ UNCHANGED <<runVars, quicVars, pendingSends, peerFinished, sends, countVars>>

\* Mutant: completions are not counted.
DecrementNever(n) == n
Decrement(n) == IF n > 0 THEN n - 1 ELSE 0

\* Mutant: SEND_COMPLETE leaves the shutdown to the other events.
SendCompleteOnly(s) ==
  /\ context[s] = "live" /\ inFlight[s] > 0
  /\ inFlight' = [inFlight EXCEPT ![s] = @ - 1]
  /\ pendingSends' = [pendingSends EXCEPT ![s] = Decrement(@)]
  /\ UNCHANGED <<runVars, quicVars, peerFinished, shutdownStarted, recvVars, received,
                 echoed, refused>>

SendComplete(s) ==
  /\ context[s] = "live" /\ inFlight[s] > 0
  /\ inFlight' = [inFlight EXCEPT ![s] = @ - 1]
  /\ pendingSends' = [pendingSends EXCEPT ![s] = Decrement(@)]
  /\ MaybeShutdownStream(s, peerFinished[s], Decrement(pendingSends[s]))
  /\ UNCHANGED <<runVars, quicVars, peerFinished, recvVars, received, echoed, refused>>

\* PEER_SEND_SHUTDOWN: the end of the stream without frames.
PeerSendShutdown(s) ==
  /\ context[s] = "live" /\ handler[s] = "idle" /\ quic[s[1]] = "open"
  /\ peerFinished' = [peerFinished EXCEPT ![s] = TRUE]
  /\ MaybeShutdownStream(s, TRUE, pendingSends[s])
  /\ UNCHANGED <<runVars, quicVars, pendingSends, recvVars, countVars>>

\* SHUTDOWN_COMPLETE: both sides finished, or the stream or its connection is shut
\* down.  StreamClose, and the context is deleted.
StreamEnds(s) ==
  \/ quic[s[1]] = "shutdown" \/ refused[s]
  \/ peerFinished[s] /\ shutdownStarted[s]

StreamShutdownComplete(s) ==
  /\ context[s] = "live" /\ handler[s] = "idle" /\ inFlight[s] = 0 /\ StreamEnds(s)
  /\ context' = [context EXCEPT ![s] = "deleted"]
  /\ UNCHANGED <<runVars, quic, ctxVars, recvVars, countVars>>

HandlerStep(s) == StreamSend(s) \/ ReceiveEnds(s)

StreamStep(s) ==
  \/ PeerStreamStarted(s) \/ \E k \in 0 .. MaxFrames, fin \in BOOLEAN : OnReceive(s, k, fin)
  \/ HandlerStep(s) \/ StreamSendFails(s) \/ SendComplete(s) \/ PeerSendShutdown(s)
  \/ StreamShutdownComplete(s)

MainStep == StartListener \/ CloseListener \/ RegistrationClose

\* The process has ended, or waits in RegistrationClose.
Ended == mainPc \in {"destroy", "done"} /\ UNCHANGED vars

Next ==
  \/ MainStep \/ StartThrows \/ SignalHandler
  \/ \E c \in Conns :
       NewConnection(c) \/ ConnectionShutsDown(c) \/ ConnectionShutdownComplete(c)
  \/ \E s \in Streams : StreamStep(s)
  \/ Ended

Spec == Init /\ [][Next]_vars

\* Run goes on, handlers return, and MsQuic completes sends, streams and connections.
\* Clients go away at last when the server is to end; before that, nothing makes them.
FairSpec ==
  /\ Spec /\ WF_vars(MainStep)
  /\ \A c \in Conns :
       /\ WF_vars(mainPc = "destroy" /\ ConnectionShutsDown(c))
       /\ WF_vars(ConnectionShutdownComplete(c))
  /\ \A s \in Streams :
       WF_vars(HandlerStep(s)) /\ WF_vars(SendComplete(s)) /\ WF_vars(StreamShutdownComplete(s))

-----------------------------------------------------------------------------
(* Properties.                                                             *)

\* Every variable stays in its range.
TypeOK ==
  /\ mainPc \in {"listen", "serve", "destroy", "done"}
  /\ listeners \subseteq Listeners /\ gStopRequested \in BOOLEAN
  /\ quic \in [Conns -> {"none", "open", "shutdown", "closed"}]
  /\ context \in [Streams -> {"none", "live", "deleted"}]
  /\ pendingSends \in [Streams -> 0 .. MaxFrames] /\ sends \in [Streams -> 0 .. MaxFrames]
  /\ peerFinished \in [Streams -> BOOLEAN] /\ shutdownStarted \in [Streams -> BOOLEAN]
  /\ handler \in [Streams -> {"idle", "sending"}] /\ refused \in [Streams -> BOOLEAN]
  /\ received \in [Streams -> 0 .. MaxFrames] /\ echoed \in [Streams -> 0 .. MaxFrames]
  /\ inFlight \in [Streams -> 0 .. MaxFrames]

\* pending_sends counts exactly the frames between RECEIVE and SEND_COMPLETE, those
\* the handler still holds and those MsQuic holds, until a send is refused; from then
\* on it stays too high for a graceful shutdown.  And whichever of the three events
\* comes last, none leaves a finished stream open: at rest, a stream whose peer has
\* finished and whose echoes have completed is being shut down.
PendingDecides ==
  \A s \in Streams :
    /\ IF refused[s]
       THEN pendingSends[s] > sends[s] + inFlight[s] /\ ~shutdownStarted[s]
       ELSE pendingSends[s] = sends[s] + inFlight[s]
    /\ (handler[s] = "idle" /\ peerFinished[s] /\ pendingSends[s] = 0) => shutdownStarted[s]

\* The server is an echo peer on every stream.
Peer == INSTANCE EchoPeer WITH
  Streams <- Streams, Bursts <- 0 .. MaxFrames, received <- received, echoed <- echoed,
  finIn <- peerFinished, finOut <- shutdownStarted
ImplementsEchoPeer == Peer!Spec

\* A stream whose peer finished is shut down and its context freed by itself, with
\* the connection still open, unless a send was refused.
StreamsFinish ==
  \A s \in Streams :
    (peerFinished[s] /\ quic[s[1]] = "open") ~>
      (context[s] = "deleted" \/ refused[s] \/ quic[s[1]] # "open")

\* A signal ends a server that serves: it closes its listeners and waits for the
\* last connection, whose streams free their contexts first.
SignalEndsServer ==
  (mainPc = "serve" /\ gStopRequested) ~>
    (mainPc = "done" /\ \A s \in Streams : context[s] # "live")

=============================================================================
