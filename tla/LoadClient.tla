------------------------------ MODULE LoadClient ------------------------------
(***************************************************************************)
(* The SCTP load client: LoadClientController with the thread that runs    *)
(* SctpClient::Run, the pacer thread, and the receive threads of the plain *)
(* SCTP transport.  PumpSends is called by all of them; it holds mutex_    *)
(* while it picks frames and hands them to the connection after unlocking. *)
(*                                                                         *)
(* A frame is its stream ordinal and its sequence number.  The send thread *)
(* of a connection and the wire appear by their effects: a frame accepted  *)
(* by SendCopy may come back, a send may fail, and the peer may close once *)
(* the write side is shut down (SctpConnection.tla has the send queue).    *)
(* Clocks are nondeterministic: a paced slot is due or it is not.          *)
(***************************************************************************)
EXTENDS Integers, Sequences, FiniteSets

CONSTANTS
  ClientCount,      \* config_.client_count
  ServerCount,      \* config_.server_count
  SendServerIndex,  \* config_.send_server_index, -1 for every connection
  StreamCount,      \* config_.stream_count
  MaxInflight,      \* MaxInflight[o]: max_inflight of the profile of ordinal o
  PacingMode,       \* the result of DeterminePacingMode
  ProfilePps,       \* the ordinals whose profile has send_pps > 0
  MaxMessages       \* bound of the model on the frames of one stream

Conns    == 0 .. ClientCount - 1
Ordinals == 0 .. StreamCount - 1

\* The receive thread of connection c is thread c.
Main    == -1
Pacer   == -2
Nobody  == -3
Threads == Conns \cup {Main, Pacer}

ASSUME CountsAssumption ==
  /\ ClientCount \in Nat \ {0} /\ ServerCount \in Nat \ {0}
  /\ StreamCount \in Nat \ {0} /\ MaxMessages \in Nat
  /\ SendServerIndex \in -1 .. ServerCount - 1

\* LoadConfig rejects profile rates next to a global or a per-client rate.
ASSUME ProfilesAssumption ==
  /\ MaxInflight \in [Ordinals -> Nat \ {0}]
  /\ PacingMode \in {"Unlimited", "TotalPps", "PerClientPps"}
  /\ ProfilePps \subseteq Ordinals
  /\ ProfilePps # {} => PacingMode = "Unlimited"

Paced == PacingMode # "Unlimited" \/ ProfilePps # {}

ShouldSendOnConnection(c) ==
  SendServerIndex < 0 \/ c % ServerCount = SendServerIndex

\* The default profile has send_pps = send_pps_per_client.
RatedStreams == IF PacingMode = "PerClientPps" THEN Ordinals ELSE ProfilePps

\* Mutant: receive threads never pump.
PumpsInlineNever == FALSE

\* OnConnected and OnData call PumpSends themselves when nothing is paced.
PumpsInline == ~Paced

Frames == [ordinal : Ordinals, sequence : Nat]

VARIABLES
  \* LoadClientConnectionState and LoadClientStreamState
  connected, sendClosed, nextOrdinal, nextSequence, echoedMessages,
  \* LoadClientController
  mutex, stopSending, closedConnections, pacerStop,
  \* SctpConnection: accepted[c][o] counts the frames SendCopy queued
  accepted, closeRequested, closed, senderPc, recvPc,
  \* the PumpSends call each thread is in
  phase, batch, closing,
  \* SctpClient::Run
  mainPc, mainConn,
  \* PacerLoop: the pass goes through pacerLeft more connections
  pacerPc, pacerConn, pacerLeft, pacerDraining, pacerSent, nextPaced,
  gStopRequested

stateVars  == <<connected, sendClosed, nextOrdinal, nextSequence, echoedMessages>>
streamVars == <<nextSequence, echoedMessages>>
connVars   == <<accepted, closeRequested, closed, senderPc, recvPc>>
pumpVars   == <<phase, batch, closing>>
mainVars   == <<mainPc, mainConn>>
pacerVars  == <<pacerPc, pacerConn, pacerLeft, pacerDraining, pacerSent, nextPaced>>
ctlVars    == <<mutex, stopSending, closedConnections, pacerStop, gStopRequested>>
vars == <<stateVars, connVars, pumpVars, mainVars, pacerVars, ctlVars>>

Init ==
  /\ connected      = [c \in Conns |-> FALSE]
  /\ sendClosed     = [c \in Conns |-> FALSE]
  /\ nextOrdinal    = [c \in Conns |-> 0]
  /\ nextSequence   = [c \in Conns |-> [o \in Ordinals |-> 0]]
  /\ echoedMessages = [c \in Conns |-> [o \in Ordinals |-> 0]]
  /\ mutex = Nobody /\ stopSending = FALSE /\ closedConnections = {}
  /\ pacerStop = FALSE /\ gStopRequested = FALSE
  /\ accepted       = [c \in Conns |-> [o \in Ordinals |-> 0]]
  /\ closeRequested = [c \in Conns |-> FALSE]
  /\ closed         = [c \in Conns |-> FALSE]
  /\ senderPc       = [c \in Conns |-> "off"]
  /\ recvPc         = [c \in Conns |-> "off"]
  /\ phase   = [t \in Threads |-> "idle"]
  /\ batch   = [t \in Threads |-> <<>>]
  /\ closing = [t \in Threads |-> FALSE]
  /\ mainPc = "connect" /\ mainConn = 0
  /\ pacerPc = "off" /\ pacerConn = 0 /\ pacerLeft = 0
  /\ pacerDraining = FALSE /\ pacerSent = FALSE /\ nextPaced = 0

-----------------------------------------------------------------------------
(* PumpSends(connection_id, max_messages), as thread t executes it.        *)

Target(t) == IF t = Main THEN mainConn ELSE IF t = Pacer THEN pacerConn ELSE t

\* RequestStopSending and a draining pass pass 0, a paced pass 1, the others no limit.
BelowLimit(t) ==
  CASE t = Main  -> mainPc = "greet"
    [] t = Pacer -> ~pacerDraining /\ batch[t] = <<>>
    [] OTHER     -> TRUE

CallPumpSends(t) == phase' = [phase EXCEPT ![t] = "lock"]

\* Mutant: one frame too many.
WindowOpenByOne(c, o) ==
  /\ nextSequence[c][o] - echoedMessages[c][o] <= MaxInflight[o]
  /\ nextSequence[c][o] < MaxMessages

WindowOpen(c, o) ==
  /\ nextSequence[c][o] - echoedMessages[c][o] < MaxInflight[o]
  /\ nextSequence[c][o] < MaxMessages

\* Ordinals are tried in rotation: how many attempts come before o.
Attempt(c, o) ==
  IF o >= nextOrdinal[c] THEN o - nextOrdinal[c] ELSE o + StreamCount - nextOrdinal[c]

\* The first ordinal with an open window, but a stream with a rate may not be due.
Selectable(c, o) ==
  /\ WindowOpen(c, o)
  /\ \A p \in Ordinals :
       Attempt(c, p) < Attempt(c, o) => ~WindowOpen(c, p) \/ p \in RatedStreams

\* Mutant: the rotation does not wrap.
NextOrdinalUnwrapped(o) == o + 1

NextOrdinal(o) == IF o + 1 = StreamCount THEN 0 ELSE o + 1

\* Mutant: drained means handed over, not echoed.
AllStreamsHandedOver(c) ==
  \A o \in Ordinals : nextSequence[c][o] = accepted[c][o]

AllStreamsDrained(c) ==
  \A o \in Ordinals : nextSequence[c][o] = echoedMessages[c][o]

PumpRefused(t) ==
  /\ phase[t] = "lock" /\ mutex = Nobody
  /\ ~connected[Target(t)] \/ sendClosed[Target(t)]
  /\ phase' = [phase EXCEPT ![t] = "idle"]
  /\ UNCHANGED <<stateVars, connVars, batch, closing, mainVars, pacerVars, ctlVars>>

PumpEnter(t) ==
  /\ phase[t] = "lock" /\ mutex = Nobody
  /\ connected[Target(t)] /\ ~sendClosed[Target(t)]
  /\ phase' = [phase EXCEPT ![t] = "fill"]
  /\ mutex' = t
  /\ UNCHANGED <<stateVars, connVars, batch, closing, mainVars, pacerVars,
                 stopSending, closedConnections, pacerStop, gStopRequested>>

\* One turn of the loop that selects a stream and builds its next frame.  A
\* per-client slot that is not due ends the loop instead (PumpFilled).
PumpSelect(t) ==
  LET c == Target(t) IN
  /\ phase[t] = "fill"
  /\ ShouldSendOnConnection(c) /\ BelowLimit(t) /\ ~stopSending
  /\ \E o \in Ordinals :
       /\ Selectable(c, o)
       /\ batch' = [batch EXCEPT
            ![t] = Append(@, [ordinal |-> o, sequence |-> nextSequence[c][o]])]
       /\ nextSequence' = [nextSequence EXCEPT ![c][o] = @ + 1]
       /\ nextOrdinal' = [nextOrdinal EXCEPT ![c] = NextOrdinal(o)]
  /\ pacerSent' = (pacerSent \/ t = Pacer)
  /\ UNCHANGED <<connected, sendClosed, echoedMessages, connVars, phase, closing, mainVars,
                 pacerPc, pacerConn, pacerLeft, pacerDraining, nextPaced, ctlVars>>

PumpFilled(t) ==
  LET c == Target(t) IN
  /\ phase[t] = "fill"
  /\ \/ ~ShouldSendOnConnection(c) \/ ~BelowLimit(t) \/ stopSending
     \/ PacingMode = "PerClientPps"
     \/ \A o \in Ordinals : ~WindowOpen(c, o) \/ o \in RatedStreams
  /\ phase' = [phase EXCEPT ![t] = "decide"]
  /\ UNCHANGED <<stateVars, connVars, batch, closing, mainVars, pacerVars, ctlVars>>

\* Mutant: nothing to send, so PumpSends returns, and the decision is lost.
PumpDecideReturnsEarly(t) ==
  LET c == Target(t)
      close == stopSending /\ AllStreamsDrained(c) IN
  /\ phase[t] = "decide"
  /\ sendClosed' = [sendClosed EXCEPT ![c] = @ \/ close]
  /\ closing' = [closing EXCEPT ![t] = close /\ batch[t] # <<>>]
  /\ phase' = [phase EXCEPT ![t] = IF batch[t] = <<>> THEN "idle" ELSE "send"]
  /\ mutex' = Nobody
  /\ UNCHANGED <<connected, nextOrdinal, streamVars, connVars, batch, mainVars, pacerVars,
                 stopSending, closedConnections, pacerStop, gStopRequested>>

\* stop_sending_ is read again: the last look at the state before the unlock.
PumpDecide(t) ==
  LET c == Target(t)
      close == stopSending /\ AllStreamsDrained(c) /\ ~sendClosed[c] IN
  /\ phase[t] = "decide"
  /\ sendClosed' = [sendClosed EXCEPT ![c] = @ \/ close]
  /\ closing' = [closing EXCEPT ![t] = close]
  /\ phase' = [phase EXCEPT ![t] = "send"]
  /\ mutex' = Nobody
  /\ UNCHANGED <<connected, nextOrdinal, streamVars, connVars, batch, mainVars, pacerVars,
                 stopSending, closedConnections, pacerStop, gStopRequested>>

\* Mutant: the batch is a stack.
PumpSendBackwards(t) ==
  LET c == Target(t)  n == Len(batch[t]) IN
  /\ phase[t] = "send" /\ batch[t] # <<>>
  /\ accepted' = IF closed[c] THEN accepted
                 ELSE [accepted EXCEPT ![c][batch[t][n].ordinal] = @ + 1]
  /\ batch' = [batch EXCEPT ![t] = SubSeq(@, 1, n - 1)]
  /\ UNCHANGED <<stateVars, closeRequested, closed, senderPc, recvPc, phase, closing,
                 mainVars, pacerVars, ctlVars>>

\* SendCopy of one frame, without mutex_: a closed connection drops it silently.
PumpSend(t) ==
  LET c == Target(t) IN
  /\ phase[t] = "send" /\ batch[t] # <<>>
  /\ accepted' = IF closed[c] THEN accepted
                 ELSE [accepted EXCEPT ![c][Head(batch[t]).ordinal] = @ + 1]
  /\ batch' = [batch EXCEPT ![t] = Tail(@)]
  /\ UNCHANGED <<stateVars, closeRequested, closed, senderPc, recvPc, phase, closing,
                 mainVars, pacerVars, ctlVars>>

\* CloseSend if it was decided (nothing once the fd is closed), then the return.
PumpReturn(t) ==
  LET c == Target(t) IN
  /\ phase[t] = "send" /\ batch[t] = <<>>
  /\ closeRequested' = [closeRequested EXCEPT ![c] = @ \/ (closing[t] /\ ~closed[c])]
  /\ closing' = [closing EXCEPT ![t] = FALSE]
  /\ phase' = [phase EXCEPT ![t] = "idle"]
  /\ UNCHANGED <<stateVars, accepted, closed, senderPc, recvPc, batch,
                 mainVars, pacerVars, ctlVars>>

-----------------------------------------------------------------------------
(* The receive thread of connection c, and what its send thread can do.    *)

RecvCheck(c) ==
  /\ recvPc[c] = "check"
  /\ recvPc' = [recvPc EXCEPT ![c] = IF closed[c] \/ gStopRequested THEN "ending" ELSE "recv"]
  /\ UNCHANGED <<stateVars, accepted, closeRequested, closed, senderPc, pumpVars,
                 mainVars, pacerVars, ctlVars>>

\* Echoes are on their way: recvmsg returns some of their bytes.
RecvBytes(c) ==
  /\ recvPc[c] = "recv"
  /\ \E o \in Ordinals : echoedMessages[c][o] < accepted[c][o]
  /\ recvPc' = [recvPc EXCEPT ![c] = "bytes"]
  /\ UNCHANGED <<stateVars, accepted, closeRequested, closed, senderPc, pumpVars,
                 mainVars, pacerVars, ctlVars>>

\* OnData: the bytes belong to stream o and complete k frames (k = 0: a
\* fragment).  A paced client leaves sending to its pacer.
OnData(c, o, k) ==
  /\ recvPc[c] = "bytes" /\ mutex = Nobody
  /\ echoedMessages[c][o] < accepted[c][o]
  /\ echoedMessages[c][o] + k <= accepted[c][o]
  /\ echoedMessages' = [echoedMessages EXCEPT ![c][o] = @ + k]
  /\ IF PumpsInline
       THEN recvPc' = [recvPc EXCEPT ![c] = "data"] /\ CallPumpSends(c)
       ELSE recvPc' = [recvPc EXCEPT ![c] = "check"] /\ UNCHANGED phase
  /\ UNCHANGED <<connected, sendClosed, nextOrdinal, nextSequence, accepted, closeRequested,
                 closed, senderPc, batch, closing, mainVars, pacerVars, ctlVars>>

OnDataReturns(c) ==
  /\ recvPc[c] = "data" /\ phase[c] = "idle"
  /\ recvPc' = [recvPc EXCEPT ![c] = "check"]
  /\ UNCHANGED <<stateVars, accepted, closeRequested, closed, senderPc, pumpVars,
                 mainVars, pacerVars, ctlVars>>

\* The 200 ms of SO_RCVTIMEO pass, or recvmsg is interrupted.
RecvTimeout(c) ==
  /\ recvPc[c] = "recv"
  /\ recvPc' = [recvPc EXCEPT ![c] = "check"]
  /\ UNCHANGED <<stateVars, accepted, closeRequested, closed, senderPc, pumpVars,
                 mainVars, pacerVars, ctlVars>>

\* The peer closes after the last echo once SHUT_WR was sent; OnPeerClosed is empty.
RecvPeerClosed(c) ==
  /\ recvPc[c] = "recv" /\ closeRequested[c] /\ senderPc[c] = "done"
  /\ echoedMessages[c] = accepted[c]
  /\ recvPc' = [recvPc EXCEPT ![c] = "ending"]
  /\ UNCHANGED <<stateVars, accepted, closeRequested, closed, senderPc, pumpVars,
                 mainVars, pacerVars, ctlVars>>

\* recvmsg fails.
RecvFails(c) ==
  /\ recvPc[c] = "recv"
  /\ recvPc' = [recvPc EXCEPT ![c] = "ending"]
  /\ UNCHANGED <<stateVars, accepted, closeRequested, closed, senderPc, pumpVars,
                 mainVars, pacerVars, ctlVars>>

\* OnData of bytes that are foreign after k frames: those are counted, then
\* TryPeekFrameSize throws, past the PumpSends of this call.
OnDataThrows(c, o, k) ==
  /\ recvPc[c] \in {"recv", "bytes"} /\ mutex = Nobody
  /\ echoedMessages[c][o] + k <= accepted[c][o]
  /\ echoedMessages' = [echoedMessages EXCEPT ![c][o] = @ + k]
  /\ recvPc' = [recvPc EXCEPT ![c] = "ending"]
  /\ UNCHANGED <<connected, sendClosed, nextOrdinal, nextSequence, accepted, closeRequested,
                 closed, senderPc, pumpVars, mainVars, pacerVars, ctlVars>>

RecvClose(c) ==
  /\ recvPc[c] = "ending"
  /\ closed' = [closed EXCEPT ![c] = TRUE]
  /\ recvPc' = [recvPc EXCEPT ![c] = "notify"]
  /\ UNCHANGED <<stateVars, accepted, closeRequested, senderPc, pumpVars,
                 mainVars, pacerVars, ctlVars>>

RecvOnClosed(c) ==
  /\ recvPc[c] = "notify" /\ mutex = Nobody
  /\ closedConnections' = closedConnections \cup {c}
  /\ recvPc' = [recvPc EXCEPT ![c] = "done"]
  /\ UNCHANGED <<stateVars, accepted, closeRequested, closed, senderPc, pumpVars,
                 mainVars, pacerVars, mutex, stopSending, pacerStop, gStopRequested>>

\* sendmsg fails while frames are outstanding: the send thread closes the connection.
SenderFails(c) ==
  /\ senderPc[c] = "run"
  /\ \E o \in Ordinals : echoedMessages[c][o] < accepted[c][o]
  /\ closed' = [closed EXCEPT ![c] = TRUE]
  /\ senderPc' = [senderPc EXCEPT ![c] = "notify"]
  /\ UNCHANGED <<stateVars, accepted, closeRequested, recvPc, pumpVars,
                 mainVars, pacerVars, ctlVars>>

SenderOnClosed(c) ==
  /\ senderPc[c] = "notify" /\ mutex = Nobody
  /\ closedConnections' = closedConnections \cup {c}
  /\ senderPc' = [senderPc EXCEPT ![c] = "done"]
  /\ UNCHANGED <<stateVars, accepted, closeRequested, closed, recvPc, pumpVars,
                 mainVars, pacerVars, mutex, stopSending, pacerStop, gStopRequested>>

SenderExits(c) ==
  /\ senderPc[c] = "run"
  /\ closed[c] \/ closeRequested[c] \/ gStopRequested
  /\ senderPc' = [senderPc EXCEPT ![c] = "done"]
  /\ UNCHANGED <<stateVars, accepted, closeRequested, closed, recvPc, pumpVars,
                 mainVars, pacerVars, ctlVars>>

-----------------------------------------------------------------------------
(* The thread in SctpClient::Run.                                          *)

\* SctpClientTransport::Start connects mainConn and calls OnConnected.
MainConnect ==
  /\ mainPc = "connect" /\ mainConn < ClientCount /\ mutex = Nobody
  /\ connected' = [connected EXCEPT ![mainConn] = TRUE]
  /\ mainPc' = "greet"
  /\ IF PumpsInline THEN CallPumpSends(Main) ELSE UNCHANGED phase
  /\ UNCHANGED <<sendClosed, nextOrdinal, streamVars, connVars, batch, closing, mainConn,
                 pacerVars, ctlVars>>

\* OnConnected returned: StartReceiveLoop.
MainStartReceive ==
  /\ mainPc = "greet" /\ phase[Main] = "idle"
  /\ recvPc' = [recvPc EXCEPT ![mainConn] = "check"]
  /\ senderPc' = [senderPc EXCEPT ![mainConn] = "run"]
  /\ mainConn' = mainConn + 1
  /\ mainPc' = "connect"
  /\ UNCHANGED <<stateVars, accepted, closeRequested, closed, pumpVars, pacerVars, ctlVars>>

\* connect or a socket call throws out of Start: ~SctpClientTransport runs Stop.
MainConnectFails ==
  /\ mainPc = "connect" /\ mainConn < ClientCount
  /\ mainPc' = "stop" /\ mainConn' = 0
  /\ UNCHANGED <<stateVars, connVars, pumpVars, pacerVars, ctlVars>>

MainStartPacer ==
  /\ mainPc = "connect" /\ mainConn = ClientCount
  /\ pacerPc' = IF Paced THEN "top" ELSE "off"
  /\ mainPc' = "wait" /\ mainConn' = 0
  /\ UNCHANGED <<stateVars, connVars, pumpVars, pacerConn, pacerLeft, pacerDraining,
                 pacerSent, nextPaced, ctlVars>>

\* The duration is over: RequestStopSending stores the flag, without mutex_ ...
MainDeadline ==
  /\ mainPc = "wait" /\ ~stopSending
  /\ stopSending' = TRUE
  /\ mainPc' = "stopping" /\ mainConn' = 0
  /\ CallPumpSends(Main)
  /\ UNCHANGED <<stateVars, connVars, batch, closing, pacerVars,
                 mutex, closedConnections, pacerStop, gStopRequested>>

\* Mutant: the loop over the connections ends one too early.
OneBeforeLast(c) == c + 2 >= ClientCount

LastConn(c) == c + 1 = ClientCount

\* ... and calls PumpSends(id, 0) for every connection.
MainNextStopped ==
  /\ mainPc = "stopping" /\ phase[Main] = "idle"
  /\ IF LastConn(mainConn)
       THEN mainPc' = "wait" /\ mainConn' = 0 /\ UNCHANGED phase
       ELSE /\ mainConn' = mainConn + 1
            /\ CallPumpSends(Main)
            /\ UNCHANGED mainPc
  /\ UNCHANGED <<stateVars, connVars, batch, closing, pacerVars, ctlVars>>

WaitUntilDone == mutex = Nobody /\ Cardinality(closedConnections) >= ClientCount

\* Mutant: the drain deadline is not looked at.
LoopEndsUndrained == gStopRequested \/ WaitUntilDone

\* A signal, the drain deadline (never before the deadline), or WaitUntilDone.
LoopEnds == gStopRequested \/ stopSending \/ WaitUntilDone

MainLeaves ==
  /\ mainPc = "wait" /\ LoopEnds
  /\ mainPc' = "force" /\ mainConn' = 0
  /\ UNCHANGED <<stateVars, connVars, pumpVars, pacerVars, ctlVars>>

\* ForceShutdownAll ("force", which lists them under mutex_ first) and
\* SctpClientTransport::Stop ("stop") Close each one.
MainClose ==
  /\ mainPc \in {"force", "stop"} /\ mainConn < ClientCount
  /\ mainPc = "force" /\ mainConn = 0 => mutex = Nobody
  /\ closed' = [closed EXCEPT ![mainConn] = @ \/ connected[mainConn]]
  /\ mainConn' = mainConn + 1
  /\ UNCHANGED <<stateVars, accepted, closeRequested, senderPc, recvPc, pumpVars, mainPc,
                 pacerVars, ctlVars>>

MainAllClosed ==
  /\ mainPc \in {"force", "stop"} /\ mainConn = ClientCount
  /\ mainPc' = IF mainPc = "force" THEN "stop" ELSE "join"
  /\ mainConn' = 0
  /\ UNCHANGED <<stateVars, connVars, pumpVars, pacerVars, ctlVars>>

\* Mutant: only the send thread is joined.
ThreadsEndedButOne(c) == senderPc[c] \in {"off", "done"}

ThreadsEnded(c) == recvPc[c] \in {"off", "done"} /\ senderPc[c] \in {"off", "done"}

MainJoin ==
  /\ mainPc = "join" /\ mainConn < ClientCount /\ ThreadsEnded(mainConn)
  /\ mainConn' = mainConn + 1
  /\ UNCHANGED <<stateVars, connVars, pumpVars, mainPc, pacerVars, ctlVars>>

MainStopPacer ==
  /\ mainPc = "join" /\ mainConn = ClientCount
  /\ pacerStop' = TRUE
  /\ mainPc' = "stopPacer"
  /\ UNCHANGED <<stateVars, connVars, pumpVars, mainConn, pacerVars,
                 mutex, stopSending, closedConnections, gStopRequested>>

\* The pacer is joined, the summary printed.
MainDone ==
  /\ mainPc = "stopPacer" /\ pacerPc \in {"off", "done"}
  /\ mainPc' = "done"
  /\ UNCHANGED <<stateVars, connVars, pumpVars, mainConn, pacerVars, ctlVars>>

SignalHandler ==
  /\ ~gStopRequested
  /\ gStopRequested' = TRUE
  /\ UNCHANGED <<stateVars, connVars, pumpVars, mainVars, pacerVars,
                 mutex, stopSending, closedConnections, pacerStop>>

-----------------------------------------------------------------------------
(* The pacer thread.                                                       *)

\* Mutant: the pacer has nothing to do after the stop.
PacerEndsAtStop == pacerStop \/ gStopRequested \/ stopSending

PacerEnds == pacerStop \/ gStopRequested

PacerExits ==
  /\ pacerPc = "top" /\ PacerEnds
  /\ pacerPc' = "done"
  /\ UNCHANGED <<stateVars, connVars, pumpVars, mainVars, pacerConn, pacerLeft, pacerDraining,
                 pacerSent, nextPaced, ctlVars>>

\* A pass over all connections: from the first one to close them once sending
\* stopped, else from next_paced_connection_index_.
PacerPass ==
  /\ pacerPc = "top" /\ ~PacerEnds /\ mutex = Nobody
  /\ pacerPc' = "step" /\ pacerLeft' = ClientCount
  /\ pacerDraining' = stopSending
  /\ pacerConn' = IF stopSending THEN 0 ELSE nextPaced
  /\ UNCHANGED <<stateVars, connVars, pumpVars, mainVars, pacerSent, nextPaced, ctlVars>>

MaySendPacedMessage(c) ==
  PacingMode = "PerClientPps" => connected[c] /\ ~sendClosed[c] /\ ShouldSendOnConnection(c)

PacerCalls ==
  /\ pacerPc = "step" /\ pacerLeft > 0
  /\ pacerDraining \/ MaySendPacedMessage(pacerConn)
  /\ ~pacerDraining /\ PacingMode = "PerClientPps" => mutex = Nobody
  /\ pacerPc' = "pump"
  /\ CallPumpSends(Pacer)
  /\ UNCHANGED <<stateVars, connVars, batch, closing, mainVars, pacerConn, pacerLeft,
                 pacerDraining, pacerSent, nextPaced, ctlVars>>

NextConn(c) == IF c + 1 = ClientCount THEN 0 ELSE c + 1

\* MaySendPacedMessage refused: no slot is due, or the connection does not send.
PacerSkips ==
  /\ pacerPc = "step" /\ pacerLeft > 0
  /\ ~pacerDraining /\ PacingMode = "PerClientPps" /\ mutex = Nobody
  /\ pacerConn' = NextConn(pacerConn) /\ pacerLeft' = pacerLeft - 1
  /\ UNCHANGED <<stateVars, connVars, pumpVars, mainVars, pacerPc, pacerDraining, pacerSent,
                 nextPaced, ctlVars>>

\* PumpSends returned: a message of the total rate ends the pass.
PacerReturns ==
  /\ pacerPc = "pump" /\ phase[Pacer] = "idle"
  /\ pacerPc' = "step"
  /\ nextPaced' = IF pacerSent THEN NextConn(pacerConn) ELSE nextPaced
  /\ pacerConn' = NextConn(pacerConn)
  /\ pacerLeft' = IF pacerSent /\ PacingMode = "TotalPps" THEN 0 ELSE pacerLeft - 1
  /\ pacerSent' = FALSE
  /\ UNCHANGED <<stateVars, connVars, pumpVars, mainVars, pacerDraining, ctlVars>>

\* The locals of the pass die with it.
PacerPassEnds ==
  /\ pacerPc = "step" /\ pacerLeft = 0
  /\ pacerPc' = "top"
  /\ pacerConn' = 0 /\ pacerDraining' = FALSE /\ pacerSent' = FALSE
  /\ UNCHANGED <<stateVars, connVars, pumpVars, mainVars, pacerLeft, nextPaced, ctlVars>>

-----------------------------------------------------------------------------
PumpStep(t) ==
  PumpRefused(t) \/ PumpEnter(t) \/ PumpSelect(t) \/ PumpFilled(t)
    \/ PumpDecide(t) \/ PumpSend(t) \/ PumpReturn(t)

RecvStep(c) ==
  \/ RecvCheck(c) \/ RecvBytes(c) \/ OnDataReturns(c) \/ RecvTimeout(c)
  \/ RecvPeerClosed(c) \/ RecvClose(c) \/ RecvOnClosed(c)
  \/ \E o \in Ordinals, k \in 0 .. MaxMessages : OnData(c, o, k)

SenderStep(c) == SenderOnClosed(c) \/ SenderExits(c)

MainStep ==
  \/ MainConnect \/ MainStartReceive \/ MainStartPacer
  \/ MainDeadline \/ MainNextStopped \/ MainLeaves
  \/ MainClose \/ MainAllClosed \/ MainJoin \/ MainStopPacer \/ MainDone

PacerStep ==
  \/ PacerExits \/ PacerPass \/ PacerCalls \/ PacerSkips \/ PacerReturns \/ PacerPassEnds

Step ==
  \/ \E t \in Threads : PumpStep(t)
  \/ \E c \in Conns : RecvStep(c) \/ SenderStep(c)
  \/ MainStep \/ PacerStep

\* What the environment may do to the client at any time.
Disturbance ==
  \/ \E c \in Conns :
       \/ RecvFails(c) \/ SenderFails(c)
       \/ \E o \in Ordinals, k \in 0 .. MaxMessages : OnDataThrows(c, o, k)
  \/ MainConnectFails \/ SignalHandler

\* The process has ended.
Terminated == mainPc = "done" /\ UNCHANGED vars

Next == Step \/ Disturbance \/ Terminated

Spec == Init /\ [][Next]_vars

-----------------------------------------------------------------------------
(* Fairness.  Every thread keeps running, and a thread that wants mutex_   *)
(* gets it, because nobody holds it across a sleep.  Nothing forces a      *)
(* frame back, a failure or a signal: a RecvTimeout may always come first. *)

Fairness ==
  /\ SF_vars(PumpStep(Main) \/ (MainStep /\ ~MainDeadline /\ ~MainLeaves))
  /\ SF_vars(PumpStep(Pacer) \/ PacerStep)
  /\ \A c \in Conns :
       SF_vars(\/ PumpStep(c) \/ RecvCheck(c) \/ OnDataReturns(c) \/ RecvTimeout(c)
               \/ RecvClose(c) \/ RecvOnClosed(c)
               \/ \E o \in Ordinals, k \in 0 .. MaxMessages : OnData(c, o, k))

\* The deadlines pass, and main looks at them every 200 ms.
FairSpec == Spec /\ Fairness /\ WF_vars(MainDeadline) /\ WF_vars(MainLeaves)

\* Nothing fails and the server echoes: what is accepted on a connection comes
\* back as long as its receive thread listens.  The drain deadline need not pass.
EchoingSpec ==
  /\ Init /\ [][Step \/ Terminated]_vars /\ Fairness /\ WF_vars(MainDeadline)
  /\ \A c \in Conns :
       /\ SF_vars(RecvBytes(c))
       /\ \A o \in Ordinals : SF_vars(\E k \in 1 .. MaxMessages : OnData(c, o, k))

-----------------------------------------------------------------------------
(* Properties.                                                             *)

StateTypes ==
  /\ connected \in [Conns -> BOOLEAN] /\ sendClosed \in [Conns -> BOOLEAN]
  /\ nextOrdinal \in [Conns -> Ordinals]
  /\ nextSequence \in [Conns -> [Ordinals -> Nat]]
  /\ echoedMessages \in [Conns -> [Ordinals -> Nat]]

ConnectionTypes ==
  /\ accepted \in [Conns -> [Ordinals -> Nat]]
  /\ closeRequested \in [Conns -> BOOLEAN] /\ closed \in [Conns -> BOOLEAN]
  /\ senderPc \in [Conns -> {"off", "run", "notify", "done"}]
  /\ recvPc \in [Conns -> {"off", "check", "recv", "bytes", "data", "ending", "notify", "done"}]

PumpTypes ==
  /\ phase \in [Threads -> {"idle", "lock", "fill", "decide", "send"}]
  /\ batch \in [Threads -> Seq(Frames)]
  /\ closing \in [Threads -> BOOLEAN]

MainTypes ==
  /\ mainPc \in {"connect", "greet", "wait", "stopping", "force", "stop", "join",
                 "stopPacer", "done"}
  /\ mainConn \in 0 .. ClientCount
  /\ mainPc \in {"greet", "stopping"} => mainConn \in Conns

PacerTypes ==
  /\ pacerPc \in {"off", "top", "step", "pump", "done"}
  /\ pacerConn \in Conns /\ nextPaced \in Conns /\ pacerLeft \in 0 .. ClientCount
  /\ pacerPc = "pump" => pacerLeft > 0
  /\ pacerDraining \in BOOLEAN /\ pacerSent \in BOOLEAN

ControlTypes ==
  /\ mutex \in Threads \cup {Nobody} /\ stopSending \in BOOLEAN
  /\ closedConnections \subseteq Conns
  /\ pacerStop \in BOOLEAN /\ gStopRequested \in BOOLEAN

\* Every variable has its type; a PumpSends call of main is for a connection,
\* and one of the pacer is inside a pass.
TypeOK ==
  StateTypes /\ ConnectionTypes /\ PumpTypes /\ MainTypes /\ PacerTypes /\ ControlTypes

\* No stream ever has more frames outstanding than the max_inflight of its
\* profile, and none is echoed that was not handed to the transport, although
\* frames are produced under mutex_, handed over without it, and counted by
\* another thread.
InflightBounded ==
  \A c \in Conns, o \in Ordinals :
    /\ echoedMessages[c][o] <= accepted[c][o]
    /\ accepted[c][o] <= nextSequence[c][o]
    /\ nextSequence[c][o] - echoedMessages[c][o] <= MaxInflight[o]

\* The sends of PumpSends run after the unlock, so two calls for one
\* connection could hand their frames over out of order.  They do not: the
\* frame a thread is about to hand to an open connection is always the next
\* one of its stream.
HandOffInOrder ==
  \A t \in Threads :
    LET c == Target(t)  f == Head(batch[t]) IN
    phase[t] = "send" /\ batch[t] # <<>> /\ ~closed[c]
      => f.sequence = accepted[c][f.ordinal]

\* CloseSend is decided only after the stop, when every frame came back, and
\* no frame of the connection is still in the hands of a thread.
CloseAfterDrain ==
  \A c \in Conns :
    /\ sendClosed[c] => /\ stopSending
                        /\ \A o \in Ordinals : echoedMessages[c][o] = nextSequence[c][o]
                        /\ \A t \in Threads : Target(t) = c => batch[t] = <<>>
    /\ closeRequested[c] => sendClosed[c]

\* A decision to close is carried out exactly once: the thread that set
\* send_closed is still on its way to CloseSend, or CloseSend was called, or
\* the connection is closed altogether.
CloseCarriedOut ==
  \A c \in Conns :
    LET closers == {t \in Threads : closing[t] /\ Target(t) = c} IN
    /\ Cardinality(closers) <= 1
    /\ sendClosed[c] => closeRequested[c] \/ closed[c] \/ closers # {}

\* The receive thread has left its loop and is bound to close the connection.
ReceiveLoopLeft(c) == recvPc[c] \in {"ending", "notify", "done"}

\* An unpaced client is work conserving: until the stop, a connection that
\* sends has a stream below its window only while a PumpSends call for it is
\* under way, or when its receive thread has given it up: an OnData that throws
\* has counted echoes and pumps no more.
WindowKeptFull ==
  \A c \in Conns :
    connected[c] /\ ShouldSendOnConnection(c) /\ ~Paced /\ ~stopSending
      => \/ \A o \in Ordinals : \/ nextSequence[c][o] = MaxMessages
                                \/ nextSequence[c][o] - echoedMessages[c][o] = MaxInflight[o]
         \/ \E t \in Threads : phase[t] # "idle" /\ Target(t) = c
         \/ ReceiveLoopLeft(c)

\* RequestStopSending looks at each connection once, and the last echo may
\* come before or after: in an unpaced client a drained connection is never
\* left open, except while main or its receive thread is about to look at it.
\* If the last echo came in a piece whose OnData threw, nobody looks again, and
\* the receive thread closes the connection altogether.
LastEchoCloses ==
  \A c \in Conns :
    /\ ~Paced /\ stopSending /\ recvPc[c] # "data"
    /\ ~(mainPc = "stopping" /\ mainConn <= c)
    /\ \A o \in Ordinals : echoedMessages[c][o] = nextSequence[c][o]
    => sendClosed[c] \/ ReceiveLoopLeft(c)

\* When the joins of Stop are over, every connection that was opened has been
\* reported closed, no callback of the transport runs, and the pacer is the
\* only thread that may still be in PumpSends.
QuietAfterJoin ==
  mainPc \in {"stopPacer", "done"} =>
    /\ \A c \in Conns : /\ connected[c] => closed[c] /\ c \in closedConnections
                         /\ phase[c] = "idle" /\ recvPc[c] \in {"off", "done"}
    /\ phase[Main] = "idle"
    /\ mainPc = "done" => phase[Pacer] = "idle" /\ mutex = Nobody

Outstanding(c) ==
  {f \in Ordinals \X (0 .. MaxMessages) :
     echoedMessages[c][f[1]] <= f[2] /\ f[2] < nextSequence[c][f[1]]}

\* What --max-inflight is documented to mean (src/src/main.cpp:270), for a client
\* whose streams all have the default profile: at most so many messages
\* outstanding per connection.
MaxInflightPerConnection ==
  \A c \in Conns : \A o \in Ordinals : Cardinality(Outstanding(c)) <= MaxInflight[o]

Abstract == INSTANCE EchoSession WITH
  Window <- MaxInflight, sent <- nextSequence, echoed <- echoedMessages,
  stopped <- stopSending, finished <- sendClosed

\* The client implements the abstract echo session.
ImplementsEchoSession == Abstract!Spec

\* Run always gets as far as the joins of Stop: no lost callback, silent
\* server or busy lock keeps it in its loop past the drain deadline.
RunReachesJoin == <>(mainPc = "join")

\* Against a server that echoes, the stop of sending closes every connection
\* without any help from the drain deadline.
StopClosesAll ==
  mainPc = "stopping" ~> \/ \A c \in Conns : closeRequested[c]
                         \/ mainPc \notin {"stopping", "wait"}

-----------------------------------------------------------------------------
(* The inductive invariant behind InflightBounded, HandOffInOrder,         *)
(* CloseAfterDrain and the refinement.                                     *)

\* Who is in PumpSends and for which connection: a receive thread inside
\* OnData, main inside OnConnected (before the receive thread exists) or
\* RequestStopSending, the pacer inside a pass.
PumpCalls ==
  /\ \A c \in Conns : phase[c] # "idle" => recvPc[c] = "data"
  /\ \A c \in Conns : recvPc[c] = "data" => ~Paced
  /\ phase[Main] # "idle" => /\ mainPc \in {"greet", "stopping"}
                             /\ mainPc = "greet" => ~Paced
  /\ phase[Pacer] # "idle" => pacerPc = "pump"
  /\ pacerPc # "off" => Paced
  /\ mainPc \in {"connect", "greet"} =>
       pacerPc = "off" /\ \A c \in Conns : c >= mainConn => recvPc[c] = "off"

\* mutex_ is held exactly from the entry to the decision, for an open connection.
LockHeld ==
  \A t \in Threads :
    /\ phase[t] \in {"fill", "decide"} <=> mutex = t
    /\ mutex = t => ~sendClosed[Target(t)]

\* The frames in a thread's hands were produced, not handed over, and are in
\* sequence order within each stream.
BatchesHeld ==
  \A t \in Threads :
    /\ batch[t] # <<>> => /\ phase[t] \in {"fill", "decide", "send"}
                          /\ t = Main => mainPc = "greet"
    /\ \A i \in DOMAIN batch[t] :
         LET f == batch[t][i] IN
         /\ accepted[Target(t)][f.ordinal] <= f.sequence
         /\ f.sequence < nextSequence[Target(t)][f.ordinal]
         /\ \A j \in 1 .. i - 1 :
              batch[t][j].ordinal = f.ordinal => batch[t][j].sequence < f.sequence

\* A frame of an open connection that was produced and not handed over is in
\* some thread's hands.
NoFrameLost ==
  \A c \in Conns, o \in Ordinals :
    ~closed[c] =>
      \A n \in accepted[c][o] .. nextSequence[c][o] - 1 :
        \E t \in Threads : /\ Target(t) = c
                           /\ \E i \in DOMAIN batch[t] :
                                batch[t][i] = [ordinal |-> o, sequence |-> n]

CloseDecided ==
  /\ \A c \in Conns :
       /\ sendClosed[c] => /\ stopSending
                           /\ \A o \in Ordinals : echoedMessages[c][o] = nextSequence[c][o]
       /\ closeRequested[c] => sendClosed[c]
  /\ \A t \in Threads : closing[t] => phase[t] = "send" /\ sendClosed[Target(t)]

IInv ==
  /\ TypeOK /\ PumpCalls /\ LockHeld
  /\ BatchesHeld /\ NoFrameLost /\ InflightBounded /\ CloseDecided

=============================================================================
