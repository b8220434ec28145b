------------------------------ MODULE LoadServer ------------------------------
(***************************************************************************)
(* The plain SCTP echo server: SctpServer::Run with                        *)
(* SctpServerTransport::Start and Stop, one accept thread per listener,    *)
(* and for every accepted connection its receive thread, which runs the    *)
(* callbacks of LoadServerController, and its send thread.                 *)
(*                                                                         *)
(* Frames of a connection are counted, not told apart: SctpConnection.tla  *)
(* has the order of the send queue.  What a client does is external: it    *)
(* sends frames, fails, and half-closes once all its frames came back,     *)
(* which is what CloseAfterDrain of LoadClient.tla says of this client.    *)
(***************************************************************************)
EXTENDS Naturals, FiniteSets

CONSTANTS
  ServerCount,      \* config_.server_count
  MaxConnections,   \* bound of the model on the connections of the run
  MaxFrames         \* bound of the model on the frames of a connection

ASSUME ServerAssumption ==
  ServerCount \in Nat \ {0} /\ MaxConnections \in Nat \ {0} /\ MaxFrames \in Nat

Listeners == 0 .. ServerCount - 1
Ids       == 0 .. MaxConnections - 1

VARIABLES
  stopped, gStopRequested,
  mainPc, mainIndex,
  snapshot,           \* the connections Stop took out of connections_
  listening,          \* the listeners whose socket is open
  acceptPc, acceptId, \* each accept thread, and the id it gave out last
  nextConnectionId,
  connections,        \* SctpServerTransport::connections_
  states,             \* LoadServerController::connections_
  closed, receiverPc, senderPc,
  read,               \* frames OnData took out of the receive buffers
  hands,              \* frames OnData still has to hand to SendCopy
  pending,            \* the length of pending_sends_
  echoed,             \* frames on the wire
  sent, clientShut    \* the client

runVars    == <<stopped, gStopRequested, mainPc, mainIndex, snapshot>>
acceptVars == <<listening, acceptPc, acceptId, nextConnectionId>>
mapVars    == <<connections, states>>
threadVars == <<closed, receiverPc, senderPc>>
frameVars  == <<read, hands, pending, echoed>>
clientVars == <<sent, clientShut>>
vars == <<runVars, acceptVars, mapVars, threadVars, frameVars, clientVars>>

Init ==
  /\ stopped = FALSE /\ gStopRequested = FALSE
  /\ mainPc = "listen" /\ mainIndex = 0 /\ snapshot = {}
  /\ listening = {} /\ nextConnectionId = 0
  /\ acceptPc = [l \in Listeners |-> "off"]
  /\ acceptId = [l \in Listeners |-> 0]
  /\ connections = {} /\ states = {}
  /\ closed = [c \in Ids |-> FALSE]
  /\ receiverPc = [c \in Ids |-> "off"] /\ senderPc = [c \in Ids |-> "off"]
  /\ read    = [c \in Ids |-> 0] /\ hands  = [c \in Ids |-> 0]
  /\ pending = [c \in Ids |-> 0] /\ echoed = [c \in Ids |-> 0]
  /\ sent    = [c \in Ids |-> 0] /\ clientShut = [c \in Ids |-> FALSE]

-----------------------------------------------------------------------------
(* AcceptLoop, by the accept thread of listener l.                         *)

AcceptGoes(l, from, to) ==
  acceptPc[l] = from /\ acceptPc' = [acceptPc EXCEPT ![l] = to]

AcceptCheck(l) ==
  /\ AcceptGoes(l, "check", IF stopped \/ gStopRequested THEN "done" ELSE "accept")
  /\ UNCHANGED <<runVars, listening, acceptId, nextConnectionId, mapVars, threadVars,
                 frameVars, clientVars>>

\* accept returns a new connection; every one but the bounded number is a client's.
Accept(l) ==
  /\ l \in listening /\ nextConnectionId + Cardinality(
       {k \in Listeners : acceptPc[k] = "accepted"}) < MaxConnections
  /\ AcceptGoes(l, "accept", "accepted")
  /\ UNCHANGED <<runVars, listening, acceptId, nextConnectionId, mapVars, threadVars,
                 frameVars, clientVars>>

\* accept is interrupted, or ConfigureSocket throws and the socket is closed again.
AcceptRetries(l) ==
  /\ AcceptGoes(l, "accept", "check") \/ AcceptGoes(l, "accepted", "check")
  /\ UNCHANGED <<runVars, listening, acceptId, nextConnectionId, mapVars, threadVars,
                 frameVars, clientVars>>

\* accept fails, for good: so it does once Stop has shut the listener down.
AcceptFails(l) ==
  /\ AcceptGoes(l, "accept", "done")
  /\ UNCHANGED <<runVars, listening, acceptId, nextConnectionId, mapVars, threadVars,
                 frameVars, clientVars>>

AcceptNumbers(l) ==
  /\ AcceptGoes(l, "accepted", "publish")
  /\ acceptId' = [acceptId EXCEPT ![l] = nextConnectionId]
  /\ nextConnectionId' = nextConnectionId + 1
  /\ UNCHANGED <<runVars, listening, mapVars, threadVars, frameVars, clientVars>>

AcceptPublishes(l) ==
  /\ AcceptGoes(l, "publish", "greet")
  /\ connections' = connections \cup {acceptId[l]}
  /\ UNCHANGED <<runVars, listening, acceptId, nextConnectionId, states, threadVars,
                 frameVars, clientVars>>

OnConnected(l) ==
  /\ AcceptGoes(l, "greet", "start")
  /\ states' = states \cup {acceptId[l]}
  /\ UNCHANGED <<runVars, listening, acceptId, nextConnectionId, connections, threadVars,
                 frameVars, clientVars>>

StartReceiveLoop(l) ==
  /\ AcceptGoes(l, "start", "check")
  /\ receiverPc' = [receiverPc EXCEPT ![acceptId[l]] = "check"]
  /\ senderPc' = [senderPc EXCEPT ![acceptId[l]] = "run"]
  /\ UNCHANGED <<runVars, listening, acceptId, nextConnectionId, mapVars, closed,
                 frameVars, clientVars>>

-----------------------------------------------------------------------------
(* The receive thread and the send thread of connection c.                 *)

ReceiverGoes(c, from, to) ==
  receiverPc[c] = from /\ receiverPc' = [receiverPc EXCEPT ![c] = to]

RecvCheck(c) ==
  /\ ReceiverGoes(c, "check", IF closed[c] \/ gStopRequested THEN "ending" ELSE "recv")
  /\ UNCHANGED <<runVars, acceptVars, mapVars, closed, senderPc, frameVars, clientVars>>

\* OnData under its lock: the bytes complete k frames (k = 0: a fragment).
\* The state of the connection is created again if OnClosed erased it.
OnData(c, k) ==
  /\ ReceiverGoes(c, "recv", "echo")
  /\ read[c] < sent[c] /\ read[c] + k <= sent[c]
  /\ states' = states \cup {c}
  /\ read' = [read EXCEPT ![c] = @ + k]
  /\ hands' = [hands EXCEPT ![c] = k]
  /\ UNCHANGED <<runVars, acceptVars, connections, closed, senderPc, pending, echoed, clientVars>>

\* Mutant: SendCopy refuses frames from the signal on.
SignalRefuses(c) == closed[c] \/ gStopRequested

SendCopyRefuses(c) == closed[c]

\* ... and without it: SendCopy of one frame, which a closed connection drops.
Echo(c) ==
  /\ receiverPc[c] = "echo" /\ hands[c] > 0
  /\ hands' = [hands EXCEPT ![c] = @ - 1]
  /\ pending' = IF SendCopyRefuses(c) THEN pending ELSE [pending EXCEPT ![c] = @ + 1]
  /\ UNCHANGED <<runVars, acceptVars, mapVars, threadVars, read, echoed, clientVars>>

OnDataReturns(c) ==
  /\ hands[c] = 0
  /\ ReceiverGoes(c, "echo", "check")
  /\ UNCHANGED <<runVars, acceptVars, mapVars, closed, senderPc, frameVars, clientVars>>

RecvTimeout(c) ==
  /\ ReceiverGoes(c, "recv", "check")
  /\ UNCHANGED <<runVars, acceptVars, mapVars, closed, senderPc, frameVars, clientVars>>

\* The end of the client's data: the connection is closed, whatever is queued.
RecvPeerClosed(c) ==
  /\ clientShut[c] /\ read[c] = sent[c]
  /\ ReceiverGoes(c, "recv", "ending")
  /\ UNCHANGED <<runVars, acceptVars, mapVars, closed, senderPc, frameVars, clientVars>>

\* recvmsg fails.
RecvFails(c) ==
  /\ ReceiverGoes(c, "recv", "ending")
  /\ UNCHANGED <<runVars, acceptVars, mapVars, closed, senderPc, frameVars, clientVars>>

\* OnData of bytes that are foreign after k frames: TryPeekFrameSize throws, and
\* the frames cut before it are gone with the local vector that had them.
OnDataThrows(c, k) ==
  /\ ReceiverGoes(c, "recv", "ending")
  /\ read[c] + k <= sent[c]
  /\ states' = states \cup {c}
  /\ read' = [read EXCEPT ![c] = @ + k]
  /\ UNCHANGED <<runVars, acceptVars, connections, closed, senderPc, hands, pending, echoed,
                 clientVars>>

RecvClose(c) ==
  /\ ReceiverGoes(c, "ending", "notify")
  /\ closed' = [closed EXCEPT ![c] = TRUE]
  /\ UNCHANGED <<runVars, acceptVars, mapVars, senderPc, frameVars, clientVars>>

\* Mutant: whoever comes second does not report.
RecvOnClosedOnce(c) ==
  /\ ReceiverGoes(c, "notify", "done")
  /\ states' = IF senderPc[c] = "done" THEN states ELSE states \ {c}
  /\ UNCHANGED <<runVars, acceptVars, connections, closed, senderPc, frameVars, clientVars>>

RecvOnClosed(c) ==
  /\ ReceiverGoes(c, "notify", "done")
  /\ states' = states \ {c}
  /\ UNCHANGED <<runVars, acceptVars, connections, closed, senderPc, frameVars, clientVars>>

SenderGoes(c, from, to) ==
  senderPc[c] = from /\ senderPc' = [senderPc EXCEPT ![c] = to]

HasWork(c) == pending[c] > 0

SenderTakes(c) ==
  /\ HasWork(c) /\ ~closed[c]
  /\ SenderGoes(c, "run", "send")
  /\ pending' = [pending EXCEPT ![c] = @ - 1]
  /\ UNCHANGED <<runVars, acceptVars, mapVars, closed, receiverPc, read, hands, echoed, clientVars>>

SenderSends(c) ==
  /\ SenderGoes(c, "send", "run")
  /\ echoed' = [echoed EXCEPT ![c] = @ + 1]
  /\ UNCHANGED <<runVars, acceptVars, mapVars, closed, receiverPc, read, hands, pending, clientVars>>

SenderFails(c) ==
  /\ SenderGoes(c, "send", "notify")
  /\ closed' = [closed EXCEPT ![c] = TRUE]
  /\ UNCHANGED <<runVars, acceptVars, mapVars, receiverPc, frameVars, clientVars>>

SenderOnClosed(c) ==
  /\ SenderGoes(c, "notify", "done")
  /\ states' = states \ {c}
  /\ UNCHANGED <<runVars, acceptVars, connections, closed, receiverPc, frameVars, clientVars>>

\* Mutant: an empty queue ends the thread.
QueueEnds(c) == closed[c] \/ gStopRequested \/ pending[c] = 0

SendLoopEnds(c) == closed[c] \/ gStopRequested

SenderExits(c) ==
  /\ SendLoopEnds(c)
  /\ SenderGoes(c, "run", "done")
  /\ UNCHANGED <<runVars, acceptVars, mapVars, closed, receiverPc, frameVars, clientVars>>

-----------------------------------------------------------------------------
(* The client of connection c.                                             *)

ClientSends(c) ==
  /\ c < nextConnectionId /\ sent[c] < MaxFrames /\ ~clientShut[c]
  /\ sent' = [sent EXCEPT ![c] = @ + 1]
  /\ UNCHANGED <<runVars, acceptVars, mapVars, threadVars, frameVars, clientShut>>

ClientShuts(c) ==
  /\ c < nextConnectionId /\ sent[c] = echoed[c] /\ ~clientShut[c]
  /\ clientShut' = [clientShut EXCEPT ![c] = TRUE]
  /\ UNCHANGED <<runVars, acceptVars, mapVars, threadVars, frameVars, sent>>

-----------------------------------------------------------------------------
(* SctpServer::Run, and Start and Stop of the transport.                   *)

MainGoes(from, to, index) ==
  mainPc = from /\ mainPc' = to /\ mainIndex' = index

MainListens ==
  /\ mainIndex < ServerCount
  /\ MainGoes("listen", "listen", mainIndex + 1)
  /\ listening' = listening \cup {mainIndex}
  /\ acceptPc' = [acceptPc EXCEPT ![mainIndex] = "check"]
  /\ UNCHANGED <<stopped, gStopRequested, snapshot, acceptId, nextConnectionId, mapVars,
                 threadVars, frameVars, clientVars>>

\* A socket call throws out of Start: ~SctpServerTransport runs Stop.
MainListenFails ==
  /\ mainIndex < ServerCount
  /\ MainGoes("listen", "stop", 0)
  /\ UNCHANGED <<stopped, gStopRequested, snapshot, acceptVars, mapVars, threadVars,
                 frameVars, clientVars>>

\* The loop of Run, which ends with the signal.
MainSeesSignal ==
  /\ mainIndex = ServerCount /\ gStopRequested
  /\ MainGoes("listen", "stop", 0)
  /\ UNCHANGED <<stopped, gStopRequested, snapshot, acceptVars, mapVars, threadVars,
                 frameVars, clientVars>>

MainStops ==
  /\ MainGoes("stop", "shut", 0)
  /\ stopped' = TRUE
  /\ UNCHANGED <<gStopRequested, snapshot, acceptVars, mapVars, threadVars, frameVars, clientVars>>

\* Mutant: close without the shutdown, which leaves a thread in accept where it is.
ShutNothing == {}

ShutNow == {mainIndex}

MainShutsListener ==
  /\ mainIndex < ServerCount
  /\ MainGoes("shut", "shut", mainIndex + 1)
  /\ listening' = listening \ ShutNow
  /\ UNCHANGED <<stopped, gStopRequested, snapshot, acceptPc, acceptId, nextConnectionId, mapVars,
                 threadVars, frameVars, clientVars>>

\* Mutant: the accept threads are not joined.
AcceptorsNotAwaited == TRUE

AcceptorsEnded == \A l \in Listeners : acceptPc[l] \in {"off", "done"}

\* The joins of the accept threads, then connections_ is taken under its lock.
MainTakesConnections ==
  /\ mainIndex = ServerCount /\ AcceptorsEnded
  /\ MainGoes("shut", "close", 0)
  /\ snapshot' = connections /\ connections' = {}
  /\ UNCHANGED <<stopped, gStopRequested, acceptVars, states, threadVars, frameVars, clientVars>>

MainCloses ==
  /\ mainIndex < MaxConnections
  /\ MainGoes("close", "close", mainIndex + 1)
  /\ closed' = [closed EXCEPT ![mainIndex] = @ \/ mainIndex \in snapshot]
  /\ UNCHANGED <<stopped, gStopRequested, snapshot, acceptVars, mapVars, receiverPc, senderPc,
                 frameVars, clientVars>>

MainClosedAll ==
  /\ mainIndex = MaxConnections
  /\ MainGoes("close", "join", 0)
  /\ UNCHANGED <<stopped, gStopRequested, snapshot, acceptVars, mapVars, threadVars,
                 frameVars, clientVars>>

ThreadsEnded(c) == receiverPc[c] \in {"off", "done"} /\ senderPc[c] \in {"off", "done"}

MainJoins ==
  /\ mainIndex < MaxConnections
  /\ mainIndex \in snapshot => ThreadsEnded(mainIndex)
  /\ MainGoes("join", "join", mainIndex + 1)
  /\ UNCHANGED <<stopped, gStopRequested, snapshot, acceptVars, mapVars, threadVars,
                 frameVars, clientVars>>

MainDone ==
  /\ mainIndex = MaxConnections
  /\ MainGoes("join", "done", mainIndex)
  /\ UNCHANGED <<stopped, gStopRequested, snapshot, acceptVars, mapVars, threadVars,
                 frameVars, clientVars>>

SignalHandler ==
  /\ ~gStopRequested
  /\ gStopRequested' = TRUE
  /\ UNCHANGED <<stopped, mainPc, mainIndex, snapshot, acceptVars, mapVars, threadVars,
                 frameVars, clientVars>>

Terminated == mainPc = "done" /\ UNCHANGED vars

-----------------------------------------------------------------------------
AcceptStep(l) ==
  \/ AcceptCheck(l) \/ AcceptNumbers(l) \/ AcceptPublishes(l) \/ OnConnected(l)
  \/ StartReceiveLoop(l)

RecvStep(c) ==
  \/ RecvCheck(c) \/ Echo(c) \/ OnDataReturns(c) \/ RecvTimeout(c) \/ RecvPeerClosed(c)
  \/ RecvClose(c) \/ RecvOnClosed(c)
  \/ \E k \in 0 .. MaxFrames : OnData(c, k)

SenderStep(c) == SenderTakes(c) \/ SenderSends(c) \/ SenderOnClosed(c) \/ SenderExits(c)

MainStep ==
  \/ MainListens \/ MainSeesSignal \/ MainStops \/ MainShutsListener \/ MainTakesConnections
  \/ MainCloses \/ MainClosedAll \/ MainJoins \/ MainDone

Next ==
  \/ \E l \in Listeners : AcceptStep(l) \/ Accept(l) \/ AcceptRetries(l) \/ AcceptFails(l)
  \/ \E c \in Ids : \/ RecvStep(c) \/ RecvFails(c) \/ SenderStep(c) \/ SenderFails(c)
                    \/ ClientSends(c) \/ ClientShuts(c)
                    \/ \E k \in 0 .. MaxFrames : OnDataThrows(c, k)
  \/ MainStep \/ MainListenFails \/ SignalHandler \/ Terminated

Spec == Init /\ [][Next]_vars

\* Every thread keeps running; accept fails on a listener that was shut down.
\* Nothing forces a client to send, a failure, or the end of an idle send
\* thread (see JoinReturns in SctpConnection.tla).
Fairness ==
  /\ WF_vars(MainStep)
  /\ \A l \in Listeners :
       WF_vars(AcceptStep(l)) /\ WF_vars(l \notin listening /\ AcceptFails(l))
  /\ \A c \in Ids : WF_vars(RecvStep(c)) /\ WF_vars(SenderTakes(c) \/ SenderSends(c))

FairSpec == Spec /\ Fairness

-----------------------------------------------------------------------------
(* Properties.                                                             *)

TypeOK ==
  /\ stopped \in BOOLEAN /\ gStopRequested \in BOOLEAN
  /\ mainPc \in {"listen", "stop", "shut", "close", "join", "done"}
  /\ mainIndex \in Nat /\ snapshot \subseteq Ids
  /\ listening \subseteq Listeners /\ nextConnectionId \in 0 .. MaxConnections
  /\ acceptPc \in [Listeners -> {"off", "check", "accept", "accepted", "publish", "greet",
                                 "start", "done"}]
  /\ acceptId \in [Listeners -> Ids]
  /\ connections \subseteq Ids /\ states \subseteq Ids
  /\ closed \in [Ids -> BOOLEAN]
  /\ receiverPc \in [Ids -> {"off", "check", "recv", "echo", "ending", "notify", "done"}]
  /\ senderPc \in [Ids -> {"off", "run", "send", "notify", "done"}]
  /\ read \in [Ids -> Nat] /\ hands \in [Ids -> Nat]
  /\ pending \in [Ids -> Nat] /\ echoed \in [Ids -> Nat]
  /\ sent \in [Ids -> Nat] /\ clientShut \in [Ids -> BOOLEAN]

\* On an open connection every frame that was read is on the wire, in the send
\* queue or in the hands of a thread, in particular none is left when the half-close of the
\* client makes the server drop its queue.  Only a receive thread that is about to close
\* the connection may have lost some: an OnData that throws echoes nothing of its piece.
EchoesConserved ==
  \A c \in Ids :
    /\ ~closed[c] /\ receiverPc[c] # "ending" =>
         echoed[c] + pending[c] + hands[c] + (IF senderPc[c] = "send" THEN 1 ELSE 0) = read[c]
    /\ clientShut[c] => pending[c] = 0 /\ hands[c] = 0 /\ echoed[c] = sent[c]

\* The controller never keeps the state of a connection whose receive thread
\* has reported its end, although the send thread's OnClosed may come first
\* and OnData then creates the state anew.
NoStaleState ==
  \A c \in states : receiverPc[c] # "done"

\* Stop takes every connection: no accept thread publishes one after connections_
\* was emptied, and when Stop returns nothing the server started still runs.
StopLeavesNothing ==
  /\ mainPc \in {"close", "join", "done"} => connections = {}
  /\ mainPc = "done" => /\ listening = {} /\ states = {}
                        /\ \A c \in Ids : ThreadsEnded(c) /\ (c < nextConnectionId => closed[c])

\* A signal ends the loop of Run and Stop gets to the joins of the connections:
\* no accept thread stays in accept.
SignalStopsServer == gStopRequested ~> mainPc \in {"join", "done"}

\* Every frame that is read goes back, unless the connection or the run ends.
EchoReturns ==
  \A c \in Ids : read[c] > echoed[c] ~> echoed[c] = read[c] \/ closed[c] \/ gStopRequested

=============================================================================
