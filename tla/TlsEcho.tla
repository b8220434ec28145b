------------------------------- MODULE TlsEcho -------------------------------
(***************************************************************************)
(* DTLS over SCTP: the client and the server of a run with --sctp-tls=1,   *)
(* and the sockets between them.  A connection has no threads of its own   *)
(* here: on each side one poll thread reads all connections, and a frame   *)
(* is written by the thread that calls SendCopy, the poll thread included, *)
(* for as long as the socket is full.                                      *)
(*                                                                         *)
(* The sockets are blocking, with a receive timeout.  A direction of a     *)
(* connection, send and receive buffer together, holds Capacity frames.    *)
(* OpenSSL is external: a record is a frame, the handshake is over when a  *)
(* connection appears, and the network does not fail.  ssl_mutex_ is held  *)
(* from one step to the next only by a thread that blocks in SSL_write_ex. *)
(* What the controllers do under their mutex_ is one step; LoadClient and  *)
(* LoadServer have the details.                                            *)
(***************************************************************************)
EXTENDS Integers, FiniteSets, FiniteSetsExt

CONSTANTS
  Configs,  \* the configurations: clients, maxInflight, paced, signals, messages
  Capacity  \* frames that fit in one direction of a connection

\* signals: SIGINT or SIGTERM may reach either process; messages is a bound of the
\* model on the frames of a connection.
ConfigType == [clients : Nat \ {0}, maxInflight : Nat \ {0}, paced : BOOLEAN,
               signals : BOOLEAN, messages : Nat]

ASSUME TlsAssumption ==
  Configs \subseteq ConfigType /\ Capacity \in Nat \ {0}

Sides   == {"client", "server"}
Threads == {"main", "pacer", "clientPoll", "serverPoll"}
Nobody  == "nobody"

PollOf(s) == IF s = "client" THEN "clientPoll" ELSE "serverPoll"
SideOf(t) == IF t = "serverPoll" THEN "server" ELSE "client"
Peer(s)   == IF s = "client" THEN "server" ELSE "client"

VARIABLES
  config,
  \* LoadClientController
  connected, nextSequence, echoedMessages, sendClosed, stopSending, closedConnections,
  \* SctpConnection on each side, and connections_ of the server's transport
  closed, sslMutex, published,
  \* the sockets: frames on their way to a side, and the connections the client half-closed
  wire, halfClosed,
  \* the call of SendCopy and CloseSend a thread is in: how it waits, the connection,
  \* the frames left, should_close_send
  call, conn, hand, shouldClose,
  \* where each thread is, and the connection main comes to next
  at, mainNext,
  \* what poll() reported and the thread has not handled yet
  readable, hungUp,
  \* g_stop_requested of each process, and SctpServer::Run
  gStopRequested, serverPc

clientVars  == <<connected, nextSequence, echoedMessages, sendClosed, stopSending,
                 closedConnections>>
connVars    == <<closed, sslMutex, published>>
netVars     == <<wire, halfClosed>>
callVars    == <<call, conn, hand, shouldClose>>
placeVars   == <<at, mainNext>>
pollVars    == <<readable, hungUp>>
processVars == <<gStopRequested, serverPc>>
vars == <<config, clientVars, connVars, netVars, callVars, placeVars, pollVars, processVars>>

Conns    == 0 .. config.clients - 1
AllConns == UNION {0 .. k.clients - 1 : k \in Configs}

Init ==
  /\ config \in Configs
  /\ connected = {} /\ sendClosed = {} /\ stopSending = FALSE /\ closedConnections = {}
  /\ nextSequence = [c \in AllConns |-> 0] /\ echoedMessages = [c \in AllConns |-> 0]
  /\ closed = [s \in Sides |-> {}] /\ published = {}
  /\ sslMutex = [s \in Sides |-> [c \in AllConns |-> Nobody]]
  /\ wire = [s \in Sides |-> [c \in AllConns |-> 0]] /\ halfClosed = {}
  /\ call = [t \in Threads |-> "send"] /\ conn = [t \in Threads |-> 0]
  /\ hand = [t \in Threads |-> 0] /\ shouldClose = [t \in Threads |-> FALSE]
  /\ at = [t \in Threads |->
             IF t = "main" THEN "start" ELSE IF t = "serverPoll" THEN "poll" ELSE "off"]
  /\ mainNext = 0
  /\ readable = [s \in Sides |-> {}] /\ hungUp = [s \in Sides |-> {}]
  /\ gStopRequested = [s \in Sides |-> FALSE] /\ serverPc = "serving"

-----------------------------------------------------------------------------
(* SendCopy and CloseSend, called by thread t.                             *)

InCall(t) == hand[t] > 0 \/ shouldClose[t]
Sends(t)  == hand[t] > 0 /\ call[t] = "send"

Room(t) == wire[Peer(SideOf(t))][conn[t]] < Capacity
Shut(t) == conn[t] \in closed[SideOf(t)]
\* The socket takes nothing any more: one of the two sides has closed it.
Dead(t) == conn[t] \in closed["client"] \cup closed["server"]

MutexFree(s, c) == sslMutex[s][c] = Nobody
MutexIs(t, holder) == sslMutex' = [sslMutex EXCEPT ![SideOf(t)][conn[t]] = holder]

Close(s, c) == closed' = [closed EXCEPT ![s] = @ \cup {c}]

\* OnClosed of the client's controller; the server's only forgets its receive buffers.
OnClosed(s, c) ==
  closedConnections' = IF s = "client" THEN closedConnections \cup {c} ELSE closedConnections

\* A closed connection swallows the rest of the batch, before the write or in it.
SendDropped(t) ==
  /\ hand[t] > 0 /\ Shut(t)
  /\ hand' = [hand EXCEPT ![t] = 0] /\ call' = [call EXCEPT ![t] = "send"]
  /\ IF call[t] = "write" THEN MutexIs(t, Nobody) ELSE UNCHANGED sslMutex
  /\ UNCHANGED <<config, clientVars, closed, published, netVars, conn, shouldClose, placeVars,
                 pollVars, processVars>>

\* SSL_write_ex takes a frame, at once or after it has blocked.
SendsFrame(t) ==
  /\ hand[t] > 0 /\ ~Dead(t) /\ Room(t)
  /\ \/ call[t] = "send" /\ MutexFree(SideOf(t), conn[t]) /\ UNCHANGED sslMutex
     \/ call[t] = "write" /\ MutexIs(t, Nobody)
  /\ wire' = [wire EXCEPT ![Peer(SideOf(t))][conn[t]] = @ + 1]
  /\ hand' = [hand EXCEPT ![t] = @ - 1] /\ call' = [call EXCEPT ![t] = "send"]
  /\ UNCHANGED <<config, clientVars, closed, published, halfClosed, conn, shouldClose,
                 placeVars, pollVars, processVars>>

\* The socket is full, and the thread blocks inside SSL_write_ex.
SendBlocks(t) ==
  /\ Sends(t) /\ MutexFree(SideOf(t), conn[t]) /\ ~Dead(t) /\ ~Room(t)
  /\ MutexIs(t, t) /\ call' = [call EXCEPT ![t] = "write"]
  /\ UNCHANGED <<config, clientVars, closed, published, netVars, conn, hand, shouldClose,
                 placeVars, pollVars, processVars>>

\* The socket is full, and SSL_ERROR_WANT_WRITE comes back: the thread waits in
\* WaitForSocketReady, without the mutex.
WantsWrite(t) ==
  /\ Sends(t) /\ MutexFree(SideOf(t), conn[t]) /\ ~Dead(t) /\ ~Room(t)
  /\ call' = [call EXCEPT ![t] = "wait"]
  /\ UNCHANGED <<config, clientVars, connVars, netVars, conn, hand, shouldClose, placeVars,
                 pollVars, processVars>>

WaitForSocketReady(t) ==
  /\ call[t] = "wait" /\ hand[t] > 0 /\ ~Shut(t)
  /\ Room(t) \/ Dead(t)
  /\ call' = [call EXCEPT ![t] = "send"]
  /\ UNCHANGED <<config, clientVars, connVars, netVars, conn, hand, shouldClose, placeVars,
                 pollVars, processVars>>

\* Only the peer has closed: the frame is lost, or SendCopy throws.  PumpSends and
\* HandlePollEvents then close the connection; Start passes the exception on, and
\* the destructors stop the transport.
SendFails(t) ==
  /\ hand[t] > 0 /\ ~Shut(t) /\ Dead(t)
  /\ \/ call[t] = "send" /\ MutexFree(SideOf(t), conn[t]) /\ UNCHANGED sslMutex
     \/ call[t] = "write" /\ MutexIs(t, Nobody)
  /\ call' = [call EXCEPT ![t] = "send"]
  /\ \/ /\ hand' = [hand EXCEPT ![t] = @ - 1]
        /\ UNCHANGED <<closed, closedConnections, shouldClose, placeVars>>
     \/ /\ hand' = [hand EXCEPT ![t] = 0]
        /\ shouldClose' = [shouldClose EXCEPT ![t] = FALSE]
        /\ Close(SideOf(t), conn[t])
        /\ IF t \in {"clientPoll", "serverPoll"} THEN OnClosed(SideOf(t), conn[t])
                                                 ELSE UNCHANGED closedConnections
        /\ at' = [at EXCEPT ![t] = IF t = "main" THEN "force"
                                   ELSE IF t = "pacer" THEN "idle" ELSE "next"]
        /\ mainNext' = IF t = "main" THEN 0 ELSE mainNext
  /\ UNCHANGED <<config, connected, nextSequence, echoedMessages, sendClosed, stopSending,
                 published, netVars, conn, pollVars, processVars>>

\* close_notify and SHUT_WR, unless the descriptor is gone.
CloseSend(t) ==
  /\ hand[t] = 0 /\ shouldClose[t]
  /\ \/ Shut(t) /\ UNCHANGED halfClosed
     \/ ~Shut(t) /\ MutexFree(SideOf(t), conn[t]) /\ halfClosed' = halfClosed \cup {conn[t]}
  /\ shouldClose' = [shouldClose EXCEPT ![t] = FALSE]
  /\ UNCHANGED <<config, clientVars, connVars, wire, call, conn, hand, placeVars, pollVars,
                 processVars>>

CallStep(t) ==
  \/ SendDropped(t) \/ SendsFrame(t) \/ SendBlocks(t) \/ WantsWrite(t)
  \/ WaitForSocketReady(t) \/ SendFails(t) \/ CloseSend(t)

-----------------------------------------------------------------------------
(* LoadClientController::PumpSends: its locked region; the call follows.   *)

\* Mutant: the comparison with the window is off by one.
OpenByOne(c) == config.maxInflight + 1 - (nextSequence[c] - echoedMessages[c])

\* What the window of connection c leaves open.
Open(c) == config.maxInflight - (nextSequence[c] - echoedMessages[c])

Batch(c, limit) ==
  IF stopSending \/ c \in sendClosed THEN 0
  ELSE Min({limit, Open(c), config.messages - nextSequence[c]})

Drained(c) == stopSending /\ nextSequence[c] = echoedMessages[c] /\ c \notin sendClosed

PumpSends(t, c, limit) ==
  /\ ~InCall(t)
  /\ nextSequence' = [nextSequence EXCEPT ![c] = @ + Batch(c, limit)]
  /\ hand' = [hand EXCEPT ![t] = Batch(c, limit)]
  /\ shouldClose' = [shouldClose EXCEPT ![t] = Drained(c)]
  /\ sendClosed' = IF Drained(c) THEN sendClosed \cup {c} ELSE sendClosed
  /\ conn' = [conn EXCEPT ![t] = c]
  /\ UNCHANGED <<echoedMessages, stopSending, closedConnections, call>>

-----------------------------------------------------------------------------
(* SctpClient::Run on the main thread, and the pacer.                      *)

MainAt(place) == at["main"] = place /\ ~InCall("main")
MainGoes(place) == at' = [at EXCEPT !["main"] = place] /\ mainNext' = 0

\* Start connects the next connection; OnConnected pumps if nothing is paced.
StartConnection ==
  /\ MainAt("start") /\ mainNext \in Conns /\ serverPc = "serving"
  /\ connected' = connected \cup {mainNext}
  /\ mainNext' = mainNext + 1
  /\ IF config.paced
     THEN UNCHANGED <<nextSequence, echoedMessages, sendClosed, stopSending,
                      closedConnections, callVars>>
     ELSE PumpSends("main", mainNext, config.messages)
  /\ UNCHANGED <<config, connVars, netVars, at, pollVars, processVars>>

\* Nobody listens any more: Start throws.
StartThrows ==
  /\ MainAt("start") /\ mainNext \in Conns /\ serverPc # "serving"
  /\ MainGoes("force")
  /\ UNCHANGED <<config, clientVars, connVars, netVars, callVars, pollVars, processVars>>

\* Start creates the poll thread after the last connection; StartPacer follows.
StartReturns ==
  /\ MainAt("start") /\ mainNext \notin Conns
  /\ at' = [at EXCEPT !["main"] = "running", !["clientPoll"] = "poll",
                      !["pacer"] = IF config.paced THEN "idle" ELSE "off"]
  /\ mainNext' = 0
  /\ UNCHANGED <<config, clientVars, connVars, netVars, callVars, pollVars, processVars>>

\* The deadline: RequestStopSending.
MainDeadline ==
  /\ MainAt("running") /\ ~stopSending /\ ~gStopRequested["client"]
  /\ stopSending' = TRUE /\ MainGoes("stopPumps")
  /\ UNCHANGED <<config, connected, nextSequence, echoedMessages, sendClosed,
                 closedConnections, connVars, netVars, callVars, pollVars, processVars>>

MainStopPumps ==
  /\ MainAt("stopPumps") /\ mainNext \in Conns
  /\ PumpSends("main", mainNext, 0)
  /\ mainNext' = mainNext + 1
  /\ UNCHANGED <<config, connected, connVars, netVars, at, pollVars, processVars>>

MainStopPumped ==
  /\ MainAt("stopPumps") /\ mainNext \notin Conns
  /\ MainGoes("running")
  /\ UNCHANGED <<config, clientVars, connVars, netVars, callVars, pollVars, processVars>>

\* Mutant: Run waits for its connections without the drain deadline.
MainLeavesWhenClosed ==
  /\ MainAt("running")
  /\ gStopRequested["client"] \/ closedConnections = Conns
  /\ MainGoes("force")
  /\ UNCHANGED <<config, clientVars, connVars, netVars, callVars, pollVars, processVars>>

\* WaitUntilDone times out, and Run looks again.
MainWaits == MainAt("running") /\ UNCHANGED vars

\* A signal, the drain deadline, or every connection closed.
MainLeaves ==
  /\ MainAt("running")
  /\ gStopRequested["client"] \/ stopSending \/ closedConnections = Conns
  /\ MainGoes("force")
  /\ UNCHANGED <<config, clientVars, connVars, netVars, callVars, pollVars, processVars>>

\* ForceShutdownAll closes the connections; Stop takes connections_, and joins.
MainForces ==
  /\ MainAt("force")
  /\ IF mainNext \in connected
     THEN Close("client", mainNext) /\ mainNext' = mainNext + 1 /\ UNCHANGED at
     ELSE MainGoes("joinPoll") /\ UNCHANGED closed
  /\ UNCHANGED <<config, clientVars, sslMutex, published, netVars, callVars, pollVars,
                 processVars>>

MainJoins ==
  /\ \/ MainAt("joinPoll")  /\ at["clientPoll"] = "off" /\ MainGoes("joinPacer")
     \/ MainAt("joinPacer") /\ at["pacer"] = "off"      /\ MainGoes("done")
  /\ UNCHANGED <<config, clientVars, connVars, netVars, callVars, pollVars, processVars>>

MainStep ==
  \/ CallStep("main")
  \/ StartConnection \/ StartThrows \/ StartReturns \/ MainDeadline \/ MainStopPumps
  \/ MainStopPumped \/ MainLeaves \/ MainForces \/ MainJoins

\* A pass of the pacer: one message on a connection that is due, or, after the stop,
\* a look whether it is drained.  Passes without effect are left out.
PacerPumps(c) ==
  /\ at["pacer"] = "idle" /\ c \in connected
  /\ Batch(c, 1) > 0 \/ Drained(c)
  /\ PumpSends("pacer", c, 1)
  /\ UNCHANGED <<config, connected, connVars, netVars, placeVars, pollVars, processVars>>

PacerEnds ==
  /\ at["pacer"] = "idle" /\ ~InCall("pacer")
  /\ gStopRequested["client"] \/ at["main"] = "joinPacer"
  /\ at' = [at EXCEPT !["pacer"] = "off"]
  /\ UNCHANGED <<config, clientVars, connVars, netVars, callVars, mainNext, pollVars,
                 processVars>>

PacerStep == CallStep("pacer") \/ PacerEnds \/ \E c \in Conns : PacerPumps(c)

-----------------------------------------------------------------------------
(* PollLoop and HandlePollEvents of side s.                                *)

PollAt(s, place) == at[PollOf(s)] = place /\ ~InCall(PollOf(s))
PollGoes(s, place) == at' = [at EXCEPT ![PollOf(s)] = place] /\ UNCHANGED mainNext

\* The connections poll() is called with.
Polled(s) == (IF s = "client" THEN connected ELSE published) \ closed[s]

PeerEnded(s, c) == c \in closed[Peer(s)] \/ (s = "server" /\ c \in halfClosed)

\* Mutant: only a transport without connections ends the loop.
QuitsWhenTaken(s) == s = "client" /\ at["main"] \in {"joinPoll", "joinPacer", "done"}

\* The loop ends: the process was signalled, or the client's Stop took the connections.
Quits(s) ==
  gStopRequested[s] \/ (s = "client" /\ at["main"] \in {"joinPoll", "joinPacer", "done"})

PollEnds(s) ==
  /\ PollAt(s, "poll") /\ Quits(s) /\ PollGoes(s, "off")
  /\ UNCHANGED <<config, clientVars, connVars, netVars, callVars, pollVars, processVars>>

\* poll() returns events.  POLLHUP, which any of them may have, needs a peer that has
\* closed or half-closed.
PollReturns(s) ==
  /\ PollAt(s, "poll") /\ ~Quits(s)
  /\ LET ended == {c \in Polled(s) : PeerEnded(s, c)}
         ready == {c \in Polled(s) : wire[s][c] > 0} \cup ended
     IN  /\ ready # {}
         /\ readable' = [readable EXCEPT ![s] = ready]
         /\ \E hung \in SUBSET ended : hungUp' = [hungUp EXCEPT ![s] = hung]
  /\ PollGoes(s, "next")
  /\ UNCHANGED <<config, clientVars, connVars, netVars, callVars, processVars>>

\* The next connection with events.  One that was closed meanwhile is passed over,
\* one that hung up is closed with what it has not been read of.
HandlePollEvents(s) ==
  /\ PollAt(s, "next")
  /\ \E c \in readable[s] :
       /\ \A other \in readable[s] : c <= other
       /\ readable' = [readable EXCEPT ![s] = @ \ {c}]
       /\ hungUp'   = [hungUp EXCEPT ![s] = @ \ {c}]
       /\ \/ /\ c \in closed[s]
             /\ UNCHANGED <<placeVars, conn, closed, closedConnections>>
          \/ /\ c \in hungUp[s] \ closed[s]
             /\ Close(s, c) /\ OnClosed(s, c)
             /\ UNCHANGED <<placeVars, conn>>
          \/ /\ c \notin hungUp[s] \cup closed[s]
             /\ PollGoes(s, "read") /\ conn' = [conn EXCEPT ![PollOf(s)] = c]
             /\ UNCHANGED <<closed, closedConnections>>
  /\ UNCHANGED <<config, connected, nextSequence, echoedMessages, sendClosed, stopSending,
                 sslMutex, published, netVars, call, hand, shouldClose, processVars>>

PassEnds(s) ==
  /\ PollAt(s, "next") /\ readable[s] = {} /\ PollGoes(s, "poll")
  /\ UNCHANGED <<config, clientVars, connVars, netVars, callVars, pollVars, processVars>>

\* The loop of HandlePollEvents reads until there is nothing left.
ReadLoop(s) ==
  /\ PollAt(s, "read")
  /\ PollGoes(s, IF Shut(PollOf(s)) \/ gStopRequested[s] THEN "next" ELSE "reading")
  /\ UNCHANGED <<config, clientVars, connVars, netVars, callVars, pollVars, processVars>>

Reads(s) == PollAt(s, "reading") /\ MutexFree(s, conn[PollOf(s)])

\* SSL_read_ex returns a frame.  OnData of the server echoes it; OnData of the client
\* counts it, and then pumps if nothing is paced.
ReadsFrame(s) ==
  LET p == PollOf(s)
      c == conn[p]
  IN  /\ Reads(s) /\ ~Shut(p) /\ wire[s][c] > 0
      /\ wire' = [wire EXCEPT ![s][c] = @ - 1]
      /\ \/ /\ s = "server"
            /\ hand' = [hand EXCEPT ![p] = 1] /\ PollGoes(s, "read")
            /\ UNCHANGED echoedMessages
         \/ /\ s = "client"
            /\ echoedMessages' = [echoedMessages EXCEPT ![c] = @ + 1]
            /\ PollGoes(s, IF config.paced THEN "read" ELSE "pump") /\ UNCHANGED hand
      /\ UNCHANGED <<config, connected, nextSequence, sendClosed, stopSending,
                     closedConnections, connVars, halfClosed, call, conn, shouldClose,
                     pollVars, processVars>>

ClientPumps ==
  /\ PollAt("client", "pump")
  /\ PumpSends("clientPoll", conn["clientPoll"], config.messages)
  /\ PollGoes("client", "read")
  /\ UNCHANGED <<config, connected, connVars, netVars, pollVars, processVars>>

\* The receive timeout: SSL_ERROR_WANT_READ.
ReadsNothing(s) ==
  /\ Reads(s) /\ wire[s][conn[PollOf(s)]] = 0 /\ ~PeerEnded(s, conn[PollOf(s)])
  /\ PollGoes(s, "next")
  /\ UNCHANGED <<config, clientVars, connVars, netVars, callVars, pollVars, processVars>>

\* The end of the peer's data, or an error because the connection was closed meanwhile.
ReadsEnd(s) ==
  LET c == conn[PollOf(s)]
  IN  /\ Reads(s)
      /\ Shut(PollOf(s)) \/ (wire[s][c] = 0 /\ PeerEnded(s, c))
      /\ PollGoes(s, "next") /\ Close(s, c) /\ OnClosed(s, c)
      /\ UNCHANGED <<config, connected, nextSequence, echoedMessages, sendClosed, stopSending,
                     sslMutex, published, netVars, callVars, pollVars, processVars>>

PollStep(s) ==
  \/ CallStep(PollOf(s))
  \/ PollEnds(s) \/ PollReturns(s) \/ HandlePollEvents(s) \/ PassEnds(s) \/ ReadLoop(s)
  \/ ReadsFrame(s) \/ (s = "client" /\ ClientPumps) \/ ReadsNothing(s) \/ ReadsEnd(s)

-----------------------------------------------------------------------------
(* The server's accept thread, SctpServer::Run and Stop; signals.          *)

\* AcceptLoop, after the handshake.
Publishes(c) ==
  /\ c \in connected \ published
  /\ published' = published \cup {c}
  /\ UNCHANGED <<config, clientVars, closed, sslMutex, netVars, callVars, placeVars, pollVars,
                 processVars>>

SignalHandler(s) ==
  /\ config.signals /\ ~gStopRequested[s]
  /\ gStopRequested' = [gStopRequested EXCEPT ![s] = TRUE]
  /\ UNCHANGED <<config, clientVars, connVars, netVars, callVars, placeVars, pollVars, serverPc>>

\* Stop shuts the listeners down and joins the accept threads, then the poll thread,
\* and closes the connections only after that.
ServerStops ==
  /\ \/ /\ serverPc = "serving" /\ gStopRequested["server"]
        /\ serverPc' = "joinAccept" /\ UNCHANGED closed
     \/ /\ serverPc = "joinAccept" /\ connected \subseteq published
        /\ serverPc' = "joinPoll" /\ UNCHANGED closed
     \/ /\ serverPc = "joinPoll" /\ at["serverPoll"] = "off"
        /\ serverPc' = "done" /\ closed' = [closed EXCEPT !["server"] = published]
  /\ UNCHANGED <<config, clientVars, sslMutex, published, netVars, callVars, placeVars, pollVars,
                 gStopRequested>>

\* The client has ended; the server runs on for the next one.
Terminated ==
  /\ at["main"] = "done" /\ UNCHANGED vars

Next ==
  \/ MainStep \/ PacerStep \/ (\E s \in Sides : PollStep(s))
  \/ (\E c \in Conns : Publishes(c)) \/ (\E s \in Sides : SignalHandler(s)) \/ ServerStops
  \/ MainWaits \/ Terminated

Spec == Init /\ [][Next]_vars

\* Every thread keeps running, and gets ssl_mutex_ if it is free again and again.
FairSpec ==
  /\ Spec
  /\ SF_vars(MainStep) /\ SF_vars(PacerStep) /\ \A s \in Sides : SF_vars(PollStep(s))
  /\ \A c \in AllConns : WF_vars(Publishes(c))
  /\ WF_vars(ServerStops)

-----------------------------------------------------------------------------
(* Properties.                                                             *)

\* The types of the variables; a direction never holds more than its capacity.
TypeOK ==
  /\ config \in Configs
  /\ connected \in SUBSET AllConns /\ sendClosed \in SUBSET AllConns
  /\ closedConnections \in SUBSET AllConns /\ stopSending \in BOOLEAN
  /\ nextSequence \in [AllConns -> Nat] /\ echoedMessages \in [AllConns -> Nat]
  /\ closed \in [Sides -> SUBSET AllConns] /\ published \in SUBSET AllConns
  /\ sslMutex \in [Sides -> [AllConns -> Threads \cup {Nobody}]]
  /\ wire \in [Sides -> [AllConns -> 0 .. Capacity]] /\ halfClosed \in SUBSET AllConns
  /\ call \in [Threads -> {"send", "write", "wait"}] /\ conn \in [Threads -> AllConns]
  /\ hand \in [Threads -> Nat] /\ shouldClose \in [Threads -> BOOLEAN]
  /\ at \in [Threads -> {"start", "running", "stopPumps", "force", "joinPoll", "joinPacer",
                         "done", "off", "idle", "poll", "next", "read", "reading", "pump"}]
  /\ mainNext \in Nat
  /\ readable \in [Sides -> SUBSET AllConns] /\ hungUp \in [Sides -> SUBSET AllConns]
  /\ gStopRequested \in [Sides -> BOOLEAN]
  /\ serverPc \in {"serving", "joinAccept", "joinPoll", "done"}

\* What the sockets can take whoever does not read.  A connection on its own may have
\* both directions full and, but for one frame, a frame in hand on each side.  With
\* more connections a poll thread may be blocked on one while the other side is
\* blocked on another, unless a full window fits in one direction.
Fits == config.maxInflight <= IF config.clients = 1 THEN 2 * Capacity + 1 ELSE Capacity

Blocked(t) == hand[t] > 0 /\ ~Dead(t) /\ ~Room(t)

\* The server's poll thread and a sender of the client never wait for each other's
\* reads: SendCopy may block the very thread that has to make room for the other side.
NoMutualBlock ==
  Fits => ~(Blocked("serverPoll") /\ \E t \in {"main", "pacer", "clientPoll"} : Blocked(t))

\* Run ends: always once Start has returned, because the drain deadline closes the
\* connections under blocked writers; and Start returns if the windows fit.
ClientEnds == (Fits \/ at["main"] = "running") ~> (at["main"] = "done")

\* After a signal the server ends, though Stop joins the poll thread before it closes
\* the connections that may block it.
ServerEnds == (Fits /\ gStopRequested["server"]) ~> (serverPc = "done")

=============================================================================
