---------------------------- MODULE TlsEcho_proofs ----------------------------
(***************************************************************************)
(* Proofs about TlsEcho, for every number of connections, every window and *)
(* every size of the sockets: the types, and that the two ends never block *)
(* each other if the windows fit.  The argument counts frames: one that is *)
(* in a socket or in a thread's hands is outstanding, and the window bounds*)
(* what is outstanding.                                                    *)
(***************************************************************************)
EXTENDS TlsEcho, TLAPS

\* Threads, transports and poll sets know connections of this run only.
InUse ==
  /\ connected \subseteq Conns /\ published \subseteq Conns
  /\ \A s \in Sides : readable[s] \subseteq Conns
  /\ \A t \in Threads : conn[t] \in Conns

\* The frames of connection c that thread t has still to write.
InHand(t, c) == IF conn[t] = c THEN hand[t] ELSE 0

\* Frames of connection c between PumpSends and OnData that are not lost.
OnWire(c)  == wire["client"][c] + wire["server"][c]
InHands(c) == InHand("main", c) + InHand("pacer", c) + InHand("clientPoll", c)
                + InHand("serverPoll", c)
Underway(c) == OnWire(c) + InHands(c)

Outstanding(c) == nextSequence[c] - echoedMessages[c]

FramesOf(c) ==
  /\ Underway(c) <= Outstanding(c) /\ Outstanding(c) <= config.maxInflight
  /\ nextSequence[c] <= config.messages

IInv == TypeOK /\ InUse /\ \A c \in AllConns : FramesOf(c)

-----------------------------------------------------------------------------
(* The operators.                                                          *)

LEMMA ConfigTypes ==
  ASSUME TypeOK
  PROVE  /\ config.clients \in Nat \ {0} /\ config.maxInflight \in Nat \ {0}
         /\ config.messages \in Nat
         /\ Conns \subseteq AllConns /\ Conns \subseteq Int /\ 0 \in Conns
<1>1. config \in Configs /\ config \in ConfigType
  BY TlsAssumption DEF TypeOK
<1>2. config.clients \in Nat \ {0} /\ config.maxInflight \in Nat \ {0} /\ config.messages \in Nat
  BY <1>1 DEF ConfigType
<1> QED
  BY <1>1, <1>2 DEF Conns, AllConns

\* What PumpSends takes is no more than the window leaves open.
LEMMA BatchBounds ==
  ASSUME TypeOK, NEW c \in AllConns, Outstanding(c) <= config.maxInflight,
         NEW limit \in Nat, nextSequence[c] <= config.messages
  PROVE  /\ Batch(c, limit) \in Nat /\ nextSequence[c] + Batch(c, limit) <= config.messages
         /\ Outstanding(c) + Batch(c, limit) <= config.maxInflight
<1> DEFINE S == {limit, Open(c), config.messages - nextSequence[c]}
<1>1. /\ limit \in Nat /\ Open(c) \in Nat /\ config.messages - nextSequence[c] \in Nat
      /\ Open(c) = config.maxInflight - Outstanding(c) /\ Outstanding(c) \in Int
      /\ nextSequence[c] \in Nat /\ config.messages \in Nat /\ config.maxInflight \in Nat
  BY ConfigTypes DEF TypeOK, Open, Outstanding
<1>2. \E x \in S : \A y \in S : x <= y
  BY <1>1
<1>3. Min(S) \in S /\ \A y \in S : Min(S) <= y
  BY <1>2 DEF Min
<1>4. Min(S) \in Nat /\ Min(S) <= Open(c) /\ Min(S) <= config.messages - nextSequence[c]
  BY <1>1, <1>3
<1>5. CASE stopSending \/ c \in sendClosed
  BY <1>1, <1>5 DEF Batch
<1>6. CASE ~(stopSending \/ c \in sendClosed)
  <2>1. Batch(c, limit) = Min(S)
    BY <1>6 DEF Batch
  <2> QED
    BY <1>1, <1>4, <2>1
<1> QED
  BY <1>5, <1>6

\* The threads, spelled out.
LEMMA FourThreads ==
  /\ "main" \in Threads /\ "pacer" \in Threads /\ "clientPoll" \in Threads
  /\ "serverPoll" \in Threads
  /\ \A s \in Sides : PollOf(s) \in Threads /\ Peer(s) \in Sides
  /\ \A t \in Threads : SideOf(t) \in Sides /\ Peer(SideOf(t)) \in Sides
BY DEF Threads, Sides, PollOf, Peer, SideOf

-----------------------------------------------------------------------------
(* The initial states.                                                     *)

LEMMA InitIInv == Init => IInv
<1> SUFFICES ASSUME Init PROVE IInv
  OBVIOUS
<1>1. config \in Configs /\ config \in ConfigType
  BY TlsAssumption DEF Init
<1>2. /\ config.clients \in Nat \ {0} /\ config.maxInflight \in Nat \ {0}
      /\ config.messages \in Nat
  BY <1>1 DEF ConfigType
<1>3. Conns \subseteq AllConns /\ 0 \in Conns
  BY <1>1, <1>2 DEF Conns, AllConns
<1>4. TypeOK
  <2>1. /\ nextSequence \in [AllConns -> Nat] /\ echoedMessages \in [AllConns -> Nat]
        /\ hand \in [Threads -> Nat] /\ shouldClose \in [Threads -> BOOLEAN]
        /\ conn \in [Threads -> AllConns] /\ call \in [Threads -> {"send", "write", "wait"}]
    BY <1>3 DEF Init
  <2>2. wire \in [Sides -> [AllConns -> 0 .. Capacity]]
    BY TlsAssumption DEF Init
  <2>3. sslMutex \in [Sides -> [AllConns -> Threads \cup {Nobody}]]
    BY DEF Init
  <2>4. at \in [Threads -> {"start", "running", "stopPumps", "force", "joinPoll", "joinPacer",
                         "done", "off", "idle", "poll", "next", "read", "reading", "pump"}]
    BY DEF Init
  <2> QED
    BY <1>1, <2>1, <2>2, <2>3, <2>4 DEF Init, TypeOK
<1>5. InUse
  BY <1>3, FourThreads DEF Init, InUse
<1>6. \A c \in AllConns : FramesOf(c)
  BY <1>2, FourThreads DEF Init, FramesOf, Underway, OnWire, InHands, Outstanding, InHand,
                              Sides
<1> QED
  BY <1>4, <1>5, <1>6 DEF IInv

-----------------------------------------------------------------------------
(* The calls.                                                              *)

\* A step that takes nothing up and puts nothing on the wire keeps the count.
LEMMA NothingTaken ==
  ASSUME TypeOK, TypeOK', NEW c \in AllConns, FramesOf(c),
         UNCHANGED <<config, nextSequence, echoedMessages, wire>>,
         \A t \in Threads : InHand(t, c)' <= InHand(t, c)
  PROVE  FramesOf(c)'
<1>1. /\ \A t \in Threads : InHand(t, c) \in Nat /\ InHand(t, c)' \in Nat
      /\ wire["client"][c] \in Nat /\ wire["server"][c] \in Nat
  BY TlsAssumption DEF TypeOK, InHand, Sides
<1>2. Underway(c)' <= Underway(c)
  BY <1>1, FourThreads DEF Underway, OnWire, InHands
<1>3. Underway(c) \in Nat /\ Underway(c)' \in Nat
  BY <1>1, FourThreads DEF Underway, OnWire, InHands
<1>4. Outstanding(c)' = Outstanding(c) /\ Outstanding(c) \in Int
  BY DEF Outstanding, TypeOK
<1> QED
  BY <1>2, <1>3, <1>4, ConfigTypes DEF FramesOf

\* A thread that drops what it has in hand, all or a part.
LEMMA HandFalls ==
  ASSUME TypeOK, NEW t \in Threads, NEW n \in Nat, n <= hand[t],
         hand' = [hand EXCEPT ![t] = n], conn' = conn
  PROVE  \A c \in AllConns, u \in Threads : InHand(u, c)' <= InHand(u, c)
BY DEF TypeOK, InHand

LEMMA CallTypes ==
  ASSUME IInv, NEW t \in Threads, CallStep(t)
  PROVE  TypeOK'
<1> DEFINE s == SideOf(t)
<1>0. /\ TypeOK /\ Capacity \in Nat \ {0} /\ s \in Sides /\ Peer(s) \in Sides
      /\ conn[t] \in AllConns /\ hand[t] \in Nat
  BY TlsAssumption, FourThreads DEF IInv, TypeOK
<1>m. ASSUME NEW h \in Threads \cup {Nobody}, MutexIs(t, h)
      PROVE  sslMutex' \in [Sides -> [AllConns -> Threads \cup {Nobody}]]
  BY <1>0, <1>m DEF MutexIs, TypeOK
<1>1. CASE SendDropped(t)
  <2>1. hand' \in [Threads -> Nat] /\ call' \in [Threads -> {"send", "write", "wait"}]
    BY <1>0, <1>1 DEF SendDropped, TypeOK
  <2>2. sslMutex' \in [Sides -> [AllConns -> Threads \cup {Nobody}]]
    BY <1>0, <1>1, <1>m DEF SendDropped, TypeOK
  <2> QED
    BY <1>0, <1>1, <2>1, <2>2
    DEF SendDropped, TypeOK, clientVars, netVars, placeVars, pollVars, processVars
<1>2. CASE SendsFrame(t)
  <2>1. hand' \in [Threads -> Nat] /\ call' \in [Threads -> {"send", "write", "wait"}]
    BY <1>0, <1>2 DEF SendsFrame, TypeOK
  <2>2. sslMutex' \in [Sides -> [AllConns -> Threads \cup {Nobody}]]
    BY <1>0, <1>2, <1>m DEF SendsFrame, TypeOK
  <2>3. wire[Peer(s)][conn[t]] + 1 \in 0 .. Capacity
    BY <1>0, <1>2 DEF SendsFrame, TypeOK, Room
  <2>4. wire' \in [Sides -> [AllConns -> 0 .. Capacity]]
    BY <1>0, <1>2, <2>3 DEF SendsFrame, TypeOK
  <2> QED
    BY <1>0, <1>2, <2>1, <2>2, <2>4
    DEF SendsFrame, TypeOK, clientVars, placeVars, pollVars, processVars
<1>3. CASE SendBlocks(t) \/ WantsWrite(t) \/ WaitForSocketReady(t)
  <2>1. call' \in [Threads -> {"send", "write", "wait"}]
    BY <1>0, <1>3 DEF SendBlocks, WantsWrite, WaitForSocketReady, TypeOK
  <2>2. sslMutex' \in [Sides -> [AllConns -> Threads \cup {Nobody}]]
    BY <1>0, <1>3, <1>m DEF SendBlocks, WantsWrite, WaitForSocketReady, TypeOK, connVars
  <2> QED
    BY <1>0, <1>3, <2>1, <2>2
    DEF SendBlocks, WantsWrite, WaitForSocketReady, TypeOK, clientVars, connVars, netVars,
        placeVars, pollVars, processVars
<1>4. CASE SendFails(t)
  <2>0. /\ hand[t] > 0 /\ call' = [call EXCEPT ![t] = "send"]
        /\ UNCHANGED sslMutex \/ MutexIs(t, Nobody)
        /\ hand' = [hand EXCEPT ![t] = hand[t] - 1] \/ hand' = [hand EXCEPT ![t] = 0]
        /\ UNCHANGED closed \/ closed' = [closed EXCEPT ![s] = closed[s] \cup {conn[t]}]
        /\ \/ UNCHANGED closedConnections
           \/ closedConnections' = closedConnections \cup {conn[t]}
        /\ UNCHANGED shouldClose \/ shouldClose' = [shouldClose EXCEPT ![t] = FALSE]
        /\ UNCHANGED mainNext \/ mainNext' = 0
        /\ UNCHANGED at \/ \E p \in {"force", "idle", "next"} : at' = [at EXCEPT ![t] = p]
    <3>1. CASE hand' = [hand EXCEPT ![t] = hand[t] - 1]
               /\ UNCHANGED <<closed, closedConnections, shouldClose, placeVars>>
      BY <1>4, <3>1 DEF SendFails, placeVars
    <3>2. CASE /\ hand' = [hand EXCEPT ![t] = 0]
               /\ shouldClose' = [shouldClose EXCEPT ![t] = FALSE]
               /\ Close(SideOf(t), conn[t])
               /\ IF t \in {"clientPoll", "serverPoll"} THEN OnClosed(SideOf(t), conn[t])
                                                        ELSE UNCHANGED closedConnections
               /\ at' = [at EXCEPT ![t] = IF t = "main" THEN "force"
                                          ELSE IF t = "pacer" THEN "idle" ELSE "next"]
               /\ mainNext' = IF t = "main" THEN 0 ELSE mainNext
      <4>1. UNCHANGED closedConnections \/ closedConnections' = closedConnections \cup {conn[t]}
        BY <3>2 DEF OnClosed
      <4>2. UNCHANGED mainNext \/ mainNext' = 0
        BY <3>2
      <4>3. \E p \in {"force", "idle", "next"} : at' = [at EXCEPT ![t] = p]
        BY <3>2
      <4> QED
        BY <1>4, <3>2, <4>1, <4>2, <4>3 DEF SendFails, Close
    <3> QED
      BY <1>4, <3>1, <3>2 DEF SendFails
  <2>t. /\ hand \in [Threads -> Nat] /\ call \in [Threads -> {"send", "write", "wait"}]
        /\ closed \in [Sides -> SUBSET AllConns] /\ closedConnections \in SUBSET AllConns
        /\ shouldClose \in [Threads -> BOOLEAN] /\ mainNext \in Nat
    BY <1>0 DEF TypeOK
  <2>1. hand' \in [Threads -> Nat]
    <3>1. hand[t] - 1 \in Nat /\ 0 \in Nat
      BY <1>0, <2>0
    <3> QED
      BY <2>t, <2>0, <3>1
  <2>7. call' \in [Threads -> {"send", "write", "wait"}]
    BY <2>t, <2>0
  <2>2. sslMutex' \in [Sides -> [AllConns -> Threads \cup {Nobody}]]
    BY <1>0, <2>0, <1>m DEF TypeOK
  <2>3. closed' \in [Sides -> SUBSET AllConns]
    <3>1. closed[s] \cup {conn[t]} \in SUBSET AllConns
      BY <1>0, <2>t
    <3> QED
      BY <1>0, <2>t, <2>0, <3>1
  <2>8. closedConnections' \in SUBSET AllConns
    BY <1>0, <2>t, <2>0
  <2>4. shouldClose' \in [Threads -> BOOLEAN] /\ mainNext' \in Nat
    <3>1. mainNext' \in Nat
      BY <2>t, <2>0
    <3>2. CASE UNCHANGED shouldClose
      BY <2>t, <3>1, <3>2
    <3>3. CASE shouldClose' = [shouldClose EXCEPT ![t] = FALSE]
      BY <2>t, <3>1, <3>3
    <3> QED
      BY <2>0, <3>2, <3>3
  <2>5. at' \in [Threads -> {"start", "running", "stopPumps", "force", "joinPoll", "joinPacer",
                         "done", "off", "idle", "poll", "next", "read", "reading", "pump"}]
    BY <1>0, <2>0 DEF TypeOK
  <2>6. UNCHANGED <<config, connected, nextSequence, echoedMessages, sendClosed, stopSending,
                    published, netVars, conn, pollVars, processVars>>
    BY <1>4 DEF SendFails
  <2> QED
    BY <1>0, <2>1, <2>2, <2>3, <2>4, <2>5, <2>6, <2>7, <2>8
    DEF TypeOK, netVars, pollVars, processVars
<1>5. CASE CloseSend(t)
  <2>1. shouldClose' \in [Threads -> BOOLEAN] /\ halfClosed' \in SUBSET AllConns
    BY <1>0, <1>5 DEF CloseSend, TypeOK
  <2> QED
    BY <1>0, <1>5, <2>1
    DEF CloseSend, TypeOK, clientVars, connVars, placeVars, pollVars, processVars
<1> QED
  BY <1>1, <1>2, <1>3, <1>4, <1>5 DEF CallStep

\* A call only ever empties its hands: onto the wire, or into nothing.
LEMMA CallFrames ==
  ASSUME IInv, TypeOK', NEW t \in Threads, CallStep(t), NEW c \in AllConns
  PROVE  FramesOf(c)'
<1>0. /\ TypeOK /\ FramesOf(c) /\ conn[t] \in AllConns /\ hand[t] \in Nat
      /\ SideOf(t) \in Sides /\ Peer(SideOf(t)) \in Sides
  BY FourThreads DEF IInv, TypeOK
<1>1. CASE SendsFrame(t)
  <2> DEFINE s == Peer(SideOf(t))
  <2>1. /\ wire' = [wire EXCEPT ![s][conn[t]] = @ + 1]
        /\ hand' = [hand EXCEPT ![t] = @ - 1] /\ conn' = conn
        /\ UNCHANGED <<config, nextSequence, echoedMessages>>
    BY <1>1 DEF SendsFrame, clientVars
  <2>2. \A u \in Sides : wire[u][c] \in Nat
    BY <1>0, TlsAssumption DEF TypeOK
  <2>3. \A u \in Threads : InHand(u, c) \in Nat
    BY <1>0 DEF TypeOK, InHand
  <2>4. CASE conn[t] # c
    <3>1. \A u \in Sides : wire'[u][c] = wire[u][c]
      BY <1>0, <2>1, <2>4 DEF TypeOK
    <3>2. \A u \in Threads : InHand(u, c)' = InHand(u, c)
      BY <1>0, <2>1, <2>4 DEF TypeOK, InHand
    <3>3. Underway(c)' = Underway(c)
      BY <3>1, <3>2, FourThreads DEF Underway, OnWire, InHands, Sides
    <3> QED
      BY <1>0, <2>1, <3>3 DEF FramesOf, Outstanding
  <2>5. CASE conn[t] = c
    <3>1. \A u \in Sides : wire'[u][c] = IF u = s THEN wire[u][c] + 1 ELSE wire[u][c]
      BY <1>0, <2>1, <2>5 DEF TypeOK
    <3>2. \A u \in Threads : InHand(u, c)' = IF u = t THEN InHand(u, c) - 1 ELSE InHand(u, c)
      BY <1>0, <2>1, <2>5 DEF TypeOK, InHand
    <3>3. Underway(c)' = Underway(c)
      <4>1. OnWire(c)' = OnWire(c) + 1 /\ OnWire(c) \in Int
        BY <1>0, <2>2, <3>1 DEF Sides, OnWire
      <4>2. InHands(c)' = InHands(c) - 1 /\ InHands(c) \in Int
        BY <2>3, <3>2, FourThreads DEF Threads, InHands
      <4> QED
        BY <4>1, <4>2 DEF Underway
    <3> QED
      BY <1>0, <2>1, <3>3 DEF FramesOf, Outstanding
  <2> QED
    BY <2>4, <2>5
<1>2. CASE SendDropped(t)
  <2>1. /\ UNCHANGED <<config, nextSequence, echoedMessages, wire, conn>>
        /\ hand' = [hand EXCEPT ![t] = 0] /\ 0 \in Nat /\ 0 <= hand[t]
    BY <1>0, <1>2 DEF SendDropped, clientVars, netVars
  <2>2. \A u \in Threads : InHand(u, c)' <= InHand(u, c)
    BY <1>0, <2>1, HandFalls
  <2> QED
    BY <1>0, <2>1, <2>2, NothingTaken
<1>3. CASE SendFails(t)
  <2>1. UNCHANGED <<config, nextSequence, echoedMessages, wire, conn>>
    BY <1>3 DEF SendFails, netVars
  <2>2. PICK n \in {0, hand[t] - 1} : hand' = [hand EXCEPT ![t] = n]
    BY <1>0, <1>3 DEF SendFails, TypeOK
  <2>3. n \in Nat /\ n <= hand[t]
    BY <1>0, <1>3 DEF SendFails
  <2>4. \A u \in Threads : InHand(u, c)' <= InHand(u, c)
    BY <1>0, <2>1, <2>2, <2>3, HandFalls
  <2> QED
    BY <1>0, <2>1, <2>4, NothingTaken
<1>4. CASE SendBlocks(t) \/ WantsWrite(t) \/ WaitForSocketReady(t) \/ CloseSend(t)
  <2>1. UNCHANGED <<config, nextSequence, echoedMessages, wire, conn, hand>>
    BY <1>4
    DEF SendBlocks, WantsWrite, WaitForSocketReady, CloseSend, clientVars, netVars
  <2>2. \A u \in Threads : InHand(u, c)' <= InHand(u, c)
    BY <1>0, <2>1 DEF TypeOK, InHand
  <2> QED
    BY <1>0, <2>1, <2>2, NothingTaken
<1> QED
  BY <1>1, <1>2, <1>3, <1>4 DEF CallStep

LEMMA CallIInv ==
  ASSUME IInv, NEW t \in Threads, CallStep(t)
  PROVE  IInv'
<1>1. TypeOK'
  BY CallTypes
<1>2. InUse'
  <2>1. UNCHANGED <<config, connected, published, readable, conn>>
    BY DEF CallStep, SendDropped, SendsFrame, SendBlocks, WantsWrite, WaitForSocketReady,
           SendFails, CloseSend, clientVars, connVars, pollVars
  <2> QED
    BY <2>1 DEF IInv, InUse, Conns
<1>3. AllConns' = AllConns
  BY DEF AllConns
<1> QED
  BY <1>1, <1>2, <1>3, CallFrames DEF IInv

-----------------------------------------------------------------------------
(* PumpSends, in the hands of main, the pacer or the client's poll thread.  *)

LEMMA PumpTypes ==
  ASSUME IInv, NEW t \in Threads, NEW c \in Conns, NEW limit \in Nat, PumpSends(t, c, limit)
  PROVE  /\ nextSequence' \in [AllConns -> Nat] /\ hand' \in [Threads -> Nat]
         /\ shouldClose' \in [Threads -> BOOLEAN] /\ sendClosed' \in SUBSET AllConns
         /\ conn' \in [Threads -> AllConns] /\ \A u \in Threads : conn'[u] \in Conns
         /\ UNCHANGED <<echoedMessages, stopSending, closedConnections, call>>
<1>0. /\ TypeOK /\ InUse /\ c \in AllConns /\ FramesOf(c)
      /\ nextSequence \in [AllConns -> Nat] /\ hand \in [Threads -> Nat]
      /\ shouldClose \in [Threads -> BOOLEAN] /\ sendClosed \in SUBSET AllConns
      /\ conn \in [Threads -> AllConns] /\ stopSending \in BOOLEAN
  BY ConfigTypes DEF IInv, TypeOK
<1>1. Batch(c, limit) \in Nat /\ nextSequence[c] + Batch(c, limit) \in Nat
  BY <1>0, BatchBounds DEF FramesOf
<1>2. Drained(c) \in BOOLEAN
  BY DEF Drained
<1>3. nextSequence' \in [AllConns -> Nat] /\ hand' \in [Threads -> Nat]
  BY <1>0, <1>1 DEF PumpSends
<1>4. shouldClose' \in [Threads -> BOOLEAN]
  BY <1>0, <1>2, Zenon DEF PumpSends
<1>5. sendClosed' \in SUBSET AllConns
  BY <1>0 DEF PumpSends
<1>6. conn' \in [Threads -> AllConns] /\ \A u \in Threads : conn'[u] \in Conns
  BY <1>0 DEF PumpSends, InUse
<1> QED
  BY <1>3, <1>4, <1>5, <1>6 DEF PumpSends

LEMMA PumpFrames ==
  ASSUME IInv, NEW t \in Threads, NEW c \in Conns, NEW limit \in Nat, PumpSends(t, c, limit),
         UNCHANGED <<config, wire>>, NEW d \in AllConns
  PROVE  FramesOf(d)'
<1>0. /\ TypeOK /\ c \in AllConns /\ FramesOf(c) /\ FramesOf(d)
      /\ nextSequence \in [AllConns -> Nat] /\ hand \in [Threads -> Nat]
      /\ conn \in [Threads -> AllConns] /\ echoedMessages \in [AllConns -> Nat]
  BY ConfigTypes DEF IInv, TypeOK
<1> DEFINE B == Batch(c, limit)
<1>1. /\ B \in Nat /\ nextSequence[c] + B <= config.messages
      /\ Outstanding(c) + B <= config.maxInflight
  BY <1>0, BatchBounds DEF FramesOf
<1>2. /\ hand[t] = 0 /\ hand' = [hand EXCEPT ![t] = B] /\ conn' = [conn EXCEPT ![t] = c]
      /\ nextSequence' = [nextSequence EXCEPT ![c] = @ + B] /\ echoedMessages' = echoedMessages
  <2>1. hand[t] = 0
    BY <1>0 DEF PumpSends, InCall
  <2> QED
    BY <2>1 DEF PumpSends
<1>3. OnWire(d)' = OnWire(d) /\ OnWire(d) \in Int
  BY <1>0, TlsAssumption DEF OnWire, TypeOK, Sides
<1>4. \A u \in Threads : InHand(u, d) \in Nat
  BY <1>0 DEF InHand
<1>5. Outstanding(d) \in Int /\ config.messages \in Nat /\ config.maxInflight \in Nat
  BY <1>0, ConfigTypes DEF Outstanding
<1>6. CASE d # c
  <2>1. \A u \in Threads : InHand(u, d)' = InHand(u, d)
    BY <1>0, <1>2, <1>6 DEF InHand
  <2>2. InHands(d)' = InHands(d)
    BY <2>1, FourThreads DEF InHands
  <2>3. Outstanding(d)' = Outstanding(d) /\ nextSequence'[d] = nextSequence[d]
    BY <1>0, <1>2, <1>6 DEF Outstanding
  <2> QED
    BY <1>0, <1>3, <2>2, <2>3 DEF FramesOf, Underway
<1>7. CASE d = c
  <2>1. InHand(t, d) = 0 /\ InHand(t, d)' = B
    BY <1>0, <1>1, <1>2, <1>7 DEF InHand
  <2>2. \A u \in Threads \ {t} : InHand(u, d)' = InHand(u, d)
    BY <1>0, <1>2 DEF InHand
  <2>3. InHands(d)' = InHands(d) + B /\ InHands(d) \in Int
    BY <1>1, <1>4, <2>1, <2>2, FourThreads DEF Threads, InHands
  <2>4. Outstanding(d)' = Outstanding(d) + B /\ nextSequence'[d] = nextSequence[d] + B
    BY <1>0, <1>1, <1>2, <1>7 DEF Outstanding
  <2>5. Underway(d)' = Underway(d) + B /\ Underway(d) \in Int
    BY <1>1, <1>3, <2>3 DEF Underway
  <2> QED
    BY <1>0, <1>1, <1>5, <1>7, <2>4, <2>5 DEF FramesOf
<1> QED
  BY <1>6, <1>7

\* A step that pumps keeps the invariant if it leaves alone what PumpSends does not name.
LEMMA PumpIInv ==
  ASSUME IInv, NEW t \in Threads, NEW c \in Conns, NEW limit \in Nat, PumpSends(t, c, limit),
         UNCHANGED <<config, connVars, netVars, pollVars, processVars>>,
         connected' \in SUBSET Conns, mainNext' \in Nat,
         at' \in [Threads -> {"start", "running", "stopPumps", "force", "joinPoll", "joinPacer",
                              "done", "off", "idle", "poll", "next", "read", "reading", "pump"}]
  PROVE  IInv'
<1>0. TypeOK /\ InUse /\ Conns \subseteq AllConns /\ AllConns' = AllConns /\ Conns' = Conns
  BY ConfigTypes DEF IInv, AllConns, Conns
<1>1. TypeOK'
  BY <1>0, PumpTypes DEF TypeOK, connVars, netVars, pollVars, processVars
<1>2. InUse'
  BY <1>0, PumpTypes DEF InUse, connVars, pollVars
<1>3. \A d \in AllConns : FramesOf(d)'
  BY PumpFrames DEF netVars
<1> QED
  BY <1>0, <1>1, <1>2, <1>3 DEF IInv

-----------------------------------------------------------------------------
(* The other steps of each thread.                                         *)

Places == {"start", "running", "stopPumps", "force", "joinPoll", "joinPacer", "done", "off",
           "idle", "poll", "next", "read", "reading", "pump"}

\* A step that moves no frame.
LEMMA QuietIInv ==
  ASSUME IInv,
         UNCHANGED <<config, nextSequence, echoedMessages, wire, hand>>,
         conn' = conn \/ \E t \in Threads, c \in Conns : /\ conn' = [conn EXCEPT ![t] = c]
                                                         /\ hand[t] = 0,
         connected' \in SUBSET Conns, published' \in SUBSET Conns,
         sendClosed' \in SUBSET AllConns, closedConnections' \in SUBSET AllConns,
         stopSending' \in BOOLEAN, closed' \in [Sides -> SUBSET AllConns],
         UNCHANGED <<sslMutex, halfClosed, call, shouldClose>>,
         at' \in [Threads -> Places], mainNext' \in Nat,
         readable' \in [Sides -> SUBSET Conns], hungUp' \in [Sides -> SUBSET AllConns],
         gStopRequested' \in [Sides -> BOOLEAN],
         serverPc' \in {"serving", "joinAccept", "joinPoll", "done"}
  PROVE  IInv'
<1>0. TypeOK /\ InUse /\ Conns \subseteq AllConns /\ AllConns' = AllConns /\ Conns' = Conns
  BY ConfigTypes DEF IInv, AllConns, Conns
<1>1. conn' \in [Threads -> AllConns] /\ \A t \in Threads : conn'[t] \in Conns
  BY <1>0 DEF TypeOK, InUse
<1>2. readable' \in [Sides -> SUBSET AllConns]
  BY <1>0
<1>3. TypeOK'
  BY <1>0, <1>1, <1>2 DEF TypeOK, Places
<1>4. InUse'
  BY <1>0, <1>1 DEF InUse
<1>5. ASSUME NEW c \in AllConns PROVE FramesOf(c)'
  <2>1. \A t \in Threads : InHand(t, c)' <= InHand(t, c)
    BY <1>0 DEF TypeOK, InHand
  <2> QED
    BY <1>0, <1>3, <2>1, NothingTaken DEF IInv
<1> QED
  BY <1>0, <1>3, <1>4, <1>5 DEF IInv

\* The places and the connections of a state, to cite.
LEMMA StateParts ==
  ASSUME IInv
  PROVE  /\ at \in [Threads -> Places] /\ mainNext \in Nat /\ stopSending \in BOOLEAN
         /\ connected \in SUBSET Conns /\ published \in SUBSET Conns
         /\ sendClosed \in SUBSET AllConns /\ closedConnections \in SUBSET AllConns
         /\ closed \in [Sides -> SUBSET AllConns]
         /\ readable \in [Sides -> SUBSET Conns] /\ hungUp \in [Sides -> SUBSET AllConns]
         /\ gStopRequested \in [Sides -> BOOLEAN]
         /\ serverPc \in {"serving", "joinAccept", "joinPoll", "done"}
         /\ Conns \subseteq AllConns
         /\ \A t \in Threads : conn[t] \in Conns /\ hand[t] \in Nat
BY ConfigTypes DEF IInv, TypeOK, InUse, Places

LEMMA MainIInv ==
  ASSUME IInv, MainStep
  PROVE  IInv'
<1>0. /\ "main" \in Threads /\ "clientPoll" \in Threads /\ "pacer" \in Threads
      /\ "client" \in Sides /\ Conns \subseteq AllConns
  BY FourThreads, StateParts DEF Sides
<1>1. CASE CallStep("main")
  BY <1>0, <1>1, CallIInv
<1>2. CASE StartConnection
  <2>1. /\ mainNext \in Conns /\ connected' = connected \cup {mainNext}
        /\ mainNext' = mainNext + 1 /\ at' = at
        /\ UNCHANGED <<config, connVars, netVars, pollVars, processVars>>
    BY <1>2 DEF StartConnection
  <2>2. /\ connected' \in SUBSET Conns /\ mainNext' \in Nat /\ at' \in [Threads -> Places]
    BY <2>1, StateParts
  <2>3. CASE config.paced
    <3>1. UNCHANGED <<nextSequence, echoedMessages, sendClosed, stopSending, closedConnections,
                      callVars>>
      BY <1>2, <2>3 DEF StartConnection
    <3> QED
      BY <2>1, <2>2, <3>1, StateParts, QuietIInv
      DEF callVars, connVars, netVars, pollVars, processVars
  <2>4. CASE ~config.paced
    <3>1. PumpSends("main", mainNext, config.messages) /\ config.messages \in Nat
      BY <1>2, <2>4, ConfigTypes DEF StartConnection, IInv
    <3> QED
      BY <1>0, <2>1, <2>2, <3>1, PumpIInv DEF Places
  <2> QED
    BY <2>3, <2>4
<1>3. CASE StartThrows \/ MainStopPumped \/ MainLeaves
  BY <1>0, <1>3, StateParts, QuietIInv
  DEF StartThrows, MainStopPumped, MainLeaves, MainGoes, Places, clientVars, connVars, netVars,
      callVars, pollVars, processVars
<1>4. CASE StartReturns
  <2>1. at' \in [Threads -> Places] /\ mainNext' = 0
    BY <1>0, <1>4, StateParts DEF StartReturns, Places
  <2> QED
    BY <1>4, <2>1, StateParts, QuietIInv
    DEF StartReturns, clientVars, connVars, netVars, callVars, pollVars, processVars
<1>5. CASE MainDeadline
  <2>1. at' \in [Threads -> Places] /\ mainNext' = 0 /\ stopSending' = TRUE
    BY <1>0, <1>5, StateParts DEF MainDeadline, MainGoes, Places
  <2> QED
    BY <1>5, <2>1, StateParts, QuietIInv
    DEF MainDeadline, connVars, netVars, callVars, pollVars, processVars
<1>6. CASE MainStopPumps
  <2>1. /\ mainNext \in Conns /\ mainNext' = mainNext + 1 /\ PumpSends("main", mainNext, 0)
        /\ connected' = connected /\ at' = at
        /\ UNCHANGED <<config, connVars, netVars, pollVars, processVars>>
    BY <1>6 DEF MainStopPumps
  <2>2. connected' \in SUBSET Conns /\ mainNext' \in Nat /\ at' \in [Threads -> Places]
    BY <2>1, StateParts
  <2> QED
    BY <1>0, <2>1, <2>2, PumpIInv DEF Places
<1>7. CASE MainForces
  <2>1. CASE mainNext \in connected
    <3>1. /\ closed' \in [Sides -> SUBSET AllConns] /\ mainNext' \in Nat /\ at' = at
      BY <1>0, <1>7, <2>1, StateParts DEF MainForces, Close
    <3> QED
      BY <1>7, <3>1, StateParts, QuietIInv
      DEF MainForces, clientVars, netVars, callVars, pollVars, processVars
  <2>2. CASE mainNext \notin connected
    <3>1. /\ closed' = closed /\ mainNext' = 0 /\ at' \in [Threads -> Places]
      BY <1>0, <1>7, <2>2, StateParts DEF MainForces, MainGoes, Places
    <3> QED
      BY <1>7, <3>1, StateParts, QuietIInv
      DEF MainForces, clientVars, netVars, callVars, pollVars, processVars
  <2> QED
    BY <2>1, <2>2
<1>8. CASE MainJoins
  <2>1. mainNext' = 0 /\ at' \in [Threads -> Places]
    BY <1>0, <1>8, StateParts DEF MainJoins, MainGoes, Places
  <2> QED
    BY <1>8, <2>1, StateParts, QuietIInv
    DEF MainJoins, clientVars, connVars, netVars, callVars, pollVars, processVars
<1> QED
  BY <1>1, <1>2, <1>3, <1>4, <1>5, <1>6, <1>7, <1>8 DEF MainStep

LEMMA PacerIInv ==
  ASSUME IInv, PacerStep
  PROVE  IInv'
<1>0. "pacer" \in Threads
  BY FourThreads
<1>1. CASE CallStep("pacer")
  BY <1>0, <1>1, CallIInv
<1>2. CASE PacerEnds
  <2>1. at' \in [Threads -> Places]
    BY <1>0, <1>2, StateParts DEF PacerEnds, Places
  <2> QED
    BY <1>2, <2>1, StateParts, QuietIInv
    DEF PacerEnds, clientVars, connVars, netVars, callVars, pollVars, processVars
<1>3. ASSUME NEW c \in Conns, PacerPumps(c) PROVE IInv'
  <2>1. /\ PumpSends("pacer", c, 1)
        /\ UNCHANGED <<config, connected, connVars, netVars, placeVars, pollVars, processVars>>
    BY <1>3 DEF PacerPumps
  <2> QED
    BY <1>0, <2>1, StateParts, PumpIInv DEF placeVars, Places
<1> QED
  BY <1>1, <1>2, <1>3 DEF PacerStep

\* A frame leaves the wire: into the hand of the server's poll thread, or counted.
LEMMA ReadsFrameIInv ==
  ASSUME IInv, NEW s \in Sides, ReadsFrame(s)
  PROVE  IInv'
<1> DEFINE p == PollOf(s)
           c == conn[p]
<1>0. /\ TypeOK /\ InUse /\ Conns \subseteq AllConns /\ AllConns' = AllConns /\ Conns' = Conns
      /\ p \in Threads /\ c \in AllConns /\ hand[p] = 0
  <2>1. ~InCall(p) /\ UNCHANGED config
    BY DEF ReadsFrame, Reads, PollAt
  <2>2. p \in Threads /\ conn[p] \in Conns /\ hand[p] \in Nat /\ Conns \subseteq AllConns
    BY FourThreads, StateParts
  <2>3. hand[p] = 0
    BY <2>1, <2>2 DEF InCall
  <2> QED
    BY <2>1, <2>2, <2>3 DEF IInv, AllConns, Conns
<1>1. /\ wire[s][c] > 0 /\ wire' = [wire EXCEPT ![s][c] = @ - 1]
      /\ UNCHANGED <<config, connected, nextSequence, sendClosed, stopSending,
                     closedConnections, connVars, halfClosed, call, conn, shouldClose,
                     pollVars, processVars, mainNext>>
  BY DEF ReadsFrame, PollGoes
<1>2. \/ /\ s = "server" /\ hand' = [hand EXCEPT ![p] = 1] /\ echoedMessages' = echoedMessages
      \/ /\ s = "client" /\ echoedMessages' = [echoedMessages EXCEPT ![c] = @ + 1]
         /\ hand' = hand
  BY DEF ReadsFrame
<1>3. at' \in [Threads -> Places]
  <2>1. \E q \in Places : at' = [at EXCEPT ![p] = q]
    BY DEF ReadsFrame, PollGoes, Places
  <2> QED
    BY <2>1, StateParts
<1>4. wire' \in [Sides -> [AllConns -> 0 .. Capacity]]
  <2>1. wire[s][c] \in 0 .. Capacity /\ wire[s][c] - 1 \in 0 .. Capacity
    BY <1>0, <1>1, TlsAssumption DEF TypeOK
  <2> QED
    BY <1>0, <1>1, <2>1 DEF TypeOK
<1>5. hand' \in [Threads -> Nat] /\ echoedMessages' \in [AllConns -> Nat]
  <2>1. /\ hand \in [Threads -> Nat] /\ echoedMessages \in [AllConns -> Nat]
        /\ echoedMessages[c] + 1 \in Nat /\ 1 \in Nat
    BY <1>0 DEF TypeOK
  <2>2. CASE hand' = [hand EXCEPT ![p] = 1] /\ echoedMessages' = echoedMessages
    BY <2>1, <2>2
  <2>3. CASE echoedMessages' = [echoedMessages EXCEPT ![c] = @ + 1] /\ hand' = hand
    BY <1>0, <2>1, <2>3
  <2> QED
    BY <1>2, <2>2, <2>3
<1>6. TypeOK'
  BY <1>0, <1>1, <1>3, <1>4, <1>5 DEF TypeOK, connVars, pollVars, processVars, Places
<1>7. InUse'
  BY <1>0, <1>1 DEF InUse, connVars, pollVars
<1>8. ASSUME NEW d \in AllConns PROVE FramesOf(d)'
  <2>1. FramesOf(d) /\ conn' = conn /\ nextSequence' = nextSequence /\ config' = config
    BY <1>1 DEF IInv
  <2>2. \A u \in Threads : InHand(u, d) \in Nat
    BY <1>0 DEF TypeOK, InHand
  <2>3. \A x \in Sides : wire[x][d] \in Nat
    BY <1>0, TlsAssumption DEF TypeOK
  <2>4. CASE d # c
    <3>1. OnWire(d)' = OnWire(d)
      BY <1>0, <1>1, <2>4 DEF TypeOK, OnWire
    <3>2. \A u \in Threads : InHand(u, d)' = InHand(u, d)
      BY <1>0, <1>2, <2>1, <2>4 DEF TypeOK, InHand
    <3>3. InHands(d)' = InHands(d) /\ Outstanding(d)' = Outstanding(d)
      BY <1>0, <1>2, <2>1, <2>4, <3>2, FourThreads DEF InHands, Outstanding, TypeOK
    <3> QED
      BY <2>1, <3>1, <3>3 DEF FramesOf, Underway
  <2>5. CASE d = c
    <3>1. \A x \in Sides : wire'[x][d] = IF x = s THEN wire[x][d] - 1 ELSE wire[x][d]
      BY <1>0, <1>1, <2>5 DEF TypeOK
    <3>2. OnWire(d)' = OnWire(d) - 1 /\ OnWire(d) \in Int
      BY <2>3, <3>1 DEF OnWire, Sides
    <3>3. CASE s = "server"
      <4>1. \A u \in Threads : InHand(u, d)' = IF u = p THEN InHand(u, d) + 1 ELSE InHand(u, d)
        BY <1>0, <1>2, <2>1, <2>5, <3>3 DEF TypeOK, InHand
      <4>2. InHands(d)' = InHands(d) + 1 /\ InHands(d) \in Int
        BY <1>0, <2>2, <4>1, FourThreads DEF Threads, InHands
      <4>3. Underway(d)' = Underway(d)
        BY <3>2, <4>2 DEF Underway
      <4>4. Outstanding(d)' = Outstanding(d)
        BY <1>2, <2>1, <3>3 DEF Outstanding
      <4> QED
        BY <2>1, <4>3, <4>4 DEF FramesOf
    <3>4. CASE s = "client"
      <4>1. \A u \in Threads : InHand(u, d)' = InHand(u, d)
        BY <1>2, <2>1, <3>4 DEF InHand
      <4>2. InHands(d)' = InHands(d) /\ InHands(d) \in Int
        BY <2>2, <4>1, FourThreads DEF InHands
      <4>3. Underway(d)' = Underway(d) - 1 /\ Underway(d) \in Int
        BY <3>2, <4>2 DEF Underway
      <4>4. Outstanding(d)' = Outstanding(d) - 1 /\ Outstanding(d) \in Int
        BY <1>0, <1>2, <2>1, <2>5, <3>4 DEF Outstanding, TypeOK
      <4>5. config.maxInflight \in Nat
        BY <1>0, ConfigTypes
      <4> QED
        BY <2>1, <4>3, <4>4, <4>5 DEF FramesOf
    <3> QED
      BY <1>2, <3>3, <3>4
  <2> QED
    BY <2>4, <2>5
<1> QED
  BY <1>0, <1>6, <1>7, <1>8 DEF IInv

\* A connection with events is passed over, closed, or gone on to be read.
LEMMA HandlePollEventsIInv ==
  ASSUME IInv, NEW s \in Sides, HandlePollEvents(s)
  PROVE  IInv'
<1> DEFINE p == PollOf(s)
<1>0. p \in Threads /\ hand[p] = 0 /\ Conns \subseteq AllConns
  BY FourThreads, StateParts DEF HandlePollEvents, PollAt, InCall
<1>1. PICK c \in readable[s] :
        /\ readable' = [readable EXCEPT ![s] = @ \ {c}]
        /\ hungUp'   = [hungUp EXCEPT ![s] = @ \ {c}]
        /\ \/ UNCHANGED <<placeVars, conn, closed, closedConnections>>
           \/ Close(s, c) /\ OnClosed(s, c) /\ UNCHANGED <<placeVars, conn>>
           \/ /\ PollGoes(s, "read") /\ conn' = [conn EXCEPT ![p] = c]
              /\ UNCHANGED <<closed, closedConnections>>
  BY DEF HandlePollEvents
<1>2. c \in Conns /\ c \in AllConns
  BY <1>0, StateParts
<1>3. readable' \in [Sides -> SUBSET Conns] /\ hungUp' \in [Sides -> SUBSET AllConns]
  BY <1>1, StateParts
<1>4. closed' \in [Sides -> SUBSET AllConns] /\ closedConnections' \in SUBSET AllConns
  BY <1>1, <1>2, StateParts DEF Close, OnClosed
<1>5. at' \in [Threads -> Places] /\ mainNext' \in Nat
  BY <1>0, <1>1, StateParts DEF PollGoes, placeVars, Places
<1>6. conn' = conn \/ conn' = [conn EXCEPT ![p] = c]
  BY <1>1
<1>7. UNCHANGED <<config, connected, nextSequence, echoedMessages, sendClosed, stopSending,
                  sslMutex, published, netVars, call, hand, shouldClose, processVars>>
  BY DEF HandlePollEvents
<1> QED
  BY <1>0, <1>2, <1>3, <1>4, <1>5, <1>6, <1>7, StateParts, QuietIInv DEF netVars, processVars

LEMMA PollIInv ==
  ASSUME IInv, NEW s \in Sides, PollStep(s)
  PROVE  IInv'
<1> DEFINE p == PollOf(s)
<1>0. p \in Threads /\ conn[p] \in Conns /\ Conns \subseteq AllConns
  BY FourThreads, StateParts
<1>p. ASSUME NEW q \in Places, PollGoes(s, q)
      PROVE  at' \in [Threads -> Places] /\ mainNext' \in Nat
  BY <1>0, <1>p, StateParts DEF PollGoes
<1>1. CASE CallStep(p)
  BY <1>0, <1>1, CallIInv
<1>2. CASE PollEnds(s) \/ PassEnds(s) \/ ReadLoop(s) \/ ReadsNothing(s)
  <2>1. at' \in [Threads -> Places] /\ mainNext' \in Nat
    BY <1>2, <1>p DEF PollEnds, PassEnds, ReadLoop, ReadsNothing, Places
  <2> QED
    BY <1>2, <2>1, StateParts, QuietIInv
    DEF PollEnds, PassEnds, ReadLoop, ReadsNothing, clientVars, connVars, netVars, callVars,
        pollVars, processVars
<1>3. CASE PollReturns(s)
  <2> DEFINE ended == {c \in Polled(s) : PeerEnded(s, c)}
             ready == {c \in Polled(s) : wire[s][c] > 0} \cup ended
  <2>1. at' \in [Threads -> Places] /\ mainNext' \in Nat
    BY <1>3, <1>p DEF PollReturns, Places
  <2>2. ready \in SUBSET Conns /\ \A hung \in SUBSET ended : hung \in SUBSET AllConns
    BY <1>0, StateParts DEF Polled
  <2>3. readable' \in [Sides -> SUBSET Conns] /\ hungUp' \in [Sides -> SUBSET AllConns]
    BY <1>3, <2>2, StateParts DEF PollReturns
  <2> QED
    BY <1>3, <2>1, <2>3, StateParts, QuietIInv
    DEF PollReturns, clientVars, connVars, netVars, callVars, processVars
<1>4. CASE HandlePollEvents(s)
  BY <1>4, HandlePollEventsIInv
<1>5. CASE ReadsFrame(s)
  BY <1>5, ReadsFrameIInv
<1>6. CASE s = "client" /\ ClientPumps
  <2>1. /\ PumpSends("clientPoll", conn["clientPoll"], config.messages) /\ p = "clientPoll"
        /\ PollGoes(s, "read") /\ config.messages \in Nat
        /\ UNCHANGED <<config, connected, connVars, netVars, pollVars, processVars>>
    BY <1>6, ConfigTypes DEF ClientPumps, PollOf, IInv
  <2>2. at' \in [Threads -> Places] /\ mainNext' \in Nat
    BY <2>1, <1>p DEF Places
  <2> QED
    BY <1>0, <2>1, <2>2, StateParts, PumpIInv DEF Places
<1>7. CASE ReadsEnd(s)
  <2>1. at' \in [Threads -> Places] /\ mainNext' \in Nat
    BY <1>7, <1>p DEF ReadsEnd, Places
  <2>2. closed' \in [Sides -> SUBSET AllConns] /\ closedConnections' \in SUBSET AllConns
    BY <1>0, <1>7, StateParts DEF ReadsEnd, Close, OnClosed
  <2>3. UNCHANGED <<config, connected, nextSequence, echoedMessages, sendClosed, stopSending,
                    sslMutex, published, netVars, callVars, pollVars, processVars>>
    BY <1>7 DEF ReadsEnd
  <2> QED
    BY <2>1, <2>2, <2>3, StateParts, QuietIInv DEF netVars, callVars, pollVars, processVars
<1> QED
  BY <1>1, <1>2, <1>3, <1>4, <1>5, <1>6, <1>7 DEF PollStep

LEMMA OtherIInv ==
  ASSUME IInv,
         \/ \E c \in Conns : Publishes(c)
         \/ \E s \in Sides : SignalHandler(s)
         \/ ServerStops
  PROVE  IInv'
<1>1. ASSUME NEW c \in Conns, Publishes(c) PROVE IInv'
  <2>1. published' \in SUBSET Conns
    BY <1>1, StateParts DEF Publishes
  <2> QED
    BY <1>1, <2>1, StateParts, QuietIInv
    DEF Publishes, clientVars, netVars, callVars, placeVars, pollVars, processVars
<1>2. ASSUME NEW s \in Sides, SignalHandler(s) PROVE IInv'
  <2>1. gStopRequested' \in [Sides -> BOOLEAN]
    BY <1>2, StateParts DEF SignalHandler
  <2> QED
    BY <1>2, <2>1, StateParts, QuietIInv
    DEF SignalHandler, clientVars, connVars, netVars, callVars, placeVars, pollVars
<1>3. CASE ServerStops
  <2>1. /\ closed' \in [Sides -> SUBSET AllConns]
        /\ serverPc' \in {"serving", "joinAccept", "joinPoll", "done"}
    BY <1>3, StateParts DEF ServerStops
  <2> QED
    BY <1>3, <2>1, StateParts, QuietIInv
    DEF ServerStops, clientVars, netVars, callVars, placeVars, pollVars
<1> QED
  BY <1>1, <1>2, <1>3

-----------------------------------------------------------------------------
(* The theorems.                                                           *)

\* The invariant is inductive, whatever the configurations and the capacity.
THEOREM InductiveInvariant == Spec => []IInv
<1>1. IInv /\ [Next]_vars => IInv'
  <2> SUFFICES ASSUME IInv, [Next]_vars PROVE IInv'
    OBVIOUS
  <2>1. CASE UNCHANGED vars
    BY <2>1, StateParts, QuietIInv
    DEF vars, clientVars, connVars, netVars, callVars, placeVars, pollVars, processVars
  <2>2. CASE MainStep
    BY <2>2, MainIInv
  <2>3. CASE PacerStep
    BY <2>3, PacerIInv
  <2>4. CASE \E s \in Sides : PollStep(s)
    BY <2>4, PollIInv
  <2>5. CASE \/ \E c \in Conns : Publishes(c)
             \/ \E s \in Sides : SignalHandler(s)
             \/ ServerStops
    BY <2>5, OtherIInv
  <2> QED
    BY <2>1, <2>2, <2>3, <2>4, <2>5 DEF Next, MainWaits, Terminated
<1> QED
  BY InitIInv, <1>1, PTL DEF Spec

\* The variables keep their types, and no direction holds more than its capacity.
THEOREM TypeCorrect == Spec => []TypeOK
<1>1. IInv => TypeOK
  BY DEF IInv
<1> QED
  BY <1>1, InductiveInvariant, PTL

\* If the windows fit, SendCopy never blocks the server's poll thread and a sender of
\* the client on each other's reads: a blocked pair needs more frames outstanding than
\* the windows allow.
THEOREM NeverMutuallyBlocked == Spec => []NoMutualBlock
<1>1. IInv => NoMutualBlock
  <2> SUFFICES ASSUME IInv, Fits, Blocked("serverPoll"),
                      NEW t \in {"main", "pacer", "clientPoll"}, Blocked(t)
               PROVE  FALSE
    BY DEF NoMutualBlock
  <2>0. /\ TypeOK /\ InUse /\ Capacity \in Nat \ {0} /\ t \in Threads
        /\ config.clients \in Nat \ {0} /\ config.maxInflight \in Nat \ {0}
        /\ Conns \subseteq AllConns
    BY ConfigTypes, TlsAssumption DEF IInv, Threads
  <2>1. /\ SideOf(t) = "client" /\ SideOf("serverPoll") = "server"
        /\ Peer("client") = "server" /\ Peer("server") = "client"
    BY DEF SideOf, Peer
  <2> DEFINE c == conn[t]
             d == conn["serverPoll"]
  <2>2. c \in Conns /\ d \in Conns /\ c \in AllConns /\ d \in AllConns
    BY <2>0, FourThreads DEF InUse
  <2>3. \A x \in AllConns : /\ wire["client"][x] \in 0 .. Capacity
                            /\ wire["server"][x] \in 0 .. Capacity
    BY <2>0 DEF TypeOK, Sides
  <2>4. wire["server"][c] = Capacity /\ wire["client"][d] = Capacity
    BY <2>0, <2>1, <2>2, <2>3 DEF Blocked, Room
  <2>5. hand[t] \in Nat \ {0} /\ hand["serverPoll"] \in Nat \ {0}
    BY <2>0, FourThreads DEF Blocked, TypeOK
  <2>6. \A x \in AllConns, u \in Threads : InHand(u, x) \in Nat
    BY <2>0 DEF InHand, TypeOK
  <2>7. InHand(t, c) >= 1 /\ InHand("serverPoll", d) >= 1
    BY <2>5 DEF InHand
  <2>8. FramesOf(c)
    BY <2>2 DEF IInv
  <2>9. /\ OnWire(c) \in Int /\ InHands(c) \in Int /\ Outstanding(c) \in Int
        /\ OnWire(c) >= Capacity /\ InHands(c) >= 1
    <3>1. InHands(c) \in Int /\ InHands(c) >= 1
      BY <2>0, <2>2, <2>6, <2>7, FourThreads DEF InHands, Threads
    <3> QED
      BY <2>0, <2>2, <2>3, <2>4, <3>1 DEF OnWire, Outstanding, TypeOK
  <2>10. Capacity + 1 <= config.maxInflight
    BY <2>0, <2>8, <2>9 DEF FramesOf, Underway
  <2>11. CASE config.clients = 1
    <3>1. c = 0 /\ d = 0
      BY <2>2, <2>11 DEF Conns
    <3>2. OnWire(c) >= 2 * Capacity
      BY <2>0, <2>4, <3>1 DEF OnWire
    <3>3. InHands(c) >= 2
      BY <2>0, <2>2, <2>6, <2>7, <3>1, FourThreads DEF InHands
    <3>4. 2 * Capacity + 2 <= config.maxInflight
      BY <2>0, <2>8, <2>9, <3>2, <3>3 DEF FramesOf, Underway
    <3> QED
      BY <2>0, <2>11, <3>4 DEF Fits
  <2>12. CASE config.clients # 1
    BY <2>0, <2>10, <2>12 DEF Fits
  <2> QED
    BY <2>11, <2>12
<1> QED
  BY <1>1, InductiveInvariant, PTL

=============================================================================
