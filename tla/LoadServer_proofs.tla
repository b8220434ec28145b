--------------------------- MODULE LoadServer_proofs ---------------------------
(***************************************************************************)
(* Proofs about LoadServer, for every number of listeners, connections and *)
(* frames: the types, the conservation of frames on an open connection,    *)
(* the life of a connection's state in the controller, and what Stop       *)
(* leaves behind.                                                          *)
(***************************************************************************)
EXTENDS LoadServer, FiniteSetTheorems, TLAPS

\* The types, but for the bound of nextConnectionId.
Types ==
  /\ stopped \in BOOLEAN /\ gStopRequested \in BOOLEAN
  /\ mainPc \in {"listen", "stop", "shut", "close", "join", "done"}
  /\ mainIndex \in Nat /\ snapshot \subseteq Ids
  /\ listening \subseteq Listeners /\ nextConnectionId \in Nat
  /\ acceptPc \in [Listeners -> {"off", "check", "accept", "accepted", "publish", "greet",
                                 "start", "done"}]
  /\ acceptId \in [Listeners -> Ids]
  /\ connections \subseteq Ids /\ states \subseteq Ids
  /\ closed \in [Ids -> BOOLEAN]
  /\ receiverPc \in [Ids -> {"off", "check", "recv", "echo", "ending", "notify", "done"}]
  /\ senderPc \in [Ids -> {"off", "run", "send", "notify", "done"}]
  /\ read \in [Ids -> Nat] /\ hands \in [Ids -> Nat]
  /\ pending \in [Ids -> Nat] /\ echoed \in [Ids -> Nat]
  /\ sent \in [Ids -> Nat] /\ clientShut \in [Ids -> BOOLEAN]

\* Every accepted connection has an id of its own to come.
Accepted == {k \in Listeners : acceptPc[k] = "accepted"}
IdsLast  == nextConnectionId + Cardinality(Accepted) <= MaxConnections

\* The accept threads between giving out an id and starting the threads of the
\* connection: no two have the same id, and no thread of it runs yet.
Numbered(l) == acceptPc[l] \in {"publish", "greet", "start"}

NumbersApart ==
  /\ \A l \in Listeners :
       Numbered(l) => /\ acceptId[l] < nextConnectionId
                      /\ receiverPc[acceptId[l]] = "off" /\ senderPc[acceptId[l]] = "off"
  /\ \A l, m \in Listeners :
       Numbered(l) /\ Numbered(m) /\ acceptId[l] = acceptId[m] => l = m
  /\ \A l \in Listeners :
       acceptPc[l] \in {"greet", "start"} => acceptId[l] \in connections

\* Where the connections are: every id given out is published or about to be, and
\* what runs or has a state in the controller was published.
Published == connections \cup snapshot

ConnectionsKept ==
  /\ \A c \in Published : c < nextConnectionId
  /\ \A c \in Ids : c < nextConnectionId /\ c \notin Published
       => \E l \in Listeners : acceptPc[l] = "publish" /\ acceptId[l] = c
  /\ \A c \in Ids : receiverPc[c] # "off" \/ senderPc[c] # "off" => c \in Published
  /\ \A c \in states :
       /\ c \in Published /\ receiverPc[c] # "done"
       /\ receiverPc[c] = "off" => \E l \in Listeners : acceptPc[l] = "start" /\ acceptId[l] = c

\* How far Start and Stop are.
StopProgress ==
  /\ mainPc \in {"close", "join", "done"} => connections = {} /\ AcceptorsEnded /\ listening = {}
  /\ mainPc \notin {"close", "join", "done"} => snapshot = {}
  /\ mainPc = "listen" => \A l \in Listeners : mainIndex <= l => acceptPc[l] = "off"
  /\ mainPc = "shut" => \A l \in listening : mainIndex <= l
  /\ mainPc = "close" => \A c \in snapshot : c < mainIndex => closed[c]
  /\ mainPc \in {"join", "done"} =>
       \A c \in snapshot : closed[c] /\ (c < mainIndex => ThreadsEnded(c))
  /\ mainPc = "done" => mainIndex = MaxConnections

\* The frames of a connection.  Held counts those the server has and has not sent.
Sending(c) == IF senderPc[c] = "send" THEN 1 ELSE 0
Held(c)    == pending[c] + hands[c] + Sending(c)

FramesOf(c) ==
  /\ receiverPc[c] # "echo" => hands[c] = 0
  /\ echoed[c] + Held(c) <= read[c] /\ read[c] <= sent[c]
  /\ ~closed[c] /\ receiverPc[c] # "ending" => echoed[c] + Held(c) = read[c]
  /\ clientShut[c] => echoed[c] = sent[c]

IInv ==
  /\ Types /\ IdsLast /\ NumbersApart /\ ConnectionsKept /\ StopProgress
  /\ \A c \in Ids : FramesOf(c)

LEMMA InitIInv == Init => IInv
<1> SUFFICES ASSUME Init PROVE IInv
  OBVIOUS
<1> USE ServerAssumption
<1>1. Types
  <2>1. 0 \in Ids
    BY DEF Ids
  <2> QED
    BY <2>1 DEF Init, Types
<1>2. IdsLast
  <2>1. Accepted = {}
    BY DEF Init, Accepted
  <2>2. Cardinality(Accepted) = 0
    BY <2>1, FS_EmptySet
  <2> QED
    BY <2>2 DEF Init, IdsLast
<1>3. NumbersApart
  BY DEF Init, NumbersApart, Numbered
<1>4. ConnectionsKept
  BY DEF Init, ConnectionsKept, Published, Ids
<1>5. StopProgress
  BY DEF Init, StopProgress
<1>6. \A c \in Ids : FramesOf(c)
  BY DEF Init, FramesOf, Held, Sending
<1> QED
  BY <1>1, <1>2, <1>3, <1>4, <1>5, <1>6 DEF IInv

-----------------------------------------------------------------------------
(* The threads of a connection, and its client.                            *)

\* What they can do to the rest of the server.
ThreadEffect(c) ==
  /\ UNCHANGED <<runVars, acceptVars, connections>>
  /\ \A d \in Ids : d # c => receiverPc'[d] = receiverPc[d] /\ senderPc'[d] = senderPc[d]
  /\ receiverPc'[c] = "off" <=> receiverPc[c] = "off"
  /\ senderPc'[c] = "off" <=> senderPc[c] = "off"
  /\ receiverPc[c] = "done" => receiverPc'[c] = "done"
  /\ senderPc[c] = "done" => senderPc'[c] = "done"
  /\ \A d \in Ids : closed[d] => closed'[d]
  /\ \A d \in states' : d \in states \/ (d = c /\ receiverPc[c] = "recv")
  /\ receiverPc'[c] = "done" => c \notin states' \/ receiverPc[c] = "done"

ConnectionStep(c) ==
  \/ RecvStep(c) \/ RecvFails(c) \/ SenderStep(c) \/ SenderFails(c)
  \/ ClientSends(c) \/ ClientShuts(c)
  \/ \E k \in 0 .. MaxFrames : OnDataThrows(c, k)

LEMMA ThreadsKeepTypes ==
  ASSUME Types, NEW c \in Ids, ConnectionStep(c)
  PROVE  Types'
<1> USE DEF runVars, acceptVars, mapVars, threadVars, frameVars, clientVars
<1>1. CASE RecvCheck(c) \/ RecvTimeout(c) \/ RecvPeerClosed(c) \/ RecvFails(c) \/ OnDataReturns(c)
  BY <1>1 DEF Types, ReceiverGoes, RecvCheck, RecvTimeout, RecvPeerClosed, RecvFails, OnDataReturns
<1>2. CASE Echo(c)
  BY <1>2 DEF Types, Echo
<1>3. CASE RecvClose(c) \/ RecvOnClosed(c)
  BY <1>3 DEF Types, ReceiverGoes, RecvClose, RecvOnClosed
<1>4. ASSUME NEW k \in 0 .. MaxFrames, OnData(c, k) PROVE Types'
  <2>1. k \in Nat
    BY ServerAssumption
  <2> QED
    BY <1>4, <2>1 DEF Types, ReceiverGoes, OnData
<1>10. ASSUME NEW k \in 0 .. MaxFrames, OnDataThrows(c, k) PROVE Types'
  <2>1. k \in Nat
    BY ServerAssumption
  <2> QED
    BY <1>10, <2>1 DEF Types, ReceiverGoes, OnDataThrows
<1>5. CASE SenderTakes(c)
  BY <1>5 DEF Types, SenderGoes, SenderTakes, HasWork
<1>6. CASE SenderSends(c) \/ SenderExits(c)
  BY <1>6 DEF Types, SenderGoes, SenderSends, SenderExits
<1>7. CASE SenderFails(c) \/ SenderOnClosed(c)
  BY <1>7 DEF Types, SenderGoes, SenderFails, SenderOnClosed
<1>8. CASE ClientSends(c)
  BY <1>8 DEF Types, ClientSends
<1>9. CASE ClientShuts(c)
  BY <1>9 DEF Types, ClientShuts
<1> QED
  BY <1>1, <1>2, <1>3, <1>4, <1>5, <1>6, <1>7, <1>8, <1>9, <1>10
     DEF ConnectionStep, RecvStep, SenderStep

LEMMA ThreadsHaveEffect ==
  ASSUME Types, NEW c \in Ids, ConnectionStep(c)
  PROVE  ThreadEffect(c)
<1> USE DEF runVars, acceptVars, mapVars, threadVars, frameVars, clientVars
<1>1. CASE RecvCheck(c) \/ RecvTimeout(c) \/ RecvPeerClosed(c) \/ RecvFails(c) \/ OnDataReturns(c)
  BY <1>1 DEF Types, ThreadEffect, ReceiverGoes, RecvCheck, RecvTimeout, RecvPeerClosed,
              RecvFails, OnDataReturns
<1>2. CASE Echo(c)
  BY <1>2 DEF Types, ThreadEffect, Echo
<1>3. CASE RecvClose(c) \/ RecvOnClosed(c)
  BY <1>3 DEF Types, ThreadEffect, ReceiverGoes, RecvClose, RecvOnClosed
<1>4. ASSUME NEW k \in 0 .. MaxFrames, OnData(c, k) PROVE ThreadEffect(c)
  BY <1>4 DEF Types, ThreadEffect, ReceiverGoes, OnData
<1>7. ASSUME NEW k \in 0 .. MaxFrames, OnDataThrows(c, k) PROVE ThreadEffect(c)
  BY <1>7 DEF Types, ThreadEffect, ReceiverGoes, OnDataThrows
<1>5. CASE SenderStep(c) \/ SenderFails(c)
  BY <1>5 DEF Types, ThreadEffect, SenderGoes, SenderStep, SenderTakes, SenderSends,
              SenderExits, SenderFails, SenderOnClosed
<1>6. CASE ClientSends(c) \/ ClientShuts(c)
  BY <1>6 DEF Types, ThreadEffect, ClientSends, ClientShuts
<1> QED
  BY <1>1, <1>2, <1>3, <1>4, <1>5, <1>6, <1>7 DEF ConnectionStep, RecvStep

\* The accept threads and Stop are where they were.
LEMMA EffectKeepsRest ==
  ASSUME Types, Types', NEW c \in Ids, ThreadEffect(c),
         IdsLast, NumbersApart, ConnectionsKept, StopProgress
  PROVE  IdsLast' /\ NumbersApart' /\ ConnectionsKept' /\ StopProgress'
<1>1. IdsLast'
  BY DEF ThreadEffect, acceptVars, IdsLast, Accepted
<1>2. NumbersApart'
  BY DEF Types, ThreadEffect, acceptVars, NumbersApart, Numbered
<1>3. ConnectionsKept'
  <2>1. \A d \in Ids : (receiverPc'[d] = "off" <=> receiverPc[d] = "off")
                    /\ (senderPc'[d] = "off" <=> senderPc[d] = "off")
    BY DEF ThreadEffect
  <2>2. UNCHANGED <<acceptPc, acceptId, nextConnectionId, connections, snapshot>>
    BY DEF ThreadEffect, acceptVars, runVars
  <2>3. ASSUME NEW d \in states'
        PROVE  /\ d \in Published /\ receiverPc'[d] # "done"
               /\ receiverPc[d] = "off" =>
                    \E l \in Listeners : acceptPc[l] = "start" /\ acceptId[l] = d
    <3>1. CASE d \in states
      BY <2>3, <3>1 DEF Types, ThreadEffect, ConnectionsKept
    <3>2. CASE d = c /\ receiverPc[c] = "recv"
      BY <2>3, <3>2 DEF ThreadEffect, ConnectionsKept
    <3> QED
      BY <2>3, <3>1, <3>2 DEF ThreadEffect
  <2> QED
    BY <2>1, <2>2, <2>3 DEF Types, ConnectionsKept, Published
<1>4. StopProgress'
  <2>1. UNCHANGED <<mainPc, mainIndex, snapshot, connections, listening, acceptPc>>
    BY DEF ThreadEffect, acceptVars, runVars
  <2>2. \A d \in Ids : (closed[d] => closed'[d]) /\ (ThreadsEnded(d) => ThreadsEnded(d)')
    BY DEF Types, ThreadEffect, ThreadsEnded
  <2> QED
    BY <2>1, <2>2 DEF Types, StopProgress, AcceptorsEnded
<1> QED
  BY <1>1, <1>2, <1>3, <1>4

\* A frame leaves one place for the next, or the connection is closed.
LEMMA ThreadsKeepFrames ==
  ASSUME Types, Types', \A d \in Ids : FramesOf(d), NEW c \in Ids, ConnectionStep(c)
  PROVE  \A d \in Ids : FramesOf(d)'
<1> SUFFICES ASSUME NEW d \in Ids PROVE FramesOf(d)'
  OBVIOUS
<1> USE DEF runVars, acceptVars, mapVars, threadVars, frameVars, clientVars
<1>1. /\ read[d] \in Nat /\ hands[d] \in Nat /\ pending[d] \in Nat /\ echoed[d] \in Nat
      /\ sent[d] \in Nat /\ closed[d] \in BOOLEAN /\ clientShut[d] \in BOOLEAN
  BY DEF Types
<1>2. FramesOf(d)
  OBVIOUS
<1>3. CASE RecvCheck(c) \/ RecvTimeout(c) \/ RecvPeerClosed(c) \/ RecvFails(c)
           \/ OnDataReturns(c) \/ RecvClose(c) \/ RecvOnClosed(c)
  <2>1. /\ UNCHANGED <<frameVars, clientVars, senderPc>>
        /\ closed[d] => closed'[d]
        /\ receiverPc[d] = "ending" => receiverPc'[d] = "ending" \/ closed'[d]
        /\ receiverPc'[d] = "echo" => receiverPc[d] = "echo"
        /\ receiverPc'[d] # "echo" => receiverPc[d] # "echo" \/ hands[d] = 0
    BY <1>3 DEF Types, ReceiverGoes, RecvCheck, RecvTimeout, RecvPeerClosed, RecvFails,
                OnDataReturns, RecvClose, RecvOnClosed
  <2>2. /\ hands'[d] = hands[d] /\ echoed'[d] = echoed[d] /\ read'[d] = read[d]
        /\ sent'[d] = sent[d] /\ clientShut'[d] = clientShut[d] /\ Held(d)' = Held(d)
    BY <2>1 DEF Held, Sending
  <2>3. ~closed'[d] /\ receiverPc'[d] # "ending" => ~closed[d] /\ receiverPc[d] # "ending"
    BY <2>1
  <2>4. receiverPc'[d] # "echo" => hands'[d] = 0
    BY <1>2, <2>1, <2>2 DEF FramesOf
  <2> QED
    BY <1>1, <1>2, <2>2, <2>3, <2>4 DEF FramesOf
<1>4. CASE Echo(c)
  <2>1. CASE d # c
    BY <1>1, <1>2, <1>4, <2>1 DEF Types, FramesOf, Held, Sending, Echo
  <2>2. CASE d = c
    <3>1. hands'[d] = hands[d] - 1 /\ hands[d] > 0 /\ receiverPc[d] = "echo"
      BY <1>4, <2>2 DEF Types, Echo
    <3>2. pending'[d] = IF closed[d] THEN pending[d] ELSE pending[d] + 1
      BY <1>4, <2>2 DEF Types, Echo, SendCopyRefuses
    <3> QED
      BY <1>1, <1>2, <1>4, <2>2, <3>1, <3>2 DEF FramesOf, Held, Sending, Echo
  <2> QED
    BY <2>1, <2>2
<1>5. ASSUME NEW k \in 0 .. MaxFrames, OnData(c, k) PROVE FramesOf(d)'
  BY <1>1, <1>2, <1>5, ServerAssumption DEF Types, FramesOf, Held, Sending, ReceiverGoes, OnData
<1>12. ASSUME NEW k \in 0 .. MaxFrames, OnDataThrows(c, k) PROVE FramesOf(d)'
  BY <1>1, <1>2, <1>12, ServerAssumption
     DEF Types, FramesOf, Held, Sending, ReceiverGoes, OnDataThrows
<1>6. CASE SenderTakes(c)
  <2>1. UNCHANGED <<read, hands, echoed, sent, clientShut, closed, receiverPc>>
    BY <1>6 DEF SenderTakes
  <2>2. CASE d # c
    <3>1. pending'[d] = pending[d] /\ senderPc'[d] = senderPc[d]
      BY <1>6, <2>2 DEF Types, SenderGoes, SenderTakes
    <3> QED
      BY <1>2, <2>1, <3>1 DEF FramesOf, Held, Sending
  <2>3. CASE d = c
    <3>1. pending'[d] = pending[d] - 1 /\ senderPc[d] = "run" /\ senderPc'[d] = "send"
      BY <1>6, <2>3 DEF Types, SenderGoes, SenderTakes
    <3> QED
      BY <1>1, <1>2, <2>1, <3>1 DEF FramesOf, Held, Sending
  <2> QED
    BY <2>2, <2>3
<1>7. CASE SenderSends(c)
  <2>1. UNCHANGED <<read, hands, pending, sent, clientShut, closed, receiverPc>>
    BY <1>7 DEF SenderSends
  <2>2. CASE d # c
    <3>1. echoed'[d] = echoed[d] /\ senderPc'[d] = senderPc[d]
      BY <1>7, <2>2 DEF Types, SenderGoes, SenderSends
    <3> QED
      BY <1>2, <2>1, <3>1 DEF FramesOf, Held, Sending
  <2>3. CASE d = c
    <3>1. echoed'[d] = echoed[d] + 1 /\ senderPc[d] = "send" /\ senderPc'[d] = "run"
      BY <1>7, <2>3 DEF Types, SenderGoes, SenderSends
    <3> QED
      BY <1>1, <1>2, <2>1, <3>1 DEF FramesOf, Held, Sending
  <2> QED
    BY <2>2, <2>3
<1>8. CASE SenderFails(c)
  BY <1>1, <1>2, <1>8 DEF Types, FramesOf, Held, Sending, SenderGoes, SenderFails
<1>9. CASE SenderOnClosed(c) \/ SenderExits(c)
  BY <1>1, <1>2, <1>9 DEF Types, FramesOf, Held, Sending, SenderGoes, SenderOnClosed, SenderExits
<1>10. CASE ClientSends(c)
  BY <1>1, <1>2, <1>10 DEF Types, FramesOf, Held, Sending, ClientSends
<1>11. CASE ClientShuts(c)
  BY <1>1, <1>2, <1>11 DEF Types, FramesOf, Held, Sending, ClientShuts
<1> QED
  BY <1>3, <1>4, <1>5, <1>6, <1>7, <1>8, <1>9, <1>10, <1>11, <1>12
     DEF ConnectionStep, RecvStep, SenderStep

LEMMA ThreadsKeepIInv ==
  ASSUME IInv, NEW c \in Ids, ConnectionStep(c)
  PROVE  IInv'
BY ThreadsKeepTypes, ThreadsHaveEffect, EffectKeepsRest, ThreadsKeepFrames DEF IInv

\* Whoever leaves the threads of the connections and their frames alone, or closes
\* connections, keeps FramesOf.
LEMMA FramesKept ==
  ASSUME Types, Types', \A d \in Ids : FramesOf(d), UNCHANGED <<frameVars, clientVars>>,
         \A d \in Ids : /\ closed[d] => closed'[d]
                        /\ hands[d] = 0 \/ receiverPc'[d] = receiverPc[d]
                        /\ receiverPc[d] = "ending" => receiverPc'[d] = "ending"
                        /\ \/ senderPc'[d] = senderPc[d]
                           \/ senderPc[d] = "off" /\ senderPc'[d] = "run"
  PROVE  \A d \in Ids : FramesOf(d)'
<1> SUFFICES ASSUME NEW d \in Ids PROVE FramesOf(d)'
  OBVIOUS
<1>1. /\ read[d] \in Nat /\ hands[d] \in Nat /\ pending[d] \in Nat /\ echoed[d] \in Nat
      /\ sent[d] \in Nat /\ closed[d] \in BOOLEAN /\ clientShut[d] \in BOOLEAN
  BY DEF Types
<1>2. FramesOf(d) /\ Sending(d)' = Sending(d)
  BY DEF Sending
<1> QED
  BY <1>1, <1>2 DEF FramesOf, Held, frameVars, clientVars

-----------------------------------------------------------------------------
(* The accept threads.                                                     *)

LEMMA AcceptedFinite ==
  IsFiniteSet(Accepted) /\ Cardinality(Accepted) \in Nat
<1>1. Listeners \in SUBSET Int /\ IsFiniteSet(Listeners)
  BY ServerAssumption, FS_Interval DEF Listeners
<1>2. IsFiniteSet(Accepted)
  BY <1>1, FS_Subset DEF Accepted
<1> QED
  BY <1>2, FS_CardinalityType

\* Giving up an accepted connection, or keeping it, takes no id.
LEMMA IdsLastKept ==
  ASSUME Types, IdsLast, UNCHANGED nextConnectionId, Accepted' \subseteq Accepted
  PROVE  IdsLast'
<1>1. Cardinality(Accepted') <= Cardinality(Accepted) /\ Cardinality(Accepted') \in Nat
  BY AcceptedFinite, FS_Subset, FS_CardinalityType
<1> QED
  BY <1>1, AcceptedFinite, ServerAssumption DEF Types, IdsLast

\* A numbered connection has an id that exists.
LEMMA NextIdExists ==
  ASSUME Types, IdsLast, NEW l \in Listeners, acceptPc[l] = "accepted"
  PROVE  /\ nextConnectionId \in Ids
         /\ Cardinality(Accepted \ {l}) = Cardinality(Accepted) - 1
<1>1. l \in Accepted
  BY DEF Accepted
<1>2. Cardinality(Accepted \ {l}) = Cardinality(Accepted) - 1
  BY <1>1, AcceptedFinite, FS_RemoveElement
<1>3. Cardinality(Accepted \ {l}) \in Nat
  BY AcceptedFinite, FS_RemoveElement, FS_CardinalityType
<1>4. Cardinality(Accepted) \in Nat
  BY AcceptedFinite
<1>5. nextConnectionId <= MaxConnections - 1
  BY <1>2, <1>3, <1>4, ServerAssumption DEF IdsLast, Types
<1> QED
  BY <1>2, <1>5, ServerAssumption DEF Types, Ids

AcceptorStep(l) == AcceptStep(l) \/ Accept(l) \/ AcceptRetries(l) \/ AcceptFails(l)

LEMMA AcceptorsKeepTypes ==
  ASSUME Types, IdsLast, NEW l \in Listeners, AcceptorStep(l)
  PROVE  Types'
<1> USE DEF runVars, mapVars, threadVars, frameVars, clientVars, AcceptGoes
<1>1. CASE AcceptCheck(l) \/ Accept(l) \/ AcceptRetries(l) \/ AcceptFails(l)
  BY <1>1 DEF Types, AcceptCheck, Accept, AcceptRetries, AcceptFails
<1>2. CASE AcceptNumbers(l)
  <2>1. nextConnectionId \in Ids
    BY <1>2, NextIdExists DEF AcceptNumbers
  <2> QED
    BY <1>2, <2>1 DEF Types, AcceptNumbers
<1>3. CASE AcceptPublishes(l)
  BY <1>3 DEF Types, AcceptPublishes
<1>4. CASE OnConnected(l)
  BY <1>4 DEF Types, OnConnected
<1>5. CASE StartReceiveLoop(l)
  BY <1>5 DEF Types, StartReceiveLoop
<1> QED
  BY <1>1, <1>2, <1>3, <1>4, <1>5 DEF AcceptorStep, AcceptStep

LEMMA AcceptorsKeepIdsLast ==
  ASSUME Types, IdsLast, NEW l \in Listeners, AcceptorStep(l)
  PROVE  IdsLast'
<1> USE DEF AcceptGoes
<1>1. CASE AcceptCheck(l) \/ AcceptRetries(l) \/ AcceptFails(l) \/ AcceptPublishes(l)
           \/ OnConnected(l) \/ StartReceiveLoop(l)
  <2>1. UNCHANGED nextConnectionId /\ Accepted' \subseteq Accepted
    BY <1>1 DEF Types, Accepted, AcceptCheck, AcceptRetries, AcceptFails, AcceptPublishes,
                OnConnected, StartReceiveLoop
  <2> QED
    BY <2>1, IdsLastKept
<1>2. CASE Accept(l)
  <2>1. Accepted' = Accepted \cup {l} /\ l \notin Accepted
    BY <1>2 DEF Types, Accepted, Accept
  <2>2. Cardinality(Accepted') = Cardinality(Accepted) + 1
    BY <2>1, AcceptedFinite, FS_AddElement
  <2>3. nextConnectionId + Cardinality(Accepted) < MaxConnections /\ UNCHANGED nextConnectionId
    BY <1>2 DEF Accept, Accepted
  <2> QED
    BY <2>2, <2>3, AcceptedFinite, ServerAssumption DEF Types, IdsLast
<1>3. CASE AcceptNumbers(l)
  <2>1. Accepted' = Accepted \ {l} /\ nextConnectionId' = nextConnectionId + 1
    BY <1>3 DEF Types, Accepted, AcceptNumbers
  <2>2. Cardinality(Accepted') = Cardinality(Accepted) - 1
    BY <1>3, <2>1, NextIdExists DEF AcceptNumbers
  <2> QED
    BY <2>1, <2>2, AcceptedFinite, ServerAssumption DEF Types, IdsLast
<1> QED
  BY <1>1, <1>2, <1>3 DEF AcceptorStep, AcceptStep

LEMMA AcceptorsKeepRest ==
  ASSUME Types, Types', NEW l \in Listeners, AcceptorStep(l),
         NumbersApart, ConnectionsKept, StopProgress
  PROVE  NumbersApart' /\ ConnectionsKept' /\ StopProgress'
<1> USE DEF AcceptGoes
<1> DEFINE id == acceptId[l]
<1>1. CASE AcceptCheck(l) \/ Accept(l) \/ AcceptRetries(l) \/ AcceptFails(l)
  <2>1. /\ ~Numbered(l) /\ ~Numbered(l)'
        /\ \A m \in Listeners : m # l => acceptPc'[m] = acceptPc[m]
        /\ UNCHANGED <<runVars, listening, acceptId, nextConnectionId, mapVars, threadVars>>
    BY <1>1 DEF Types, Numbered, AcceptCheck, Accept, AcceptRetries, AcceptFails
  <2>2. NumbersApart'
    BY <2>1 DEF Types, NumbersApart, Numbered, mapVars, threadVars
  <2>3. ConnectionsKept'
    BY <2>1 DEF Types, ConnectionsKept, Published, Numbered, mapVars, threadVars, runVars
  <2>4. acceptPc[l] # "off"
    BY <1>1 DEF AcceptCheck, Accept, AcceptRetries, AcceptFails
  <2>5. acceptPc[l] # "done"
    BY <1>1 DEF AcceptCheck, Accept, AcceptRetries, AcceptFails
  <2>6. StopProgress'
    BY <2>1, <2>4, <2>5 DEF Types, StopProgress, AcceptorsEnded, ThreadsEnded, mapVars, threadVars,
                            runVars
  <2> QED
    BY <2>2, <2>3, <2>6
<1>2. CASE ~(AcceptCheck(l) \/ Accept(l) \/ AcceptRetries(l) \/ AcceptFails(l))
  <2>1. AcceptNumbers(l) \/ AcceptPublishes(l) \/ OnConnected(l) \/ StartReceiveLoop(l)
    BY <1>2 DEF AcceptorStep, AcceptStep
  <2>2. acceptPc[l] \notin {"off", "done"} /\ UNCHANGED <<runVars, listening, closed>>
        /\ \A m \in Listeners : m # l => acceptPc'[m] = acceptPc[m]
    BY <2>1 DEF Types, AcceptNumbers, AcceptPublishes, OnConnected, StartReceiveLoop, threadVars
  <2>3. ~AcceptorsEnded
    BY <2>2 DEF AcceptorsEnded
  <2>4. mainPc \notin {"close", "join", "done"}
    BY <2>3 DEF StopProgress
  <2>5. StopProgress'
    BY <2>2, <2>4 DEF Types, StopProgress, runVars
  <2>6. snapshot = {} /\ snapshot' = {}
    BY <2>2, <2>4 DEF StopProgress, runVars
  <2>7. CASE AcceptNumbers(l)
    <3>1. /\ acceptPc[l] = "accepted" /\ acceptPc' = [acceptPc EXCEPT ![l] = "publish"]
          /\ acceptId' = [acceptId EXCEPT ![l] = nextConnectionId]
          /\ nextConnectionId' = nextConnectionId + 1
          /\ UNCHANGED <<connections, snapshot, states, receiverPc, senderPc>>
      BY <2>7 DEF AcceptNumbers, mapVars, threadVars, runVars
    <3>2. nextConnectionId \in Ids
      BY <3>1 DEF Types
    <3>3. receiverPc[nextConnectionId] = "off" /\ senderPc[nextConnectionId] = "off"
      BY <3>2 DEF Types, ConnectionsKept
    <3>4. NumbersApart'
      <4>1. /\ acceptPc'[l] = "publish" /\ acceptId'[l] = nextConnectionId /\ ~Numbered(l)
            /\ \A m \in Listeners \ {l} :
                 acceptPc'[m] = acceptPc[m] /\ acceptId'[m] = acceptId[m] /\ acceptId[m] \in Ids
        BY <3>1 DEF Types, Numbered
      <4>2. ASSUME NEW m \in Listeners \ {l}, Numbered(m)'
            PROVE  /\ acceptId'[m] # nextConnectionId /\ acceptId'[m] < nextConnectionId'
                   /\ receiverPc[acceptId'[m]] = "off" /\ senderPc[acceptId'[m]] = "off"
        <5>1. Numbered(m) /\ acceptId'[m] = acceptId[m] /\ acceptId[m] \in Ids
          BY <4>1, <4>2 DEF Numbered
        <5>2. /\ acceptId[m] < nextConnectionId
              /\ receiverPc[acceptId[m]] = "off" /\ senderPc[acceptId[m]] = "off"
          BY <5>1 DEF NumbersApart
        <5>3. /\ acceptId[m] \in Int /\ nextConnectionId \in Nat
              /\ nextConnectionId' = nextConnectionId + 1
          BY <3>1, <5>1, ServerAssumption DEF Types, Ids
        <5> QED
          BY <5>1, <5>2, <5>3
      <4>3. acceptId'[l] < nextConnectionId'
        BY <3>1, <4>1 DEF Types
      <4>4. ASSUME NEW m \in Listeners, Numbered(m)'
            PROVE  /\ acceptId'[m] < nextConnectionId'
                   /\ receiverPc'[acceptId'[m]] = "off" /\ senderPc'[acceptId'[m]] = "off"
        <5>1. CASE m = l
          BY <3>1, <3>3, <4>1, <4>3, <5>1
        <5>2. CASE m # l
          BY <3>1, <4>2, <4>4, <5>2
        <5> QED
          BY <5>1, <5>2
      <4>5. \A m, k \in Listeners :
              Numbered(m)' /\ Numbered(k)' /\ acceptId'[m] = acceptId'[k] => m = k
        BY <4>1, <4>2 DEF NumbersApart, Numbered
      <4>6. \A m \in Listeners :
              acceptPc'[m] \in {"greet", "start"} => acceptId'[m] \in connections'
        BY <3>1, <4>1 DEF NumbersApart
      <4> QED
        BY <4>4, <4>5, <4>6 DEF NumbersApart
    <3>5. ConnectionsKept'
      BY <3>1, <3>2, <3>3 DEF Types, ConnectionsKept, Published, Ids
    <3> QED
      BY <2>5, <3>4, <3>5
  <2>8. CASE AcceptPublishes(l)
    <3>1. /\ acceptPc[l] = "publish" /\ acceptPc' = [acceptPc EXCEPT ![l] = "greet"]
          /\ connections' = connections \cup {id}
          /\ UNCHANGED <<acceptId, nextConnectionId, snapshot, states, receiverPc, senderPc>>
      BY <2>8 DEF AcceptPublishes, threadVars, runVars
    <3>2. NumbersApart'
      BY <3>1 DEF Types, NumbersApart, Numbered
    <3>3. ConnectionsKept'
      BY <3>1 DEF Types, ConnectionsKept, Published, NumbersApart, Numbered
    <3> QED
      BY <2>5, <3>2, <3>3
  <2>9. CASE OnConnected(l)
    <3>1. /\ acceptPc[l] = "greet" /\ acceptPc' = [acceptPc EXCEPT ![l] = "start"]
          /\ states' = states \cup {id}
          /\ UNCHANGED <<acceptId, nextConnectionId, snapshot, connections, receiverPc, senderPc>>
      BY <2>9 DEF OnConnected, threadVars, runVars
    <3>2. NumbersApart'
      BY <3>1 DEF Types, NumbersApart, Numbered
    <3>3. id \in Published /\ receiverPc[id] = "off"
      BY <3>1 DEF Types, NumbersApart, Numbered, Published
    <3>4. ConnectionsKept'
      BY <3>1, <3>3 DEF Types, ConnectionsKept, Published
    <3> QED
      BY <2>5, <3>2, <3>4
  <2>10. CASE StartReceiveLoop(l)
    <3>1. /\ acceptPc[l] = "start" /\ acceptPc' = [acceptPc EXCEPT ![l] = "check"]
          /\ receiverPc' = [receiverPc EXCEPT ![id] = "check"]
          /\ senderPc' = [senderPc EXCEPT ![id] = "run"]
          /\ UNCHANGED <<acceptId, nextConnectionId, snapshot, connections, states>>
      BY <2>10 DEF StartReceiveLoop, mapVars, runVars
    <3>2. id \in Ids /\ id \in Published
      BY <3>1 DEF Types, NumbersApart, Published
    <3>3. \A m \in Listeners : Numbered(m)' => Numbered(m) /\ m # l /\ acceptId[m] # id
      BY <3>1 DEF Types, NumbersApart, Numbered
    <3>4. NumbersApart'
      BY <3>1, <3>2, <3>3 DEF Types, NumbersApart, Numbered
    <3>5. ConnectionsKept'
      BY <3>1, <3>2 DEF Types, ConnectionsKept, Published
    <3> QED
      BY <2>5, <3>4, <3>5
  <2> QED
    BY <2>1, <2>7, <2>8, <2>9, <2>10
<1> QED
  BY <1>1, <1>2

LEMMA AcceptorsKeepIInv ==
  ASSUME IInv, NEW l \in Listeners, AcceptorStep(l)
  PROVE  IInv'
<1>1. Types' /\ IdsLast'
  BY AcceptorsKeepTypes, AcceptorsKeepIdsLast DEF IInv
<1>2. NumbersApart' /\ ConnectionsKept' /\ StopProgress'
  BY <1>1, AcceptorsKeepRest DEF IInv
<1>3. UNCHANGED <<frameVars, clientVars, closed>>
  BY DEF AcceptorStep, AcceptStep, AcceptCheck, Accept, AcceptRetries, AcceptFails, AcceptNumbers,
         AcceptPublishes, OnConnected, StartReceiveLoop, threadVars
<1>4. ASSUME NEW d \in Ids
      PROVE  /\ hands[d] = 0 \/ receiverPc'[d] = receiverPc[d]
             /\ receiverPc[d] = "ending" => receiverPc'[d] = "ending"
             /\ \/ senderPc'[d] = senderPc[d]
                \/ senderPc[d] = "off" /\ senderPc'[d] = "run"
  <2>1. CASE UNCHANGED <<receiverPc, senderPc>>
    BY <2>1
  <2>2. CASE StartReceiveLoop(l)
    <3>1. receiverPc[acceptId[l]] = "off" /\ senderPc[acceptId[l]] = "off"
      BY <2>2 DEF IInv, NumbersApart, Numbered, StartReceiveLoop, AcceptGoes
    <3>2. acceptId[l] = d => hands[d] = 0
      BY <3>1 DEF IInv, FramesOf
    <3> QED
      BY <2>2, <3>1, <3>2 DEF IInv, Types, StartReceiveLoop
  <2> QED
    BY <2>1, <2>2 DEF AcceptorStep, AcceptStep, AcceptCheck, Accept, AcceptRetries, AcceptFails,
                      AcceptNumbers, AcceptPublishes, OnConnected, threadVars
<1>5. \A d \in Ids : FramesOf(d)'
  BY <1>1, <1>3, <1>4, FramesKept DEF IInv
<1> QED
  BY <1>1, <1>2, <1>5 DEF IInv

-----------------------------------------------------------------------------
(* Run, Start and Stop.                                                    *)

RunStep == MainStep \/ MainListenFails \/ SignalHandler

LEMMA RunKeepsTypes ==
  ASSUME Types, RunStep
  PROVE  Types'
<1> USE DEF acceptVars, mapVars, threadVars, frameVars, clientVars, MainGoes
<1>1. CASE MainListens
  <2>1. mainIndex \in Listeners
    BY <1>1, ServerAssumption DEF Types, Listeners, MainListens
  <2> QED
    BY <1>1, <2>1 DEF Types, MainListens
<1>2. CASE MainSeesSignal \/ MainListenFails
  BY <1>2 DEF Types, MainSeesSignal, MainListenFails
<1>3. CASE MainStops
  BY <1>3 DEF Types, MainStops
<1>4. CASE MainClosedAll \/ MainJoins \/ MainDone
  BY <1>4 DEF Types, MainClosedAll, MainJoins, MainDone
<1>5. CASE SignalHandler
  BY <1>5 DEF Types, SignalHandler
<1>6. CASE MainShutsListener
  BY <1>6 DEF Types, MainShutsListener
<1>7. CASE MainTakesConnections
  BY <1>7 DEF Types, MainTakesConnections
<1>8. CASE MainCloses
  <2>1. closed' \in [Ids -> BOOLEAN]
    BY <1>8 DEF Types, MainCloses
  <2> QED
    BY <1>8, <2>1 DEF Types, MainCloses
<1> QED
  BY <1>1, <1>2, <1>3, <1>4, <1>5, <1>6, <1>7, <1>8 DEF RunStep, MainStep

\* A listener that Start opens had no thread before.
LEMMA RunKeepsAcceptors ==
  ASSUME Types, IdsLast, NumbersApart, StopProgress, RunStep
  PROVE  /\ UNCHANGED <<acceptId, nextConnectionId, states, receiverPc, senderPc>>
         /\ \A l \in Listeners : \/ acceptPc'[l] = acceptPc[l]
                                 \/ acceptPc[l] = "off" /\ acceptPc'[l] = "check"
         /\ Published' = Published /\ IdsLast' /\ NumbersApart'
<1>1. UNCHANGED <<acceptId, nextConnectionId, states, receiverPc, senderPc>>
  BY DEF RunStep, MainStep, MainListens, MainListenFails, MainSeesSignal, MainStops,
         MainShutsListener, MainTakesConnections, MainCloses, MainClosedAll, MainJoins, MainDone,
         SignalHandler, acceptVars, mapVars, threadVars
<1>2. \A l \in Listeners : \/ acceptPc'[l] = acceptPc[l]
                           \/ acceptPc[l] = "off" /\ acceptPc'[l] = "check"
  <2>1. CASE MainListens
    BY <2>1 DEF Types, StopProgress, MainListens, MainGoes
  <2> QED
    BY <2>1 DEF RunStep, MainStep, MainListenFails, MainSeesSignal, MainStops, MainShutsListener,
                MainTakesConnections, MainCloses, MainClosedAll, MainJoins, MainDone,
                SignalHandler, acceptVars
<1>3. UNCHANGED connections \/ MainTakesConnections
  BY DEF RunStep, MainStep, MainListens, MainListenFails, MainSeesSignal, MainStops,
         MainShutsListener, MainCloses, MainClosedAll, MainJoins, MainDone, SignalHandler, mapVars
<1>4. MainTakesConnections => snapshot = {} /\ snapshot' = connections /\ connections' = {}
                              /\ UNCHANGED acceptPc /\ AcceptorsEnded
  BY DEF StopProgress, MainTakesConnections, MainGoes, acceptVars
<1>5. MainTakesConnections \/ UNCHANGED snapshot
  BY DEF RunStep, MainStep, MainListens, MainListenFails, MainSeesSignal, MainStops,
         MainShutsListener, MainCloses, MainClosedAll, MainJoins, MainDone, SignalHandler
<1>6. Published' = Published
  BY <1>3, <1>4, <1>5 DEF Published
<1>7. IdsLast'
  <2>1. Accepted' \subseteq Accepted
    BY <1>2 DEF Accepted
  <2> QED
    BY <1>1, <2>1, IdsLastKept
<1>8. \A l \in Listeners : Numbered(l)' => Numbered(l) /\ acceptPc'[l] = acceptPc[l]
  BY <1>2 DEF Numbered
<1>9. NumbersApart'
  <2>1. CASE UNCHANGED connections
    BY <1>1, <1>8, <2>1 DEF NumbersApart, Numbered
  <2>2. CASE MainTakesConnections
    BY <1>1, <1>4, <1>8, <2>2 DEF NumbersApart, Numbered, AcceptorsEnded
  <2> QED
    BY <1>3, <2>1, <2>2
<1> QED
  BY <1>1, <1>2, <1>6, <1>7, <1>9

LEMMA RunKeepsConnections ==
  ASSUME Types, IdsLast, NumbersApart, ConnectionsKept, StopProgress, RunStep
  PROVE  ConnectionsKept'
<1>1. \A l \in Listeners : acceptPc[l] \in {"publish", "start"} => acceptPc'[l] = acceptPc[l]
  BY RunKeepsAcceptors
<1> QED
  BY <1>1, RunKeepsAcceptors DEF Types, ConnectionsKept

LEMMA RunKeepsProgress ==
  ASSUME Types, IdsLast, NumbersApart, ConnectionsKept, StopProgress, RunStep
  PROVE  StopProgress'
<1> USE DEF acceptVars, mapVars, threadVars, MainGoes
<1>1. CASE MainListens
  BY <1>1 DEF Types, StopProgress, MainListens, Listeners
<1>2. CASE MainSeesSignal \/ MainListenFails
  BY <1>2 DEF StopProgress, MainSeesSignal, MainListenFails
<1>3. CASE MainStops
  BY <1>3 DEF Types, StopProgress, MainStops, Listeners
<1>4. CASE MainShutsListener
  BY <1>4 DEF Types, StopProgress, MainShutsListener, ShutNow, Listeners
<1>5. CASE MainTakesConnections
  <2>1. listening = {}
    BY <1>5, ServerAssumption DEF Types, StopProgress, MainTakesConnections, Listeners
  <2> QED
    BY <1>5, <2>1 DEF Types, StopProgress, AcceptorsEnded, MainTakesConnections, Ids
<1>6. CASE MainCloses
  <2>1. /\ mainPc = "close" /\ mainPc' = "close" /\ mainIndex' = mainIndex + 1
        /\ UNCHANGED <<snapshot, connections, listening, acceptPc>>
    BY <1>6 DEF MainCloses
  <2>2. \A c \in snapshot : closed'[c] = (closed[c] \/ c = mainIndex)
    BY <1>6 DEF Types, MainCloses
  <2>3. \A c \in snapshot : c < mainIndex + 1 => c < mainIndex \/ c = mainIndex
    BY ServerAssumption DEF Types, Ids
  <2> QED
    BY <2>1, <2>2, <2>3 DEF StopProgress, AcceptorsEnded
<1>7. CASE MainClosedAll
  BY <1>7, ServerAssumption DEF Types, StopProgress, AcceptorsEnded, MainClosedAll, Ids
<1>8. CASE MainJoins
  BY <1>8 DEF Types, StopProgress, AcceptorsEnded, ThreadsEnded, MainJoins, Ids
<1>9. CASE MainDone
  BY <1>9 DEF Types, StopProgress, AcceptorsEnded, ThreadsEnded, MainDone, Ids
<1>10. CASE SignalHandler
  BY <1>10 DEF StopProgress, AcceptorsEnded, ThreadsEnded, SignalHandler
<1> QED
  BY <1>1, <1>2, <1>3, <1>4, <1>5, <1>6, <1>7, <1>8, <1>9, <1>10 DEF RunStep, MainStep

LEMMA RunKeepsIInv == ASSUME IInv, RunStep PROVE IInv'
<1>1. Types' /\ IdsLast' /\ NumbersApart' /\ ConnectionsKept' /\ StopProgress'
  BY RunKeepsTypes, RunKeepsAcceptors, RunKeepsConnections, RunKeepsProgress DEF IInv
<1>2. UNCHANGED <<frameVars, clientVars, receiverPc, senderPc>>
  BY DEF RunStep, MainStep, MainListens, MainListenFails, MainSeesSignal, MainStops,
         MainShutsListener, MainTakesConnections, MainCloses, MainClosedAll, MainJoins, MainDone,
         SignalHandler, threadVars
<1>3. \A d \in Ids : closed[d] => closed'[d]
  <2>1. CASE MainCloses
    BY <2>1 DEF IInv, Types, MainCloses
  <2> QED
    BY <2>1 DEF RunStep, MainStep, MainListens, MainListenFails, MainSeesSignal, MainStops,
                MainShutsListener, MainTakesConnections, MainClosedAll, MainJoins, MainDone,
                SignalHandler, threadVars
<1>4. \A d \in Ids : FramesOf(d)'
  BY <1>1, <1>2, <1>3, FramesKept DEF IInv
<1> QED
  BY <1>1, <1>4 DEF IInv

LEMMA NextIInv == IInv /\ [Next]_vars => IInv'
<1> SUFFICES ASSUME IInv, [Next]_vars PROVE IInv'
  OBVIOUS
<1>1. CASE UNCHANGED vars
  <2>1. UNCHANGED <<runVars, listening, acceptPc, acceptId, nextConnectionId, mapVars, threadVars,
                    frameVars, clientVars>>
    BY <1>1 DEF vars, acceptVars
  <2>2. /\ UNCHANGED <<stopped, gStopRequested, mainPc, mainIndex, snapshot>>
        /\ UNCHANGED <<connections, states, closed, receiverPc, senderPc>>
        /\ UNCHANGED <<read, hands, pending, echoed, sent, clientShut>>
    BY <2>1 DEF runVars, mapVars, threadVars, frameVars, clientVars
  <2>3. Types'
    BY <2>1, <2>2 DEF IInv, Types
  <2>4. IdsLast' /\ NumbersApart' /\ ConnectionsKept'
    BY <2>1, <2>2 DEF IInv, IdsLast, Accepted, NumbersApart, Numbered, ConnectionsKept, Published
  <2>5. StopProgress'
    BY <2>1, <2>2 DEF IInv, StopProgress, AcceptorsEnded, ThreadsEnded
  <2>6. \A d \in Ids : FramesOf(d)'
    BY <2>2 DEF IInv, FramesOf, Held, Sending
  <2> QED
    BY <2>3, <2>4, <2>5, <2>6 DEF IInv
<1>2. CASE \E l \in Listeners : AcceptorStep(l)
  BY <1>2, AcceptorsKeepIInv
<1>3. CASE \E c \in Ids : ConnectionStep(c)
  BY <1>3, ThreadsKeepIInv
<1>4. CASE RunStep
  BY <1>4, RunKeepsIInv
<1> QED
  BY <1>1, <1>2, <1>3, <1>4 DEF Next, Terminated, AcceptorStep, ConnectionStep, RunStep

\* The invariant all theorems below rest on.
THEOREM InductiveInvariant == Spec => []IInv
BY InitIInv, NextIInv, PTL DEF Spec

\* Every variable stays in its range; no listener gives out an id too many.
THEOREM TypeCorrect == Spec => []TypeOK
<1>1. IInv => TypeOK
  <2> SUFFICES ASSUME IInv PROVE TypeOK
    OBVIOUS
  <2>1. nextConnectionId \in 0 .. MaxConnections
    BY AcceptedFinite, ServerAssumption DEF IInv, Types, IdsLast
  <2> QED
    BY <2>1 DEF IInv, Types, TypeOK
<1> QED
  BY <1>1, InductiveInvariant, PTL

\* A frame the server has read is on the wire, queued or in the hands of a thread as
\* long as the connection is open, and nothing is left when the client half-closes.
THEOREM EchoesAreConserved == Spec => []EchoesConserved
<1>1. IInv => EchoesConserved
  <2> SUFFICES ASSUME IInv, NEW c \in Ids
               PROVE  /\ ~closed[c] /\ receiverPc[c] # "ending" =>
                           echoed[c] + pending[c] + hands[c]
                             + (IF senderPc[c] = "send" THEN 1 ELSE 0) = read[c]
                      /\ clientShut[c] => pending[c] = 0 /\ hands[c] = 0 /\ echoed[c] = sent[c]
    BY DEF EchoesConserved
  <2>1. /\ read[c] \in Nat /\ hands[c] \in Nat /\ pending[c] \in Nat /\ echoed[c] \in Nat
        /\ sent[c] \in Nat /\ Sending(c) \in Nat
    BY DEF IInv, Types, Sending
  <2>2. FramesOf(c)
    BY DEF IInv
  <2>3. ~closed[c] /\ receiverPc[c] # "ending" =>
          echoed[c] + pending[c] + hands[c] + Sending(c) = read[c]
    BY <2>1, <2>2 DEF FramesOf, Held
  <2>4. clientShut[c] => pending[c] = 0 /\ hands[c] = 0 /\ echoed[c] = sent[c]
    BY <2>1, <2>2 DEF FramesOf, Held
  <2> QED
    BY <2>3, <2>4 DEF Sending
<1> QED
  BY <1>1, InductiveInvariant, PTL

\* The controller keeps no state of a connection whose receive thread has ended.
THEOREM StateIsFresh == Spec => []NoStaleState
<1>1. IInv => NoStaleState
  BY DEF IInv, ConnectionsKept, NoStaleState
<1> QED
  BY <1>1, InductiveInvariant, PTL

\* After Stop nothing the server started still runs, no listener is open, and the
\* controller is empty.
THEOREM NothingIsLeft == Spec => []StopLeavesNothing
<1>1. IInv => StopLeavesNothing
  <2> SUFFICES ASSUME IInv PROVE StopLeavesNothing
    OBVIOUS
  <2>1. mainPc \in {"close", "join", "done"} => connections = {}
    BY DEF IInv, StopProgress
  <2>2. ASSUME mainPc = "done"
        PROVE  /\ listening = {} /\ states = {}
               /\ \A c \in Ids : ThreadsEnded(c) /\ (c < nextConnectionId => closed[c])
    <3>1. /\ connections = {} /\ AcceptorsEnded /\ listening = {} /\ mainIndex = MaxConnections
          /\ \A c \in snapshot : closed[c] /\ (c < mainIndex => ThreadsEnded(c))
      BY <2>2 DEF IInv, StopProgress
    <3>2. Published = snapshot /\ \A c \in Ids : c < mainIndex
      BY <3>1, ServerAssumption DEF Published, Ids
    <3>3. \A c \in snapshot : c \in Ids /\ closed[c] /\ ThreadsEnded(c)
      BY <3>1, <3>2 DEF IInv, Types
    <3>4. \A l \in Listeners : acceptPc[l] \notin {"publish", "start"}
      BY <3>1 DEF AcceptorsEnded
    <3>5. states = {}
      <4>1. ASSUME NEW c \in states PROVE FALSE
        BY <3>2, <3>3, <3>4, <4>1 DEF IInv, ConnectionsKept, ThreadsEnded
      <4> QED
        BY <4>1
    <3>6. ASSUME NEW c \in Ids PROVE ThreadsEnded(c) /\ (c < nextConnectionId => closed[c])
      BY <3>2, <3>3, <3>4, <3>6 DEF IInv, ConnectionsKept, ThreadsEnded
    <3> QED
      BY <3>1, <3>5, <3>6
  <2> QED
    BY <2>1, <2>2 DEF StopLeavesNothing
<1> QED
  BY <1>1, InductiveInvariant, PTL

================================================================================
