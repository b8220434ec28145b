--------------------------- MODULE LoadClient_proofs ---------------------------
(***************************************************************************)
(* Theorems about LoadClient for every number of connections, streams and  *)
(* messages, every window and every pacing mode.                           *)
(***************************************************************************)
EXTENDS LoadClient, TLAPS, FiniteSetTheorems

\* Where threads and connections are.
LEMMA Domains ==
  /\ Conns \subseteq Threads /\ Main \in Threads /\ Pacer \in Threads
  /\ Nobody \notin Threads /\ Main \notin Conns /\ Pacer \notin Conns /\ Main # Pacer
  /\ 0 \in Conns /\ 0 \in Ordinals /\ ClientCount \in Nat \ {0}
  /\ \A c \in Conns : c \in 0 .. ClientCount /\ c + 1 \in 0 .. ClientCount /\ NextConn(c) \in Conns
  /\ \A i \in 0 .. ClientCount : i < ClientCount => i \in Conns
  /\ \A o \in Ordinals : NextOrdinal(o) \in Ordinals
BY CountsAssumption
   DEF Conns, Ordinals, Threads, Main, Pacer, Nobody, NextConn, NextOrdinal

-----------------------------------------------------------------------------
(* Type correctness, one group of variables at a time.                     *)

LEMMA TypeInit == Init => TypeOK
<1> SUFFICES ASSUME Init PROVE TypeOK
  OBVIOUS
<1> USE Domains DEF Init
<1>1. StateTypes
  BY DEF StateTypes
<1>2. ConnectionTypes
  BY DEF ConnectionTypes
<1>3. PumpTypes
  BY DEF PumpTypes
<1>4. MainTypes
  BY DEF MainTypes
<1>5. PacerTypes
  BY DEF PacerTypes
<1>6. ControlTypes
  BY DEF ControlTypes
<1>7. QED
  BY <1>1, <1>2, <1>3, <1>4, <1>5, <1>6 DEF TypeOK

\* The actions that leave a group of variables alone keep its types.
LEMMA TypesUnchanged ==
  ASSUME TypeOK
  PROVE  /\ UNCHANGED stateVars => StateTypes'
         /\ UNCHANGED connVars => ConnectionTypes'
         /\ UNCHANGED pumpVars => PumpTypes'
         /\ UNCHANGED mainVars => MainTypes'
         /\ UNCHANGED pacerVars => PacerTypes'
         /\ UNCHANGED ctlVars => ControlTypes'
<1> USE DEF TypeOK
<1>1. UNCHANGED stateVars => StateTypes'
  BY DEF StateTypes, stateVars
<1>2. UNCHANGED connVars => ConnectionTypes'
  BY DEF ConnectionTypes, connVars
<1>3. UNCHANGED pumpVars => PumpTypes'
  BY DEF PumpTypes, pumpVars
<1>4. UNCHANGED mainVars => MainTypes'
  BY DEF MainTypes, mainVars
<1>5. UNCHANGED pacerVars => PacerTypes'
  BY DEF PacerTypes, pacerVars
<1>6. UNCHANGED ctlVars => ControlTypes'
  BY DEF ControlTypes, ctlVars
<1>7. QED
  BY <1>1, <1>2, <1>3, <1>4, <1>5, <1>6

-----------------------------------------------------------------------------
(* Every step outside PumpSends is a bystander of the calls under way: it  *)
(* may start a call, retarget an idle thread, close a connection or count  *)
(* echoes, and leaves the frames and the lock alone.                       *)

Bystander ==
  /\ UNCHANGED <<batch, closing, mutex, sendClosed, closeRequested, nextSequence, accepted>>
  /\ \A c \in Conns : closed[c] => closed'[c]
  /\ stopSending => stopSending'
  /\ \A t \in Threads : phase[t] # "idle" => phase'[t] = phase[t] /\ Target(t)' = Target(t)
  /\ \A t \in Threads : phase[t] = "idle" => phase'[t] \in {"idle", "lock"}
  /\ phase[Main] # "idle" => mainPc' = mainPc

LEMMA BystanderKeepsFrames ==
  ASSUME IInv, TypeOK', Bystander
  PROVE  LockHeld' /\ BatchesHeld' /\ NoFrameLost'
<1> USE DEF IInv, Bystander
<1>1. \A t \in Threads : batch[t] # <<>> \/ mutex = t => Target(t)' = Target(t) /\ phase[t] # "idle"
  BY DEF BatchesHeld, LockHeld
<1>2. LockHeld'
  BY <1>1, Domains DEF LockHeld, TypeOK, PumpTypes, ControlTypes
<1>3. BatchesHeld'
  <2> DEFINE Held(t) ==
        /\ batch[t] # <<>> => /\ phase[t] \in {"fill", "decide", "send"}
                              /\ t = Main => mainPc = "greet"
        /\ \A i \in DOMAIN batch[t] :
             LET f == batch[t][i] IN
             /\ accepted[Target(t)][f.ordinal] <= f.sequence
             /\ f.sequence < nextSequence[Target(t)][f.ordinal]
             /\ \A j \in 1 .. i - 1 :
                  batch[t][j].ordinal = f.ordinal => batch[t][j].sequence < f.sequence
  <2>1. SUFFICES ASSUME NEW t \in Threads PROVE Held(t)'
    BY DEF BatchesHeld
  <2>2. CASE batch[t] = <<>>
    BY <2>2
  <2>3. CASE batch[t] # <<>>
    BY <1>1, <2>3 DEF BatchesHeld
  <2> QED
    BY <2>2, <2>3
<1>4. NoFrameLost'
  <2> SUFFICES ASSUME NEW c \in Conns, NEW o \in Ordinals, ~closed[c],
                      NEW n \in accepted[c][o] .. nextSequence[c][o] - 1
               PROVE  \E t \in Threads : /\ Target(t)' = c
                                         /\ \E i \in DOMAIN batch[t] :
                                              batch[t][i] = [ordinal |-> o, sequence |-> n]
    BY DEF NoFrameLost
  <2>1. PICK t \in Threads : /\ Target(t) = c
                             /\ \E i \in DOMAIN batch[t] :
                                  batch[t][i] = [ordinal |-> o, sequence |-> n]
    BY DEF NoFrameLost
  <2>2. batch[t] # <<>>
    BY <2>1
  <2> QED
    BY <1>1, <2>1, <2>2
<1>5. QED
  BY <1>2, <1>3, <1>4

LEMMA BystanderKeepsClosing ==
  ASSUME IInv, TypeOK', Bystander, UNCHANGED echoedMessages
  PROVE  InflightBounded' /\ CloseDecided'
BY DEF IInv, Bystander, InflightBounded, CloseDecided, TypeOK, PumpTypes, ControlTypes

-----------------------------------------------------------------------------
(* The receive thread and the send thread of a connection.                 *)

\* A step that leaves main, the pacer and every phase alone disturbs no call if
\* only receive threads outside PumpSends move, and none into OnData.
LEMMA CallsUndisturbed ==
  ASSUME IInv, UNCHANGED <<phase, mainPc, mainConn, pacerPc>>,
         \A c \in Conns : recvPc'[c] # recvPc[c] =>
           recvPc[c] # "off" /\ recvPc'[c] # "data" /\ phase[c] = "idle"
  PROVE  PumpCalls'
BY DEF IInv, PumpCalls

LEMMA ReceiverAndSender ==
  ASSUME IInv, NEW c \in Conns,
         \/ RecvCheck(c) \/ RecvBytes(c) \/ OnDataReturns(c) \/ RecvTimeout(c)
         \/ RecvPeerClosed(c) \/ RecvFails(c) \/ RecvClose(c) \/ RecvOnClosed(c)
         \/ SenderFails(c) \/ SenderOnClosed(c) \/ SenderExits(c)
  PROVE  IInv'
<1> USE DEF IInv, TypeOK
\* What a step of the receive thread, and of the send thread, changes.
<1>1. ASSUME \/ RecvCheck(c) \/ RecvBytes(c) \/ OnDataReturns(c) \/ RecvTimeout(c)
             \/ RecvPeerClosed(c) \/ RecvFails(c) \/ RecvClose(c) \/ RecvOnClosed(c)
      PROVE  /\ recvPc[c] \in {"check", "recv", "bytes", "data", "ending", "notify"}
             /\ recvPc[c] = "data" => phase[c] = "idle"
             /\ \E v \in {"check", "recv", "bytes", "ending", "notify", "done"} :
                  recvPc' = [recvPc EXCEPT ![c] = v]
             /\ senderPc' = senderPc
  BY <1>1 DEF RecvCheck, RecvBytes, OnDataReturns, RecvTimeout, RecvPeerClosed, RecvFails,
              RecvClose, RecvOnClosed
<1>2. ASSUME SenderFails(c) \/ SenderOnClosed(c) \/ SenderExits(c)
      PROVE  /\ recvPc' = recvPc
             /\ \E v \in {"notify", "done"} : senderPc' = [senderPc EXCEPT ![c] = v]
  BY <1>2 DEF SenderFails, SenderOnClosed, SenderExits
<1>3. /\ UNCHANGED <<stateVars, accepted, closeRequested, pumpVars, mainVars, pacerVars,
                     mutex, stopSending, pacerStop, gStopRequested>>
      /\ closed' = closed \/ closed' = [closed EXCEPT ![c] = TRUE]
      /\ closedConnections' = closedConnections \/ closedConnections' = closedConnections \cup {c}
  BY DEF RecvCheck, RecvBytes, OnDataReturns, RecvTimeout, RecvPeerClosed, RecvFails,
         RecvClose, RecvOnClosed, SenderFails, SenderOnClosed, SenderExits, ctlVars
<1>4. TypeOK'
  <2>1. recvPc' \in [Conns -> {"off", "check", "recv", "bytes", "data", "ending", "notify", "done"}]
    BY <1>1, <1>2 DEF ConnectionTypes
  <2>2. senderPc' \in [Conns -> {"off", "run", "notify", "done"}]
    BY <1>1, <1>2 DEF ConnectionTypes
  <2>3. ConnectionTypes'
    BY <1>3, <2>1, <2>2 DEF ConnectionTypes
  <2>4. ControlTypes'
    BY <1>3 DEF ControlTypes
  <2> QED
    BY <1>3, <2>3, <2>4, TypesUnchanged
<1>5. PumpCalls'
  <2>1. phase[c] # "idle" => recvPc[c] = "data"
    BY DEF PumpCalls
  <2>2. \A d \in Conns : recvPc'[d] # recvPc[d] =>
          recvPc[d] # "off" /\ recvPc'[d] # "data" /\ phase[d] = "idle"
    BY <1>1, <1>2, <2>1 DEF ConnectionTypes
  <2> QED
    BY <1>3, <2>2, CallsUndisturbed DEF pumpVars, mainVars, pacerVars
<1>6. Bystander
  BY <1>3 DEF Bystander, Target, ConnectionTypes, stateVars, pumpVars, mainVars, pacerVars
<1> QED
  BY <1>3, <1>4, <1>5, <1>6, BystanderKeepsFrames, BystanderKeepsClosing DEF stateVars

LEMMA MainThread ==
  ASSUME IInv, MainStep \/ MainConnectFails
  PROVE  IInv'
<1>1. CASE MainConnect
  <2> USE <1>1, Domains DEF MainConnect, CallPumpSends, PumpsInline, stateVars, streamVars,
         connVars, pumpVars, mainVars, pacerVars, ctlVars, IInv, TypeOK
  <2>1. TypeOK'
    <3>1. StateTypes'
      BY DEF StateTypes
    <3>2. PumpTypes'
      BY DEF PumpTypes
    <3>3. MainTypes'
      BY DEF MainTypes
    <3> QED
      BY <3>1, <3>2, <3>3, TypesUnchanged
  <2>2. PumpCalls'
    BY <2>1 DEF PumpCalls, PumpTypes, ConnectionTypes, MainTypes, PacerTypes
  <2>3. Bystander
    BY DEF Bystander, Target, PumpCalls, PumpTypes, ConnectionTypes, MainTypes, PacerTypes
  <2> QED
    BY <2>1, <2>2, <2>3, BystanderKeepsFrames, BystanderKeepsClosing
<1>2. CASE MainStartReceive
  <2> USE <1>2, Domains DEF MainStartReceive, stateVars, streamVars, connVars, pumpVars,
         mainVars, pacerVars, ctlVars, IInv, TypeOK
  <2>1. TypeOK'
    <3>1. ConnectionTypes'
      BY DEF ConnectionTypes
    <3>2. MainTypes'
      BY DEF MainTypes
    <3> QED
      BY <3>1, <3>2, TypesUnchanged
  <2>2. PumpCalls'
    <3>1. mainConn \in Conns /\ mainConn' = mainConn + 1 /\ mainConn \in Int
      BY DEF MainTypes
    <3>2. \A c \in Conns : c >= mainConn + 1 => recvPc'[c] = "off"
      <4> SUFFICES ASSUME NEW c \in Conns, c >= mainConn + 1 PROVE recvPc'[c] = "off"
        OBVIOUS
      <4>1. c \in Int /\ c >= mainConn /\ c # mainConn
        BY <3>1
      <4> QED
        BY <4>1 DEF PumpCalls, ConnectionTypes
    <3>3. \A c \in Conns : recvPc'[c] = "data" => recvPc[c] = "data"
      BY DEF ConnectionTypes
    <3>4. \A c \in Conns : phase[c] # "idle" => recvPc'[c] = "data"
      BY <3>1 DEF PumpCalls, ConnectionTypes, MainTypes
    <3> QED
      BY <3>1, <3>2, <3>3, <3>4 DEF PumpCalls
  <2>3. Bystander
    BY DEF Bystander, Target, PumpCalls, PumpTypes, ConnectionTypes, MainTypes, PacerTypes
  <2> QED
    BY <2>1, <2>2, <2>3, BystanderKeepsFrames, BystanderKeepsClosing
<1>3. CASE MainConnectFails
  <2> USE <1>3, Domains DEF MainConnectFails, stateVars, streamVars, connVars, pumpVars,
         mainVars, pacerVars, ctlVars, IInv, TypeOK
  <2>1. TypeOK'
    <3>1. MainTypes'
      BY DEF MainTypes
    <3> QED
      BY <3>1, TypesUnchanged
  <2>2. PumpCalls'
    BY <2>1 DEF PumpCalls, PumpTypes, ConnectionTypes, MainTypes, PacerTypes
  <2>3. Bystander
    BY DEF Bystander, Target, PumpCalls, PumpTypes, ConnectionTypes, MainTypes, PacerTypes
  <2> QED
    BY <2>1, <2>2, <2>3, BystanderKeepsFrames, BystanderKeepsClosing
<1>4. CASE MainStartPacer
  <2> USE <1>4, Domains DEF MainStartPacer, stateVars, streamVars, connVars, pumpVars,
         mainVars, pacerVars, ctlVars, IInv, TypeOK
  <2>1. TypeOK'
    <3>1. MainTypes'
      BY DEF MainTypes
    <3>2. PacerTypes'
      BY DEF PacerTypes
    <3> QED
      BY <3>1, <3>2, TypesUnchanged
  <2>2. PumpCalls'
    <3>1. CASE Paced
      <4>1. phase[Pacer] = "idle"
        BY DEF PumpCalls
      <4>2. pacerPc' = "top" /\ mainPc' = "wait" /\ phase[Main] = "idle"
        BY <3>1 DEF PumpCalls
      <4> QED
        BY <4>1, <4>2, <3>1 DEF PumpCalls
    <3>2. CASE ~Paced
      <4>0. pacerPc' = "off"
        BY <3>2
      <4>1. pacerPc = "off"
        BY <3>2 DEF PumpCalls
      <4>2. phase[Pacer] = "idle"
        BY <4>1 DEF PumpCalls
      <4> QED
        BY <4>0, <4>1, <4>2 DEF PumpCalls
    <3> QED
      BY <3>1, <3>2
  <2>3. Bystander
    BY DEF Bystander, Target, PumpCalls, PumpTypes, ConnectionTypes, MainTypes, PacerTypes
  <2> QED
    BY <2>1, <2>2, <2>3, BystanderKeepsFrames, BystanderKeepsClosing
<1>5. CASE MainDeadline
  <2> USE <1>5, Domains DEF MainDeadline, CallPumpSends, stateVars, streamVars, connVars,
         pumpVars, mainVars, pacerVars, ctlVars, IInv, TypeOK
  <2>1. TypeOK'
    <3>1. PumpTypes'
      BY DEF PumpTypes
    <3>2. MainTypes'
      BY DEF MainTypes
    <3>3. ControlTypes'
      BY DEF ControlTypes
    <3> QED
      BY <3>1, <3>2, <3>3, TypesUnchanged
  <2>2. PumpCalls'
    <3>1. \A c \in Conns : phase'[c] = phase[c]
      BY DEF PumpTypes
    <3>2. phase'[Pacer] = phase[Pacer] /\ (phase'[Main] # "idle" => mainPc' = "stopping")
      BY DEF PumpTypes
    <3>3. mainPc' \in {"stopping", "wait"}
      OBVIOUS
    <3> QED
      BY <3>1, <3>2, <3>3 DEF PumpCalls
  <2>3. Bystander
    BY DEF Bystander, Target, PumpCalls, PumpTypes, ConnectionTypes, MainTypes, PacerTypes
  <2> QED
    BY <2>1, <2>2, <2>3, BystanderKeepsFrames, BystanderKeepsClosing
<1>6. CASE MainNextStopped
  <2> USE <1>6, Domains DEF MainNextStopped, CallPumpSends, LastConn, stateVars, streamVars,
         connVars, pumpVars, mainVars, pacerVars, ctlVars, IInv, TypeOK
  <2>1. TypeOK'
    <3>1. PumpTypes'
      BY DEF PumpTypes
    <3>2. MainTypes'
      BY DEF MainTypes
    <3> QED
      BY <3>1, <3>2, TypesUnchanged
  <2>2. PumpCalls'
    <3>1. \A c \in Conns : phase'[c] = phase[c]
      BY DEF PumpTypes
    <3>2. phase'[Pacer] = phase[Pacer] /\ (phase'[Main] # "idle" => mainPc' = "stopping")
      BY DEF PumpTypes
    <3>3. mainPc' \in {"stopping", "wait"}
      OBVIOUS
    <3> QED
      BY <3>1, <3>2, <3>3 DEF PumpCalls
  <2>3. Bystander
    BY DEF Bystander, Target, PumpCalls, PumpTypes, ConnectionTypes, MainTypes, PacerTypes
  <2> QED
    BY <2>1, <2>2, <2>3, BystanderKeepsFrames, BystanderKeepsClosing
<1>7. CASE MainLeaves
  <2> USE <1>7, Domains DEF MainLeaves, stateVars, streamVars, connVars, pumpVars, mainVars,
         pacerVars, ctlVars, IInv, TypeOK
  <2>1. TypeOK'
    <3>1. MainTypes'
      BY DEF MainTypes
    <3> QED
      BY <3>1, TypesUnchanged
  <2>2. PumpCalls'
    BY <2>1 DEF PumpCalls, PumpTypes, ConnectionTypes, MainTypes, PacerTypes
  <2>3. Bystander
    BY DEF Bystander, Target, PumpCalls, PumpTypes, ConnectionTypes, MainTypes, PacerTypes
  <2> QED
    BY <2>1, <2>2, <2>3, BystanderKeepsFrames, BystanderKeepsClosing
<1>8. CASE MainClose
  <2> USE <1>8, Domains DEF MainClose, stateVars, streamVars, connVars, pumpVars, mainVars,
         pacerVars, ctlVars, IInv, TypeOK
  <2>1. TypeOK'
    <3>1. ConnectionTypes'
      BY DEF ConnectionTypes
    <3>2. MainTypes'
      BY DEF MainTypes
    <3> QED
      BY <3>1, <3>2, TypesUnchanged
  <2>2. PumpCalls'
    BY <2>1 DEF PumpCalls, PumpTypes, ConnectionTypes, MainTypes, PacerTypes
  <2>3. Bystander
    BY DEF Bystander, Target, PumpCalls, PumpTypes, ConnectionTypes, MainTypes, PacerTypes
  <2> QED
    BY <2>1, <2>2, <2>3, BystanderKeepsFrames, BystanderKeepsClosing
<1>9. CASE MainAllClosed
  <2> USE <1>9, Domains DEF MainAllClosed, stateVars, streamVars, connVars, pumpVars,
         mainVars, pacerVars, ctlVars, IInv, TypeOK
  <2>1. TypeOK'
    <3>1. MainTypes'
      BY DEF MainTypes
    <3> QED
      BY <3>1, TypesUnchanged
  <2>2. PumpCalls'
    BY <2>1 DEF PumpCalls, PumpTypes, ConnectionTypes, MainTypes, PacerTypes
  <2>3. Bystander
    BY DEF Bystander, Target, PumpCalls, PumpTypes, ConnectionTypes, MainTypes, PacerTypes
  <2> QED
    BY <2>1, <2>2, <2>3, BystanderKeepsFrames, BystanderKeepsClosing
<1>10. CASE MainJoin
  <2> USE <1>10, Domains DEF MainJoin, stateVars, streamVars, connVars, pumpVars, mainVars,
         pacerVars, ctlVars, IInv, TypeOK
  <2>1. TypeOK'
    <3>1. MainTypes'
      BY DEF MainTypes
    <3> QED
      BY <3>1, TypesUnchanged
  <2>2. PumpCalls'
    BY <2>1 DEF PumpCalls, PumpTypes, ConnectionTypes, MainTypes, PacerTypes
  <2>3. Bystander
    BY DEF Bystander, Target, PumpCalls, PumpTypes, ConnectionTypes, MainTypes, PacerTypes
  <2> QED
    BY <2>1, <2>2, <2>3, BystanderKeepsFrames, BystanderKeepsClosing
<1>11. CASE MainStopPacer
  <2> USE <1>11, Domains DEF MainStopPacer, stateVars, streamVars, connVars, pumpVars,
         mainVars, pacerVars, ctlVars, IInv, TypeOK
  <2>1. TypeOK'
    <3>1. MainTypes'
      BY DEF MainTypes
    <3>2. ControlTypes'
      BY DEF ControlTypes
    <3> QED
      BY <3>1, <3>2, TypesUnchanged
  <2>2. PumpCalls'
    BY <2>1 DEF PumpCalls, PumpTypes, ConnectionTypes, MainTypes, PacerTypes
  <2>3. Bystander
    BY DEF Bystander, Target, PumpCalls, PumpTypes, ConnectionTypes, MainTypes, PacerTypes
  <2> QED
    BY <2>1, <2>2, <2>3, BystanderKeepsFrames, BystanderKeepsClosing
<1>12. CASE MainDone
  <2> USE <1>12, Domains DEF MainDone, stateVars, streamVars, connVars, pumpVars, mainVars,
         pacerVars, ctlVars, IInv, TypeOK
  <2>1. TypeOK'
    <3>1. MainTypes'
      BY DEF MainTypes
    <3> QED
      BY <3>1, TypesUnchanged
  <2>2. PumpCalls'
    BY <2>1 DEF PumpCalls, PumpTypes, ConnectionTypes, MainTypes, PacerTypes
  <2>3. Bystander
    BY DEF Bystander, Target, PumpCalls, PumpTypes, ConnectionTypes, MainTypes, PacerTypes
  <2> QED
    BY <2>1, <2>2, <2>3, BystanderKeepsFrames, BystanderKeepsClosing
<1>13. QED
  BY <1>1, <1>2, <1>3, <1>4, <1>5, <1>6, <1>7, <1>8, <1>9, <1>10, <1>11, <1>12 DEF MainStep

LEMMA PacerThread ==
  ASSUME IInv, PacerStep \/ SignalHandler
  PROVE  IInv'
<1>1. CASE PacerExits
  <2> USE <1>1, Domains DEF PacerExits, stateVars, streamVars, connVars, pumpVars, mainVars,
         pacerVars, ctlVars, IInv, TypeOK
  <2>1. TypeOK'
    <3>1. PacerTypes'
      BY DEF PacerTypes
    <3> QED
      BY <3>1, TypesUnchanged
  <2>2. PumpCalls'
    BY <2>1 DEF PumpCalls, PumpTypes, ConnectionTypes, MainTypes, PacerTypes
  <2>3. Bystander
    BY DEF Bystander, Target, PumpCalls, PumpTypes, ConnectionTypes, MainTypes, PacerTypes
  <2> QED
    BY <2>1, <2>2, <2>3, BystanderKeepsFrames, BystanderKeepsClosing
<1>2. CASE PacerPass
  <2> USE <1>2, Domains DEF PacerPass, stateVars, streamVars, connVars, pumpVars, mainVars,
         pacerVars, ctlVars, IInv, TypeOK
  <2>1. TypeOK'
    <3>1. PacerTypes'
      BY DEF PacerTypes, ControlTypes
    <3> QED
      BY <3>1, TypesUnchanged
  <2>2. PumpCalls'
    BY <2>1 DEF PumpCalls, PumpTypes, ConnectionTypes, MainTypes, PacerTypes
  <2>3. Bystander
    BY DEF Bystander, Target, PumpCalls, PumpTypes, ConnectionTypes, MainTypes, PacerTypes
  <2> QED
    BY <2>1, <2>2, <2>3, BystanderKeepsFrames, BystanderKeepsClosing
<1>3. CASE PacerCalls
  <2> USE <1>3, Domains DEF PacerCalls, CallPumpSends, stateVars, streamVars, connVars,
         pumpVars, mainVars, pacerVars, ctlVars, IInv, TypeOK
  <2>1. TypeOK'
    <3>1. PumpTypes'
      BY DEF PumpTypes
    <3>2. PacerTypes'
      BY DEF PacerTypes
    <3> QED
      BY <3>1, <3>2, TypesUnchanged
  <2>2. PumpCalls'
    BY <2>1 DEF PumpCalls, PumpTypes, ConnectionTypes, MainTypes, PacerTypes
  <2>3. Bystander
    BY DEF Bystander, Target, PumpCalls, PumpTypes, ConnectionTypes, MainTypes, PacerTypes
  <2> QED
    BY <2>1, <2>2, <2>3, BystanderKeepsFrames, BystanderKeepsClosing
<1>4. CASE PacerSkips
  <2> USE <1>4, Domains DEF PacerSkips, stateVars, streamVars, connVars, pumpVars, mainVars,
         pacerVars, ctlVars, IInv, TypeOK
  <2>1. TypeOK'
    <3>1. PacerTypes'
      BY DEF PacerTypes
    <3> QED
      BY <3>1, TypesUnchanged
  <2>2. PumpCalls'
    BY <2>1 DEF PumpCalls, PumpTypes, ConnectionTypes, MainTypes, PacerTypes
  <2>3. Bystander
    BY DEF Bystander, Target, PumpCalls, PumpTypes, ConnectionTypes, MainTypes, PacerTypes
  <2> QED
    BY <2>1, <2>2, <2>3, BystanderKeepsFrames, BystanderKeepsClosing
<1>5. CASE PacerReturns
  <2> USE <1>5, Domains DEF PacerReturns, stateVars, streamVars, connVars, pumpVars,
         mainVars, pacerVars, ctlVars, IInv, TypeOK
  <2>1. TypeOK'
    <3>1. PacerTypes'
      <4>1. pacerConn' \in Conns /\ nextPaced' \in Conns
        BY DEF PacerTypes
      <4>2. pacerLeft' \in 0 .. ClientCount
        BY DEF PacerTypes
      <4> QED
        BY <4>1, <4>2 DEF PacerTypes
    <3> QED
      BY <3>1, TypesUnchanged
  <2>2. PumpCalls'
    BY <2>1 DEF PumpCalls, PumpTypes, ConnectionTypes, MainTypes, PacerTypes
  <2>3. Bystander
    BY DEF Bystander, Target, PumpCalls, PumpTypes, ConnectionTypes, MainTypes, PacerTypes
  <2> QED
    BY <2>1, <2>2, <2>3, BystanderKeepsFrames, BystanderKeepsClosing
<1>6. CASE PacerPassEnds
  <2> USE <1>6, Domains DEF PacerPassEnds, stateVars, streamVars, connVars, pumpVars,
         mainVars, pacerVars, ctlVars, IInv, TypeOK
  <2>1. TypeOK'
    <3>1. PacerTypes'
      BY DEF PacerTypes
    <3> QED
      BY <3>1, TypesUnchanged
  <2>2. PumpCalls'
    BY <2>1 DEF PumpCalls, PumpTypes, ConnectionTypes, MainTypes, PacerTypes
  <2>3. Bystander
    BY DEF Bystander, Target, PumpCalls, PumpTypes, ConnectionTypes, MainTypes, PacerTypes
  <2> QED
    BY <2>1, <2>2, <2>3, BystanderKeepsFrames, BystanderKeepsClosing
<1>7. CASE SignalHandler
  <2> USE <1>7, Domains DEF SignalHandler, stateVars, streamVars, connVars, pumpVars,
         mainVars, pacerVars, ctlVars, IInv, TypeOK
  <2>1. TypeOK'
    <3>1. ControlTypes'
      BY DEF ControlTypes
    <3> QED
      BY <3>1, TypesUnchanged
  <2>2. PumpCalls'
    BY <2>1 DEF PumpCalls, PumpTypes, ConnectionTypes, MainTypes, PacerTypes
  <2>3. Bystander
    BY DEF Bystander, Target, PumpCalls, PumpTypes, ConnectionTypes, MainTypes, PacerTypes
  <2> QED
    BY <2>1, <2>2, <2>3, BystanderKeepsFrames, BystanderKeepsClosing
<1>8. QED
  BY <1>1, <1>2, <1>3, <1>4, <1>5, <1>6, <1>7 DEF PacerStep

\* An echo is counted only for a frame that was accepted, so a drained connection
\* stays drained.
LEMMA CountedKeepsClosing ==
  ASSUME IInv, TypeOK', Bystander, NEW c \in Conns, NEW o \in Ordinals,
         NEW k \in 0 .. MaxMessages, echoedMessages[c][o] + k <= accepted[c][o],
         echoedMessages' = [echoedMessages EXCEPT ![c][o] = @ + k]
  PROVE  InflightBounded' /\ CloseDecided'
<1> USE Domains DEF IInv, TypeOK
<1>0. k \in Nat /\ UNCHANGED <<accepted, nextSequence, sendClosed>>
  BY CountsAssumption DEF Bystander
<1>1. ASSUME NEW d \in Conns, NEW p \in Ordinals
      PROVE  /\ echoedMessages[d][p] \in Nat /\ accepted[d][p] \in Nat
             /\ nextSequence[d][p] \in Nat /\ MaxInflight[p] \in Nat
             /\ echoedMessages'[d][p] = IF d = c /\ p = o THEN echoedMessages[d][p] + k
                                                           ELSE echoedMessages[d][p]
  BY <1>0, ProfilesAssumption DEF StateTypes, ConnectionTypes
<1>2. InflightBounded'
  BY <1>0, <1>1 DEF InflightBounded
<1>3. CloseDecided'
  <2>1. CASE k = 0
    <3>1. UNCHANGED echoedMessages
      BY <2>1 DEF StateTypes
    <3> QED
      BY <3>1, BystanderKeepsClosing
  <2>2. CASE k # 0
    <3>1. echoedMessages[c][o] < nextSequence[c][o]
      BY <1>0, <1>1, <2>2 DEF InflightBounded
    <3>2. ~sendClosed[c]
      BY <1>1, <3>1 DEF CloseDecided
    <3>3. \A d \in Conns : d # c => echoedMessages'[d] = echoedMessages[d]
      BY DEF StateTypes
    <3>4. \A t \in Threads : closing[t] => phase'[t] = "send" /\ Target(t)' = Target(t)
      BY DEF CloseDecided, Bystander
    <3> QED
      BY <1>0, <3>2, <3>3, <3>4 DEF CloseDecided, Bystander
  <2> QED
    BY <2>1, <2>2
<1> QED
  BY <1>2, <1>3

\* The receive thread hands bytes to OnData.
LEMMA EchoCounted ==
  ASSUME IInv, NEW c \in Conns, NEW o \in Ordinals, NEW k \in 0 .. MaxMessages, OnData(c, o, k)
  PROVE  IInv'
<1> USE Domains DEF OnData, CallPumpSends, PumpsInline, stateVars, streamVars, connVars,
       pumpVars, mainVars, pacerVars, ctlVars, IInv, TypeOK
<1>0. k \in Nat
  BY CountsAssumption
<1>1. TypeOK'
  <2>1. StateTypes'
    BY <1>0 DEF StateTypes
  <2>2. ConnectionTypes'
    BY DEF ConnectionTypes
  <2>3. PumpTypes'
    BY DEF PumpTypes
  <2> QED
    BY <2>1, <2>2, <2>3, TypesUnchanged
<1>2. phase[c] = "idle"
  BY DEF PumpCalls
<1>3. PumpCalls'
  <2>1. \A d \in Conns : d # c => phase'[d] = phase[d] /\ recvPc'[d] = recvPc[d]
    BY DEF PumpTypes, ConnectionTypes
  <2>2. /\ phase'[c] # "idle" => recvPc'[c] = "data"
        /\ recvPc'[c] = "data" => ~Paced
    BY <1>2 DEF ConnectionTypes, PumpTypes
  <2>3. mainPc \in {"connect", "greet"} => recvPc[c] = "off" \/ ~(c >= mainConn)
    BY DEF PumpCalls
  <2>4. phase'[Main] = phase[Main] /\ phase'[Pacer] = phase[Pacer]
    BY DEF PumpTypes
  <2> QED
    BY <2>1, <2>2, <2>3, <2>4 DEF PumpCalls
<1>4. Bystander
  BY <1>2 DEF Bystander, Target, PumpTypes
<1> QED
  BY <1>1, <1>3, <1>4, BystanderKeepsFrames, CountedKeepsClosing

\* OnData counts the frames before a foreign one and throws.
LEMMA ThrowCounted ==
  ASSUME IInv, NEW c \in Conns, NEW o \in Ordinals, NEW k \in 0 .. MaxMessages,
         OnDataThrows(c, o, k)
  PROVE  IInv'
<1> USE DEF OnDataThrows, stateVars, streamVars, connVars, pumpVars, mainVars, pacerVars,
       ctlVars, IInv, TypeOK
<1>0. k \in Nat
  BY CountsAssumption
<1>1. TypeOK'
  <2>1. StateTypes'
    BY <1>0 DEF StateTypes
  <2>2. ConnectionTypes'
    BY DEF ConnectionTypes
  <2> QED
    BY <2>1, <2>2, TypesUnchanged
<1>2. PumpCalls'
  <2>1. phase[c] = "idle"
    BY DEF PumpCalls
  <2>2. \A d \in Conns : recvPc'[d] # recvPc[d] => d = c /\ recvPc'[d] = "ending"
    BY DEF ConnectionTypes
  <2> QED
    BY <2>1, <2>2, CallsUndisturbed
<1>3. Bystander
  BY DEF Bystander, Target
<1> QED
  BY <1>1, <1>2, <1>3, BystanderKeepsFrames, CountedKeepsClosing

-----------------------------------------------------------------------------
(* The steps of PumpSends.                                                 *)

LEMMA TargetIsConn ==
  ASSUME IInv, NEW t \in Threads, phase[t] # "idle"
  PROVE  Target(t) \in Conns
BY DEF IInv, TypeOK, PumpCalls, MainTypes, PacerTypes, Target, Threads

\* Two threads never hold frames of one connection: in an unpaced client main
\* is done with it before its receive thread starts, in a paced one only the
\* pacer fills batches.
LEMMA OneHolder ==
  ASSUME IInv, NEW t \in Threads, NEW u \in Threads,
         batch[t] # <<>>, batch[u] # <<>>, Target(t) = Target(u)
  PROVE  t = u
<1> USE DEF IInv
<1>1. phase[t] # "idle" /\ phase[u] # "idle"
  BY DEF BatchesHeld
<1>2. t = Main => mainPc = "greet" /\ ~Paced /\ recvPc[mainConn] = "off"
  BY <1>1 DEF BatchesHeld, PumpCalls, TypeOK, MainTypes, Conns
<1>3. u = Main => mainPc = "greet" /\ ~Paced /\ recvPc[mainConn] = "off"
  BY <1>1 DEF BatchesHeld, PumpCalls, TypeOK, MainTypes, Conns
<1>4. t = Pacer \/ u = Pacer => Paced
  BY <1>1 DEF PumpCalls
<1>5. /\ t \in Conns => recvPc[t] = "data" /\ ~Paced
      /\ u \in Conns => recvPc[u] = "data" /\ ~Paced
  BY <1>1 DEF PumpCalls
<1> QED
  BY <1>2, <1>3, <1>4, <1>5, Domains DEF Target, Threads

\* The frame about to be handed to an open connection is the next of its stream.
LEMMA NextFrameFirst ==
  ASSUME IInv, NEW t \in Threads, batch[t] # <<>>, ~closed[Target(t)]
  PROVE  Head(batch[t]).sequence = accepted[Target(t)][Head(batch[t]).ordinal]
<1> USE DEF IInv
<1> DEFINE c == Target(t)
           f == Head(batch[t])
<1>1. c \in Conns
  BY TargetIsConn DEF BatchesHeld
<1>2. batch[t] \in Seq(Frames) /\ f = batch[t][1] /\ f \in Frames /\ 1 \in DOMAIN batch[t]
  BY DEF TypeOK, PumpTypes
<1>3. f.ordinal \in Ordinals /\ f.sequence \in Nat
  BY <1>2 DEF Frames
<1>4. accepted[c][f.ordinal] <= f.sequence /\ f.sequence < nextSequence[c][f.ordinal]
  BY <1>2 DEF BatchesHeld
<1>5. accepted[c][f.ordinal] \in Nat /\ nextSequence[c][f.ordinal] \in Nat
  BY <1>1, <1>3 DEF TypeOK, StateTypes, ConnectionTypes
<1>6. accepted[c][f.ordinal] \in accepted[c][f.ordinal] .. nextSequence[c][f.ordinal] - 1
  BY <1>3, <1>4, <1>5
<1>7. PICK u \in Threads : /\ Target(u) = c
                           /\ \E i \in DOMAIN batch[u] :
                                batch[u][i] = [ordinal |-> f.ordinal, sequence |-> accepted[c][f.ordinal]]
  BY <1>1, <1>3, <1>6 DEF NoFrameLost
<1>8. u = t
  BY <1>7, OneHolder
<1>9. PICK i \in DOMAIN batch[t] :
         batch[t][i] = [ordinal |-> f.ordinal, sequence |-> accepted[c][f.ordinal]]
  BY <1>7, <1>8
<1>10. CASE i = 1
  BY <1>2, <1>9, <1>10
<1>11. CASE i # 1
  <2>1. 1 \in 1 .. i - 1
    BY <1>2, <1>9, <1>11
  <2>2. batch[t][1].sequence < batch[t][i].sequence
    BY <1>2, <1>9, <2>1 DEF BatchesHeld
  <2> QED
    BY <1>2, <1>3, <1>4, <1>5, <1>9, <2>2
<1> QED
  BY <1>10, <1>11

\* What the steps of thread t inside PumpSends have in common.
PumpMove(t) ==
  /\ phase[t] # "idle"
  /\ UNCHANGED <<connected, echoedMessages, closed, senderPc, recvPc, mainVars,
                 pacerPc, pacerConn, stopSending>>
  /\ \A u \in Threads :
       u # t => phase'[u] = phase[u] /\ batch'[u] = batch[u] /\ closing'[u] = closing[u]

LEMMA PumpMoveKeepsCalls ==
  ASSUME IInv, NEW t \in Threads, PumpMove(t)
  PROVE  PumpCalls' /\ (\A u \in Threads : Target(u)' = Target(u)) /\ Target(t) \in Conns
<1>1. \A u \in Threads : phase'[u] # "idle" => phase[u] # "idle"
  BY DEF PumpMove
<1>2. Target(t) \in Conns
  BY TargetIsConn DEF PumpMove
<1> QED
  BY <1>1, <1>2, Domains DEF PumpMove, PumpCalls, IInv, Target, mainVars

LEMMA PumpRefusedKeeps ==
  ASSUME IInv, NEW t \in Threads, PumpRefused(t)
  PROVE  IInv'
<1> USE Domains DEF PumpRefused, stateVars, streamVars, connVars, pumpVars, mainVars,
       pacerVars, ctlVars, IInv, TypeOK
<1>1. TypeOK'
  <2>1. PumpTypes'
    BY DEF PumpTypes
  <2> QED
    BY <2>1, TypesUnchanged
<1>2. PumpMove(t)
  BY DEF PumpMove, PumpTypes
<1>3. PumpCalls' /\ (\A u \in Threads : Target(u)' = Target(u)) /\ Target(t) \in Conns
  BY <1>2, PumpMoveKeepsCalls
<1>4. phase'[t] = "idle" /\ batch[t] = <<>> /\ ~closing[t] /\ mutex # t
  BY DEF PumpTypes, BatchesHeld, CloseDecided
<1>5. LockHeld'
  BY <1>2, <1>3, <1>4 DEF LockHeld, PumpMove
<1>6. BatchesHeld'
  BY <1>2, <1>3, <1>4 DEF BatchesHeld, PumpMove
<1>7. NoFrameLost'
  BY <1>3 DEF NoFrameLost
<1>8. InflightBounded' /\ CloseDecided'
  BY <1>2, <1>3, <1>4 DEF InflightBounded, CloseDecided, PumpMove
<1> QED
  BY <1>1, <1>3, <1>5, <1>6, <1>7, <1>8

LEMMA PumpEnterKeeps ==
  ASSUME IInv, NEW t \in Threads, PumpEnter(t)
  PROVE  IInv'
<1> USE Domains DEF PumpEnter, stateVars, streamVars, connVars, pumpVars, mainVars,
       pacerVars, ctlVars, IInv, TypeOK
<1>1. TypeOK'
  <2>1. PumpTypes'
    BY DEF PumpTypes
  <2>2. ControlTypes'
    BY DEF ControlTypes
  <2> QED
    BY <2>1, <2>2, TypesUnchanged
<1>2. PumpMove(t)
  BY DEF PumpMove, PumpTypes
<1>3. PumpCalls' /\ (\A u \in Threads : Target(u)' = Target(u)) /\ Target(t) \in Conns
  BY <1>2, PumpMoveKeepsCalls
<1>4. phase'[t] = "fill" /\ batch[t] = <<>> /\ ~closing[t]
  BY DEF PumpTypes, BatchesHeld, CloseDecided
<1>5. LockHeld'
  <2>1. \A u \in Threads : mutex # u
    OBVIOUS
  <2>2. \A u \in Threads : phase[u] \notin {"fill", "decide"}
    BY <2>1 DEF LockHeld
  <2> QED
    BY <1>2, <1>3, <1>4, <2>2 DEF LockHeld, PumpMove
<1>6. BatchesHeld'
  BY <1>2, <1>3, <1>4 DEF BatchesHeld, PumpMove
<1>7. NoFrameLost'
  BY <1>3 DEF NoFrameLost
<1>8. InflightBounded' /\ CloseDecided'
  BY <1>2, <1>3, <1>4 DEF InflightBounded, CloseDecided, PumpMove
<1> QED
  BY <1>1, <1>3, <1>5, <1>6, <1>7, <1>8

LEMMA PumpFilledKeeps ==
  ASSUME IInv, NEW t \in Threads, PumpFilled(t)
  PROVE  IInv'
<1>0. phase[t] = "fill" /\ phase' = [phase EXCEPT ![t] = "decide"]
      /\ UNCHANGED <<stateVars, connVars, batch, closing, mainVars, pacerVars, ctlVars>>
  BY DEF PumpFilled
<1> USE <1>0, Domains DEF stateVars, streamVars, connVars, pumpVars, mainVars, pacerVars,
       ctlVars, IInv, TypeOK
<1>1. TypeOK'
  <2>1. PumpTypes'
    BY DEF PumpTypes
  <2> QED
    BY <2>1, TypesUnchanged
<1>2. PumpMove(t)
  BY DEF PumpMove, PumpTypes
<1>3. PumpCalls' /\ (\A u \in Threads : Target(u)' = Target(u)) /\ Target(t) \in Conns
  BY <1>2, PumpMoveKeepsCalls
<1>4. phase'[t] = "decide" /\ ~closing[t]
  BY DEF PumpTypes, CloseDecided
<1>5. LockHeld'
  BY <1>2, <1>3, <1>4 DEF LockHeld, PumpMove
<1>6. BatchesHeld'
  BY <1>2, <1>3, <1>4 DEF BatchesHeld, PumpMove
<1>7. NoFrameLost'
  BY <1>3 DEF NoFrameLost
<1>8. InflightBounded' /\ CloseDecided'
  BY <1>2, <1>3, <1>4 DEF InflightBounded, CloseDecided, PumpMove
<1> QED
  BY <1>1, <1>3, <1>5, <1>6, <1>7, <1>8

LEMMA PumpDecideKeeps ==
  ASSUME IInv, NEW t \in Threads, PumpDecide(t)
  PROVE  IInv'
<1> DEFINE close == stopSending /\ AllStreamsDrained(Target(t)) /\ ~sendClosed[Target(t)]
<1>0. /\ phase[t] = "decide" /\ phase' = [phase EXCEPT ![t] = "send"]
      /\ sendClosed' = [sendClosed EXCEPT ![Target(t)] = @ \/ close]
      /\ closing' = [closing EXCEPT ![t] = close] /\ mutex' = Nobody
      /\ UNCHANGED <<connected, nextOrdinal, streamVars, connVars, batch, mainVars, pacerVars,
                     stopSending, closedConnections, pacerStop, gStopRequested>>
  BY DEF PumpDecide
<1>a. close \in BOOLEAN /\ (close => stopSending /\ AllStreamsDrained(Target(t)))
  BY DEF IInv, TypeOK, ControlTypes
<1> HIDE DEF close
<1> USE <1>0, Domains DEF stateVars, streamVars, connVars, pumpVars, mainVars, pacerVars,
       ctlVars, IInv, TypeOK
<1>1. TypeOK'
  <2>1. PumpTypes'
    BY <1>a DEF PumpTypes
  <2>2. StateTypes'
    BY <1>a DEF StateTypes
  <2>3. ControlTypes'
    BY DEF ControlTypes
  <2> QED
    BY <2>1, <2>2, <2>3, TypesUnchanged
<1>2. PumpMove(t)
  BY DEF PumpMove, PumpTypes
<1>3. PumpCalls' /\ (\A u \in Threads : Target(u)' = Target(u)) /\ Target(t) \in Conns
  BY <1>2, PumpMoveKeepsCalls
<1>4. phase'[t] = "send" /\ closing'[t] = close
  BY DEF PumpTypes
<1>5. LockHeld'
  <2>1. \A u \in Threads : phase[u] \in {"fill", "decide"} => u = t
    BY DEF LockHeld
  <2> QED
    BY <1>2, <1>4, <2>1 DEF LockHeld, PumpMove
<1>6. BatchesHeld'
  BY <1>2, <1>3, <1>4 DEF BatchesHeld, PumpMove
<1>7. NoFrameLost'
  BY <1>3 DEF NoFrameLost
<1>8. InflightBounded'
  BY <1>2 DEF InflightBounded
<1>9. CloseDecided'
  <2>1. /\ sendClosed'[Target(t)] = (sendClosed[Target(t)] \/ close)
        /\ \A c \in Conns : c # Target(t) => sendClosed'[c] = sendClosed[c]
    BY <1>3 DEF StateTypes
  <2>2. \A c \in Conns : sendClosed'[c] => sendClosed[c] \/ (c = Target(t) /\ close)
    BY <2>1
  <2>3. \A c \in Conns : sendClosed[c] => sendClosed'[c]
    BY <2>1
  <2>4. \A c \in Conns :
          /\ sendClosed'[c] =>
               /\ stopSending'
               /\ \A o \in Ordinals : echoedMessages'[c][o] = nextSequence'[c][o]
          /\ closeRequested'[c] => sendClosed'[c]
    BY <1>a, <2>2, <2>3 DEF CloseDecided, AllStreamsDrained
  <2>5. \A u \in Threads : closing'[u] => phase'[u] = "send" /\ sendClosed'[Target(u)]
    <3> SUFFICES ASSUME NEW u \in Threads, closing'[u]
                 PROVE  phase'[u] = "send" /\ sendClosed'[Target(u)]
      OBVIOUS
    <3>1. CASE u = t
      BY <1>4, <2>1, <3>1
    <3>2. CASE u # t
      <4>1. closing[u] /\ phase'[u] = phase[u]
        BY <1>2, <3>2 DEF PumpMove
      <4>2. phase[u] = "send" /\ sendClosed[Target(u)]
        BY <4>1 DEF CloseDecided
      <4>3. Target(u) \in Conns
        BY <4>2, TargetIsConn
      <4> QED
        BY <2>3, <4>1, <4>2, <4>3
    <3> QED
      BY <3>1, <3>2
  <2> QED
    BY <1>3, <2>4, <2>5 DEF CloseDecided
<1> QED
  BY <1>1, <1>3, <1>5, <1>6, <1>7, <1>8, <1>9

LEMMA PumpReturnKeeps ==
  ASSUME IInv, NEW t \in Threads, PumpReturn(t)
  PROVE  IInv'
<1> USE Domains DEF PumpReturn, stateVars, streamVars, connVars, pumpVars, mainVars,
       pacerVars, ctlVars, IInv, TypeOK
<1>1. TypeOK'
  <2>1. PumpTypes'
    BY DEF PumpTypes
  <2>2. ConnectionTypes'
    BY TargetIsConn DEF ConnectionTypes
  <2> QED
    BY <2>1, <2>2, TypesUnchanged
<1>2. PumpMove(t)
  BY DEF PumpMove, PumpTypes
<1>3. PumpCalls' /\ (\A u \in Threads : Target(u)' = Target(u)) /\ Target(t) \in Conns
  BY <1>2, PumpMoveKeepsCalls
<1>4. phase'[t] = "idle" /\ batch[t] = <<>> /\ closing'[t] = FALSE
  BY DEF PumpTypes
<1>5. LockHeld'
  BY <1>2, <1>3, <1>4 DEF LockHeld, PumpMove
<1>6. BatchesHeld'
  BY <1>2, <1>3, <1>4 DEF BatchesHeld, PumpMove
<1>7. NoFrameLost'
  BY <1>3 DEF NoFrameLost
<1>8. InflightBounded'
  BY <1>2 DEF InflightBounded
<1>9. CloseDecided'
  <2>1. \A c \in Conns : closeRequested'[c] => sendClosed[c]
    BY <1>3 DEF CloseDecided, ConnectionTypes
  <2>2. \A u \in Threads : closing'[u] => u # t /\ closing[u] /\ phase'[u] = phase[u]
    BY <1>2, <1>4 DEF PumpMove
  <2> QED
    BY <1>3, <2>1, <2>2 DEF CloseDecided
<1> QED
  BY <1>1, <1>3, <1>5, <1>6, <1>7, <1>8, <1>9

\* A frame is produced: under mutex_, on a connection not decided closed, inside
\* the window, as the last of the thread's batch.
LEMMA PumpSelectKeeps ==
  ASSUME IInv, NEW t \in Threads, PumpSelect(t)
  PROVE  IInv'
<1> DEFINE c == Target(t)
<1>0. /\ phase[t] = "fill" /\ BelowLimit(t)
      /\ pacerSent' = (pacerSent \/ t = Pacer)
      /\ UNCHANGED <<connected, sendClosed, echoedMessages, connVars, phase, closing, mainVars,
                     pacerPc, pacerConn, pacerLeft, pacerDraining, nextPaced, ctlVars>>
  BY DEF PumpSelect
<1>a. PICK o \in Ordinals :
        /\ nextSequence[c][o] - echoedMessages[c][o] < MaxInflight[o]
        /\ batch' = [batch EXCEPT
             ![t] = Append(@, [ordinal |-> o, sequence |-> nextSequence[c][o]])]
        /\ nextSequence' = [nextSequence EXCEPT ![c][o] = @ + 1]
        /\ nextOrdinal' = [nextOrdinal EXCEPT ![c] = NextOrdinal(o)]
  BY DEF PumpSelect, Selectable, WindowOpen
<1> DEFINE f == [ordinal |-> o, sequence |-> nextSequence[c][o]]
<1> USE DEF IInv, TypeOK
<1>b. c \in Conns
  BY <1>0, TargetIsConn
<1>c. /\ nextSequence[c][o] \in Nat /\ f \in Frames
      /\ nextSequence'[c][o] = nextSequence[c][o] + 1
      /\ \A d \in Conns, p \in Ordinals :
           ~(d = c /\ p = o) => nextSequence'[d][p] = nextSequence[d][p]
  BY <1>a, <1>b DEF StateTypes, Frames
<1>d. /\ batch[t] \in Seq(Frames) /\ batch'[t] = Append(batch[t], f)
      /\ \A u \in Threads : u # t => batch'[u] = batch[u]
  BY <1>a DEF PumpTypes
<1>e. \A d \in Conns, p \in Ordinals :
        /\ nextSequence[d][p] \in Nat /\ nextSequence'[d][p] \in Nat
        /\ nextSequence[d][p] <= nextSequence'[d][p]
  <2> SUFFICES ASSUME NEW d \in Conns, NEW p \in Ordinals
               PROVE  /\ nextSequence[d][p] \in Nat /\ nextSequence'[d][p] \in Nat
                      /\ nextSequence[d][p] <= nextSequence'[d][p]
    OBVIOUS
  <2>1. nextSequence[d][p] \in Nat
    BY DEF StateTypes
  <2> QED
    BY <1>c, <2>1
<1> HIDE DEF c, f
<1>1. TypeOK'
  <2>1. PumpTypes'
    BY <1>0, <1>c, <1>d, <1>a DEF PumpTypes, f, c
  <2>2. StateTypes'
    <3>1. nextSequence' \in [Conns -> [Ordinals -> Nat]]
      BY <1>a, <1>b, <1>c DEF StateTypes
    <3>2. nextOrdinal' \in [Conns -> Ordinals]
      BY <1>a, <1>b, Domains DEF StateTypes
    <3> QED
      BY <1>0, <3>1, <3>2 DEF StateTypes
  <2>3. PacerTypes'
    BY <1>0 DEF PacerTypes
  <2> QED
    BY <1>0, <2>1, <2>2, <2>3, TypesUnchanged DEF connVars, mainVars, ctlVars
<1>2. PumpMove(t)
  BY <1>0, <1>d DEF PumpMove, mainVars, connVars, ctlVars
<1>3. PumpCalls' /\ (\A u \in Threads : Target(u)' = Target(u))
  BY <1>2, PumpMoveKeepsCalls
<1>4. mutex = t /\ ~sendClosed[c] /\ mutex' = mutex /\ phase' = phase /\ accepted' = accepted
  BY <1>0 DEF LockHeld, c, ctlVars, connVars
<1>5. LockHeld'
  BY <1>0, <1>3, <1>4 DEF LockHeld
<1>6. BatchesHeld'
  <2> SUFFICES ASSUME NEW u \in Threads
               PROVE  /\ batch'[u] # <<>> => /\ phase[u] \in {"fill", "decide", "send"}
                                             /\ u = Main => mainPc = "greet"
                      /\ \A i \in DOMAIN batch'[u] :
                           /\ accepted[Target(u)][batch'[u][i].ordinal] <= batch'[u][i].sequence
                           /\ batch'[u][i].sequence < nextSequence'[Target(u)][batch'[u][i].ordinal]
                           /\ \A j \in 1 .. i - 1 :
                                batch'[u][j].ordinal = batch'[u][i].ordinal
                                  => batch'[u][j].sequence < batch'[u][i].sequence
    BY <1>2, <1>3, <1>4 DEF BatchesHeld, PumpMove, mainVars
  <2>1. CASE u # t
    <3>1. batch'[u] = batch[u] /\ batch[u] \in Seq(Frames)
      BY <1>d, <2>1 DEF PumpTypes
    <3>2. CASE batch[u] = <<>>
      BY <3>1, <3>2
    <3>3. CASE batch[u] # <<>>
      <4>1. Target(u) \in Conns
        BY <3>3, TargetIsConn DEF BatchesHeld
      <4>a. \A i \in DOMAIN batch[u] : batch[u][i] \in Frames
        BY <3>1
      <4>2. \A i \in DOMAIN batch[u] : batch[u][i].ordinal \in Ordinals /\ batch[u][i].sequence \in Nat
        BY <4>a DEF Frames
      <4>3. \A i \in DOMAIN batch[u] :
              batch[u][i].sequence < nextSequence'[Target(u)][batch[u][i].ordinal]
        <5> SUFFICES ASSUME NEW i \in DOMAIN batch[u]
                     PROVE  batch[u][i].sequence < nextSequence'[Target(u)][batch[u][i].ordinal]
          OBVIOUS
        <5>1. batch[u][i].sequence < nextSequence[Target(u)][batch[u][i].ordinal]
          BY DEF BatchesHeld
        <5> QED
          BY <1>e, <4>1, <4>2, <5>1
      <4> QED
        BY <3>1, <4>3 DEF BatchesHeld
    <3> QED
      BY <3>2, <3>3
  <2>2. CASE u = t
    <3>1. phase[u] = "fill" /\ (u = Main => mainPc = "greet")
      BY <1>0, <2>2, Domains DEF BelowLimit
    <3> SUFFICES ASSUME NEW i \in DOMAIN batch'[t]
                 PROVE  /\ accepted[c][batch'[t][i].ordinal] <= batch'[t][i].sequence
                        /\ batch'[t][i].sequence < nextSequence'[c][batch'[t][i].ordinal]
                        /\ \A j \in 1 .. i - 1 :
                             batch'[t][j].ordinal = batch'[t][i].ordinal
                               => batch'[t][j].sequence < batch'[t][i].sequence
      BY <2>2, <3>1 DEF c
    <3>2. /\ DOMAIN batch[t] = 1 .. Len(batch[t]) /\ Len(batch[t]) \in Nat
          /\ DOMAIN batch'[t] = 1 .. Len(batch[t]) + 1
          /\ \A j \in 1 .. Len(batch[t]) : batch'[t][j] = batch[t][j] /\ batch[t][j] \in Frames
          /\ batch'[t][Len(batch[t]) + 1] = f
      BY <1>c, <1>d
    <3>3. CASE i = Len(batch[t]) + 1
      <4>1. batch'[t][i] = f /\ f.ordinal = o /\ f.sequence = nextSequence[c][o]
        BY <3>2, <3>3 DEF f
      <4>2. accepted[c][o] <= nextSequence[c][o] /\ nextSequence[c][o] < nextSequence'[c][o]
        BY <1>b, <1>c DEF InflightBounded
      <4>3. \A j \in 1 .. i - 1 : j \in DOMAIN batch[t] /\ batch'[t][j] = batch[t][j]
        BY <3>2, <3>3
      <4>4. \A j \in DOMAIN batch[t] : batch[t][j].sequence < nextSequence[c][batch[t][j].ordinal]
        BY DEF BatchesHeld, c
      <4> QED
        BY <4>1, <4>2, <4>3, <4>4
    <3>4. CASE i # Len(batch[t]) + 1
      <4>1. i \in DOMAIN batch[t] /\ batch'[t][i] = batch[t][i] /\ batch[t][i] \in Frames
        BY <3>2, <3>4
      <4>2. \A j \in 1 .. i - 1 : batch'[t][j] = batch[t][j]
        BY <3>2, <4>1
      <4>3. /\ accepted[c][batch[t][i].ordinal] <= batch[t][i].sequence
            /\ batch[t][i].sequence < nextSequence[c][batch[t][i].ordinal]
            /\ \A j \in 1 .. i - 1 :
                 batch[t][j].ordinal = batch[t][i].ordinal => batch[t][j].sequence < batch[t][i].sequence
        BY <4>1 DEF BatchesHeld, c
      <4>4. /\ batch[t][i].ordinal \in Ordinals /\ batch[t][i].sequence \in Nat
        BY <4>1 DEF Frames
      <4>5. batch[t][i].sequence < nextSequence'[c][batch[t][i].ordinal]
        BY <1>b, <1>e, <4>3, <4>4
      <4> QED
        BY <4>1, <4>2, <4>3, <4>5
    <3> QED
      BY <3>3, <3>4
  <2> QED
    BY <2>1, <2>2
<1>7. NoFrameLost'
  <2> SUFFICES ASSUME NEW d \in Conns, NEW p \in Ordinals, ~closed[d],
                      NEW n \in accepted[d][p] .. nextSequence'[d][p] - 1
               PROVE  \E u \in Threads : /\ Target(u) = d
                                         /\ \E i \in DOMAIN batch'[u] :
                                              batch'[u][i] = [ordinal |-> p, sequence |-> n]
    BY <1>2, <1>3, <1>4 DEF NoFrameLost, PumpMove
  <2>1. CASE d = c /\ p = o /\ n = nextSequence[c][o]
    <3>1. Len(batch[t]) + 1 \in DOMAIN batch'[t] /\ batch'[t][Len(batch[t]) + 1] = f
      BY <1>c, <1>d
    <3> QED
      BY <2>1, <3>1 DEF f, c
  <2>2. CASE ~(d = c /\ p = o /\ n = nextSequence[c][o])
    <3>a. accepted[d][p] \in Nat /\ n \in Int
      BY <1>e DEF ConnectionTypes
    <3>b. ASSUME d = c /\ p = o PROVE n \in accepted[d][p] .. nextSequence[d][p] - 1
      BY <1>c, <2>2, <3>a, <3>b
    <3>c. ASSUME ~(d = c /\ p = o) PROVE n \in accepted[d][p] .. nextSequence[d][p] - 1
      BY <1>c, <3>a, <3>c
    <3>1. n \in accepted[d][p] .. nextSequence[d][p] - 1
      BY <3>b, <3>c
    <3>2. PICK u \in Threads : /\ Target(u) = d
                               /\ \E i \in DOMAIN batch[u] :
                                    batch[u][i] = [ordinal |-> p, sequence |-> n]
      BY <3>1 DEF NoFrameLost
    <3>3. \A i \in DOMAIN batch[u] : i \in DOMAIN batch'[u] /\ batch'[u][i] = batch[u][i]
      <4>1. CASE u = t
        BY <1>c, <1>d, <4>1
      <4>2. CASE u # t
        BY <1>d, <4>2
      <4> QED
        BY <4>1, <4>2
    <3> QED
      BY <3>2, <3>3
  <2> QED
    BY <2>1, <2>2
<1>8. InflightBounded'
  <2> SUFFICES ASSUME NEW d \in Conns, NEW p \in Ordinals
               PROVE  /\ echoedMessages[d][p] <= accepted[d][p]
                      /\ accepted[d][p] <= nextSequence'[d][p]
                      /\ nextSequence'[d][p] - echoedMessages[d][p] <= MaxInflight[p]
    BY <1>2, <1>4 DEF InflightBounded, PumpMove
  <2>1. /\ echoedMessages[d][p] <= accepted[d][p]
        /\ accepted[d][p] <= nextSequence[d][p]
        /\ nextSequence[d][p] - echoedMessages[d][p] <= MaxInflight[p]
        /\ MaxInflight[p] \in Nat
    BY ProfilesAssumption DEF InflightBounded
  <2>2. /\ echoedMessages[d][p] \in Nat /\ accepted[d][p] \in Nat /\ nextSequence[d][p] \in Nat
    BY DEF StateTypes, ConnectionTypes
  <2> QED
    <3>1. CASE d = c /\ p = o
      <4>1. nextSequence'[d][p] = nextSequence[d][p] + 1
        BY <1>c, <3>1
      <4>2. nextSequence[d][p] - echoedMessages[d][p] < MaxInflight[p]
        BY <1>a, <3>1
      <4> QED
        BY <2>1, <2>2, <4>1, <4>2
    <3>2. CASE ~(d = c /\ p = o)
      <4>1. nextSequence'[d][p] = nextSequence[d][p]
        BY <1>c, <3>2
      <4> QED
        BY <2>1, <4>1
    <3> QED
      BY <3>1, <3>2
<1>9. CloseDecided'
  <2>1. \A d \in Conns : sendClosed[d] => d # c
    BY <1>4
  <2>2. \A d \in Conns, p \in Ordinals : sendClosed[d] => nextSequence'[d][p] = nextSequence[d][p]
    BY <1>c, <2>1
  <2> QED
    BY <1>0, <1>3, <2>2 DEF CloseDecided, connVars, ctlVars
<1> QED
  BY <1>1, <1>3, <1>5, <1>6, <1>7, <1>8, <1>9

\* A frame is handed over, without mutex_: it is the next one of its stream.
LEMMA PumpSendKeeps ==
  ASSUME IInv, NEW t \in Threads, PumpSend(t)
  PROVE  IInv'
<1> DEFINE c == Target(t)
           f == Head(batch[t])
<1>0. /\ phase[t] = "send" /\ batch[t] # <<>>
      /\ accepted' = IF closed[c] THEN accepted ELSE [accepted EXCEPT ![c][f.ordinal] = @ + 1]
      /\ batch' = [batch EXCEPT ![t] = Tail(@)]
      /\ UNCHANGED <<stateVars, closeRequested, closed, senderPc, recvPc, phase, closing,
                     mainVars, pacerVars, ctlVars>>
  BY DEF PumpSend
<1> USE DEF IInv, TypeOK
<1>b. c \in Conns
  BY <1>0, TargetIsConn
<1>c. /\ batch[t] \in Seq(Frames) /\ f = batch[t][1] /\ f \in Frames
      /\ DOMAIN batch[t] = 1 .. Len(batch[t]) /\ Len(batch[t]) \in Nat \ {0}
      /\ batch'[t] = Tail(batch[t]) /\ batch'[t] \in Seq(Frames)
      /\ DOMAIN batch'[t] = 1 .. Len(batch[t]) - 1
      /\ \A i \in DOMAIN batch'[t] : i + 1 \in DOMAIN batch[t] /\ batch'[t][i] = batch[t][i + 1]
      /\ \A u \in Threads : u # t => batch'[u] = batch[u]
  BY <1>0 DEF PumpTypes
<1>d. f.ordinal \in Ordinals /\ f.sequence \in Nat
  BY <1>c DEF Frames
<1>e. ~closed[c] => f.sequence = accepted[c][f.ordinal]
  BY <1>0, NextFrameFirst
<1>f. /\ ~closed[c] => accepted'[c][f.ordinal] = accepted[c][f.ordinal] + 1
      /\ \A d \in Conns, p \in Ordinals :
           /\ accepted[d][p] \in Nat /\ accepted'[d][p] \in Nat
           /\ closed[c] \/ ~(d = c /\ p = f.ordinal) => accepted'[d][p] = accepted[d][p]
  BY <1>0, <1>b, <1>d DEF ConnectionTypes
<1>g. \A u \in Threads : Target(u) = c /\ batch[u] # <<>> => u = t
  BY <1>0, OneHolder
<1> HIDE DEF c, f
<1>1. TypeOK'
  <2>1. PumpTypes'
    BY <1>0, <1>c DEF PumpTypes
  <2>2. ConnectionTypes'
    BY <1>0, <1>b, <1>d DEF ConnectionTypes
  <2> QED
    BY <1>0, <2>1, <2>2, TypesUnchanged
<1>2. PumpMove(t)
  BY <1>0, <1>c DEF PumpMove, mainVars, stateVars, pacerVars, ctlVars
<1>3. PumpCalls' /\ (\A u \in Threads : Target(u)' = Target(u))
  BY <1>2, PumpMoveKeepsCalls
<1>4. nextSequence' = nextSequence /\ echoedMessages' = echoedMessages /\ phase' = phase
      /\ sendClosed' = sendClosed /\ mainPc' = mainPc /\ closed' = closed
  BY <1>0 DEF stateVars, mainVars
<1>5. LockHeld'
  BY <1>0, <1>3, <1>4 DEF LockHeld, ctlVars
<1>6. BatchesHeld'
  <2> SUFFICES ASSUME NEW u \in Threads
               PROVE  /\ batch'[u] # <<>> => /\ phase[u] \in {"fill", "decide", "send"}
                                             /\ u = Main => mainPc = "greet"
                      /\ \A i \in DOMAIN batch'[u] :
                           /\ accepted'[Target(u)][batch'[u][i].ordinal] <= batch'[u][i].sequence
                           /\ batch'[u][i].sequence < nextSequence[Target(u)][batch'[u][i].ordinal]
                           /\ \A j \in 1 .. i - 1 :
                                batch'[u][j].ordinal = batch'[u][i].ordinal
                                  => batch'[u][j].sequence < batch'[u][i].sequence
    BY <1>3, <1>4 DEF BatchesHeld
  <2>1. CASE u # t
    <3>1. batch'[u] = batch[u] /\ batch[u] \in Seq(Frames)
      BY <1>c, <2>1 DEF PumpTypes
    <3>2. CASE batch[u] = <<>>
      BY <3>1, <3>2
    <3>3. CASE batch[u] # <<>>
      <4>1. Target(u) \in Conns /\ Target(u) # c
        BY <1>g, <2>1, <3>3, TargetIsConn DEF BatchesHeld
      <4>a. \A i \in DOMAIN batch[u] : batch[u][i] \in Frames
        BY <3>1
      <4>2. \A i \in DOMAIN batch[u] : batch[u][i].ordinal \in Ordinals
        BY <4>a DEF Frames
      <4>3. \A i \in DOMAIN batch[u] :
              accepted'[Target(u)][batch[u][i].ordinal] = accepted[Target(u)][batch[u][i].ordinal]
        BY <1>f, <4>1, <4>2
      <4> QED
        BY <3>1, <4>3 DEF BatchesHeld
    <3> QED
      BY <3>2, <3>3
  <2>2. CASE u = t
    <3>1. u = Main => mainPc = "greet"
      BY <1>0, <2>2 DEF BatchesHeld
    <3> SUFFICES ASSUME NEW i \in DOMAIN batch'[t]
                 PROVE  /\ accepted'[c][batch'[t][i].ordinal] <= batch'[t][i].sequence
                        /\ batch'[t][i].sequence < nextSequence[c][batch'[t][i].ordinal]
                        /\ \A j \in 1 .. i - 1 :
                             batch'[t][j].ordinal = batch'[t][i].ordinal
                               => batch'[t][j].sequence < batch'[t][i].sequence
      BY <1>0, <2>2, <3>1 DEF c
    <3> DEFINE g == batch[t][i + 1]
    <3>2. i \in Nat \ {0} /\ i + 1 \in DOMAIN batch[t] /\ batch'[t][i] = g /\ g \in Frames
      BY <1>c
    <3>3. g.ordinal \in Ordinals /\ g.sequence \in Nat
      BY <3>2 DEF Frames
    <3>4. /\ accepted[c][g.ordinal] <= g.sequence
          /\ g.sequence < nextSequence[c][g.ordinal]
          /\ \A j \in 1 .. i + 1 - 1 :
               batch[t][j].ordinal = g.ordinal => batch[t][j].sequence < g.sequence
      BY <3>2 DEF BatchesHeld, c
    <3>5. f.ordinal = g.ordinal => f.sequence < g.sequence
      BY <1>c, <3>2, <3>4
    <3>6. accepted'[c][g.ordinal] <= g.sequence
      BY <1>b, <1>d, <1>e, <1>f, <3>3, <3>4, <3>5
    <3>7. \A j \in 1 .. i - 1 : j + 1 \in 1 .. i + 1 - 1 /\ batch'[t][j] = batch[t][j + 1]
      BY <1>c, <3>2
    <3>8. \A j \in 1 .. i - 1 : batch'[t][j].ordinal = g.ordinal => batch'[t][j].sequence < g.sequence
      BY <3>4, <3>7
    <3> QED
      BY <3>2, <3>4, <3>6, <3>8
  <2> QED
    BY <2>1, <2>2
<1>7. NoFrameLost'
  <2> SUFFICES ASSUME NEW d \in Conns, NEW p \in Ordinals, ~closed[d],
                      NEW n \in accepted'[d][p] .. nextSequence[d][p] - 1
               PROVE  \E u \in Threads : /\ Target(u) = d
                                         /\ \E i \in DOMAIN batch'[u] :
                                              batch'[u][i] = [ordinal |-> p, sequence |-> n]
    BY <1>3, <1>4 DEF NoFrameLost
  <2>1. accepted[d][p] \in Nat /\ accepted[d][p] <= accepted'[d][p] /\ accepted'[d][p] \in Nat
        /\ nextSequence[d][p] \in Nat
    BY <1>b, <1>d, <1>f DEF StateTypes
  <2>2. n \in accepted[d][p] .. nextSequence[d][p] - 1
    BY <2>1
  <2>3. PICK u \in Threads : /\ Target(u) = d
                             /\ \E i \in DOMAIN batch[u] :
                                  batch[u][i] = [ordinal |-> p, sequence |-> n]
    BY <2>2 DEF NoFrameLost
  <2>4. PICK i \in DOMAIN batch[u] : batch[u][i] = [ordinal |-> p, sequence |-> n]
    BY <2>3
  <2>5. CASE u # t
    BY <1>c, <2>3, <2>4, <2>5
  <2>6. CASE u = t
    <3>1. d = c
      BY <2>3, <2>6 DEF c
    <3>2. i # 1
      <4> SUFFICES ASSUME i = 1 PROVE FALSE
        OBVIOUS
      <4>1. f.ordinal = p /\ f.sequence = n
        BY <1>c, <2>4, <2>6
      <4>2. n = accepted[c][p] /\ accepted'[c][p] = accepted[c][p] + 1
        BY <1>e, <1>f, <3>1, <4>1
      <4> QED
        BY <2>1, <3>1, <4>2
    <3>3. i - 1 \in DOMAIN batch'[t] /\ (i - 1) + 1 = i
      BY <1>c, <2>6, <3>2
    <3>4. batch'[t][i - 1] = [ordinal |-> p, sequence |-> n]
      BY <1>c, <2>4, <2>6, <3>3
    <3> QED
      BY <2>3, <2>6, <3>3, <3>4
  <2> QED
    BY <2>5, <2>6
<1>8. InflightBounded'
  <2> SUFFICES ASSUME NEW d \in Conns, NEW p \in Ordinals
               PROVE  /\ echoedMessages[d][p] <= accepted'[d][p]
                      /\ accepted'[d][p] <= nextSequence[d][p]
                      /\ nextSequence[d][p] - echoedMessages[d][p] <= MaxInflight[p]
    BY <1>4 DEF InflightBounded
  <2>1. /\ echoedMessages[d][p] <= accepted[d][p]
        /\ accepted[d][p] <= nextSequence[d][p]
        /\ nextSequence[d][p] - echoedMessages[d][p] <= MaxInflight[p]
    BY DEF InflightBounded
  <2>2. echoedMessages[d][p] \in Nat /\ nextSequence[d][p] \in Nat /\ accepted[d][p] \in Nat
    BY DEF StateTypes, ConnectionTypes
  <2>3. f.sequence < nextSequence[c][f.ordinal]
    BY <1>c DEF BatchesHeld, c
  <2> QED
    BY <1>d, <1>e, <1>f, <2>1, <2>2, <2>3
<1>9. CloseDecided'
  BY <1>0, <1>3, <1>4 DEF CloseDecided, ctlVars
<1> QED
  BY <1>1, <1>3, <1>5, <1>6, <1>7, <1>8, <1>9

-----------------------------------------------------------------------------
(* The invariant is inductive.                                             *)

LEMMA InvariantInit == Init => IInv
<1> SUFFICES ASSUME Init PROVE IInv
  OBVIOUS
<1>1. TypeOK
  BY TypeInit
<1> USE Domains, ProfilesAssumption DEF Init
<1>2. PumpCalls
  BY DEF PumpCalls
<1>3. LockHeld /\ BatchesHeld
  BY DEF LockHeld, BatchesHeld
<1>4. NoFrameLost
  BY DEF NoFrameLost
<1>5. InflightBounded
  BY DEF InflightBounded
<1>6. CloseDecided
  BY DEF CloseDecided
<1> QED
  BY <1>1, <1>2, <1>3, <1>4, <1>5, <1>6 DEF IInv

LEMMA InvariantStutters == IInv /\ UNCHANGED vars => IInv'
<1> SUFFICES ASSUME IInv, UNCHANGED vars PROVE IInv'
  OBVIOUS
<1> USE DEF vars, stateVars, streamVars, connVars, pumpVars, mainVars, pacerVars, ctlVars, IInv
<1>1. TypeOK'
  BY TypesUnchanged DEF TypeOK
<1>2. PumpCalls' /\ LockHeld' /\ BatchesHeld' /\ NoFrameLost'
  BY DEF PumpCalls, LockHeld, BatchesHeld, NoFrameLost, Target
<1>3. InflightBounded' /\ CloseDecided'
  BY DEF InflightBounded, CloseDecided, Target
<1> QED
  BY <1>1, <1>2, <1>3

\* The steps of the receive thread and the send thread of connection c.
ConnectionStep(c) ==
  \/ RecvStep(c) \/ SenderStep(c) \/ RecvFails(c) \/ SenderFails(c)
  \/ \E o \in Ordinals, k \in 0 .. MaxMessages : OnDataThrows(c, o, k)

LEMMA InvariantKept == IInv /\ [Next]_vars => IInv'
<1> SUFFICES ASSUME IInv, [Next]_vars PROVE IInv'
  OBVIOUS
<1>1. ASSUME NEW t \in Threads, PumpStep(t) PROVE IInv'
  BY <1>1, PumpRefusedKeeps, PumpEnterKeeps, PumpSelectKeeps, PumpFilledKeeps,
     PumpDecideKeeps, PumpSendKeeps, PumpReturnKeeps DEF PumpStep
<1>2. ASSUME NEW c \in Conns, ConnectionStep(c) PROVE IInv'
  <2>1. ASSUME NEW o \in Ordinals, NEW k \in 0 .. MaxMessages,
               OnData(c, o, k) \/ OnDataThrows(c, o, k)
        PROVE  IInv'
    BY <2>1, EchoCounted, ThrowCounted
  <2> QED
    BY <1>2, <2>1, ReceiverAndSender DEF ConnectionStep, RecvStep, SenderStep
<1>3. CASE MainStep \/ MainConnectFails
  BY <1>3, MainThread
<1>4. CASE PacerStep \/ SignalHandler
  BY <1>4, PacerThread
<1>5. CASE UNCHANGED vars
  BY <1>5, InvariantStutters
<1> QED
  BY <1>1, <1>2, <1>3, <1>4, <1>5 DEF Next, Step, Disturbance, Terminated, ConnectionStep

THEOREM InductiveInvariant == Spec => []IInv
<1>1. Init => IInv
  BY InvariantInit
<1>2. IInv /\ [Next]_vars => IInv'
  BY InvariantKept
<1> QED
  BY <1>1, <1>2, PTL DEF Spec

\* Whatever the threads, the network and the signals do, every variable keeps
\* its type, and a PumpSends call is always for an existing connection.
THEOREM TypeCorrect == Spec => []TypeOK
<1>1. IInv => TypeOK
  BY DEF IInv
<1> QED
  BY <1>1, InductiveInvariant, PTL

\* The sliding window of PumpSends is never exceeded, for every window, number
\* of streams and pacing mode, with any number of threads in PumpSends.
THEOREM WindowRespected == Spec => []InflightBounded
<1>1. IInv => InflightBounded
  BY DEF IInv
<1> QED
  BY <1>1, InductiveInvariant, PTL

\* Frames are handed to an open connection in sequence order on every stream,
\* although the hand-over happens outside mutex_.
THEOREM HandedOverInOrder == Spec => []HandOffInOrder
<1>1. IInv => HandOffInOrder
  BY NextFrameFirst DEF HandOffInOrder
<1> QED
  BY <1>1, InductiveInvariant, PTL

\* CloseSend is decided only on a drained connection after the stop, and then no
\* thread holds a frame of that connection.
THEOREM ClosedAfterDrain == Spec => []CloseAfterDrain
<1>1. IInv => CloseAfterDrain
  <2> SUFFICES ASSUME IInv, NEW c \in Conns, sendClosed[c],
                      NEW t \in Threads, Target(t) = c, batch[t] # <<>>
               PROVE  FALSE
    BY DEF IInv, CloseDecided, CloseAfterDrain
  <2> DEFINE f == batch[t][1]
  <2>1. 1 \in DOMAIN batch[t] /\ f \in Frames
    BY DEF IInv, TypeOK, PumpTypes
  <2>2. f.ordinal \in Ordinals /\ f.sequence \in Nat
    BY <2>1 DEF Frames
  <2>3. accepted[c][f.ordinal] <= f.sequence /\ f.sequence < nextSequence[c][f.ordinal]
    BY <2>1 DEF IInv, BatchesHeld
  <2>4. echoedMessages[c][f.ordinal] <= accepted[c][f.ordinal]
    BY <2>2 DEF IInv, InflightBounded
  <2>5. echoedMessages[c][f.ordinal] = nextSequence[c][f.ordinal]
    BY <2>2 DEF IInv, CloseDecided
  <2>6. accepted[c][f.ordinal] \in Nat /\ nextSequence[c][f.ordinal] \in Nat
    BY <2>2 DEF IInv, TypeOK, StateTypes, ConnectionTypes
  <2> QED
    BY <2>2, <2>3, <2>4, <2>5, <2>6
<1> QED
  BY <1>1, InductiveInvariant, PTL

-----------------------------------------------------------------------------
(* The client implements the abstract echo session.                        *)

LEMMA InitRefines == Init => Abstract!Init
BY DEF Init, Abstract!Init

\* Most steps are invisible to the echo session.
LEMMA InvisibleStep ==
  ASSUME UNCHANGED <<nextSequence, echoedMessages, stopSending, sendClosed>>
  PROVE  [Abstract!Next]_(Abstract!vars)
BY DEF Abstract!vars

LEMMA SelectIsSend ==
  ASSUME IInv, NEW t \in Threads, PumpSelect(t)
  PROVE  Abstract!Next
<1>1. Target(t) \in Conns /\ ~sendClosed[Target(t)]
  BY TargetIsConn DEF IInv, LockHeld, PumpSelect
<1>2. \E o \in Ordinals : Abstract!Send(Target(t), o)
  BY <1>1 DEF PumpSelect, Selectable, WindowOpen, Abstract!Send, ctlVars
<1> QED
  BY <1>1, <1>2 DEF Abstract!Next

LEMMA DecideIsFinish ==
  ASSUME IInv, NEW t \in Threads, PumpDecide(t)
  PROVE  [Abstract!Next]_(Abstract!vars)
<1> DEFINE c == Target(t)
           close == stopSending /\ AllStreamsDrained(c) /\ ~sendClosed[c]
<1>1. c \in Conns
  BY TargetIsConn DEF PumpDecide
<1>2. /\ sendClosed' = [sendClosed EXCEPT ![c] = @ \/ close]
      /\ UNCHANGED <<nextSequence, echoedMessages, stopSending>>
  BY DEF PumpDecide, streamVars
<1>3. sendClosed \in [Conns -> BOOLEAN]
  BY DEF IInv, TypeOK, StateTypes
<1>4. CASE close
  <2>1. sendClosed' = [sendClosed EXCEPT ![c] = TRUE]
    BY <1>2, <1>4
  <2>2. Abstract!Finish(c)
    BY <1>2, <1>4, <2>1 DEF Abstract!Finish, AllStreamsDrained
  <2> QED
    BY <1>1, <2>2 DEF Abstract!Next
<1>5. CASE ~close
  <2>1. sendClosed' = sendClosed
    BY <1>1, <1>2, <1>3, <1>5
  <2> QED
    BY <1>2, <2>1, InvisibleStep
<1> QED
  BY <1>4, <1>5

\* OnData is an echo even when it throws.
LEMMA OnDataIsEcho ==
  ASSUME IInv, NEW c \in Conns, NEW o \in Ordinals, NEW k \in 0 .. MaxMessages,
         OnData(c, o, k) \/ OnDataThrows(c, o, k)
  PROVE  [Abstract!Next]_(Abstract!vars)
<1>1. /\ echoedMessages' = [echoedMessages EXCEPT ![c][o] = @ + k]
      /\ UNCHANGED <<nextSequence, stopSending, sendClosed>>
      /\ echoedMessages[c][o] + k <= accepted[c][o]
  BY DEF OnData, OnDataThrows, ctlVars
<1>2. /\ echoedMessages \in [Conns -> [Ordinals -> Nat]]
      /\ echoedMessages[c][o] \in Nat /\ accepted[c][o] \in Nat /\ nextSequence[c][o] \in Nat
      /\ MaxInflight[o] \in Nat /\ k \in Nat
  BY CountsAssumption, ProfilesAssumption DEF IInv, TypeOK, StateTypes, ConnectionTypes
<1>3. /\ accepted[c][o] <= nextSequence[c][o]
      /\ nextSequence[c][o] - echoedMessages[c][o] <= MaxInflight[o]
  BY DEF IInv, InflightBounded
<1>4. CASE k = 0
  <2>1. echoedMessages' = echoedMessages
    BY <1>1, <1>2, <1>4
  <2> QED
    BY <1>1, <2>1, InvisibleStep
<1>5. CASE k # 0
  <2>1. k \in 1 .. MaxInflight[o]
    BY <1>1, <1>2, <1>3, <1>5
  <2>2. Abstract!Echo(c, o, k)
    BY <1>1, <1>2, <1>3 DEF Abstract!Echo
  <2> QED
    BY <2>1, <2>2 DEF Abstract!Next
<1> QED
  BY <1>4, <1>5

LEMMA StepRefines == IInv /\ [Next]_vars => [Abstract!Next]_(Abstract!vars)
<1> SUFFICES ASSUME IInv, [Next]_vars PROVE [Abstract!Next]_(Abstract!vars)
  OBVIOUS
<1> USE DEF stateVars, streamVars, ctlVars
<1>1. ASSUME NEW t \in Threads, PumpStep(t) PROVE [Abstract!Next]_(Abstract!vars)
  <2>1. CASE PumpSelect(t)
    BY <2>1, SelectIsSend
  <2>2. CASE PumpDecide(t)
    BY <2>2, DecideIsFinish
  <2>3. CASE PumpRefused(t) \/ PumpEnter(t) \/ PumpFilled(t) \/ PumpSend(t) \/ PumpReturn(t)
    BY <2>3, InvisibleStep DEF PumpRefused, PumpEnter, PumpFilled, PumpSend, PumpReturn
  <2> QED
    BY <1>1, <2>1, <2>2, <2>3 DEF PumpStep
<1>2. ASSUME NEW c \in Conns, ConnectionStep(c)
      PROVE  [Abstract!Next]_(Abstract!vars)
  <2>1. ASSUME NEW o \in Ordinals, NEW k \in 0 .. MaxMessages,
               OnData(c, o, k) \/ OnDataThrows(c, o, k)
        PROVE  [Abstract!Next]_(Abstract!vars)
    BY <2>1, OnDataIsEcho
  <2>2. ASSUME \/ RecvCheck(c) \/ RecvBytes(c) \/ OnDataReturns(c) \/ RecvTimeout(c)
               \/ RecvPeerClosed(c) \/ RecvClose(c) \/ RecvOnClosed(c) \/ RecvFails(c)
        PROVE  [Abstract!Next]_(Abstract!vars)
    BY <2>2, InvisibleStep
       DEF RecvCheck, RecvBytes, OnDataReturns, RecvTimeout, RecvPeerClosed, RecvClose,
           RecvOnClosed, RecvFails
  <2>3. CASE SenderStep(c) \/ SenderFails(c)
    BY <2>3, InvisibleStep DEF SenderStep, SenderOnClosed, SenderExits, SenderFails
  <2> QED
    BY <1>2, <2>1, <2>2, <2>3 DEF RecvStep, ConnectionStep
<1>3. CASE MainDeadline
  <2>1. Abstract!Stop
    BY <1>3 DEF MainDeadline, Abstract!Stop
  <2> QED
    BY <2>1 DEF Abstract!Next
<1>4. ASSUME MainStep \/ MainConnectFails, ~MainDeadline PROVE [Abstract!Next]_(Abstract!vars)
  <2>1. UNCHANGED <<nextSequence, echoedMessages, stopSending, sendClosed>>
    BY <1>4 DEF MainStep, MainConnect, MainStartReceive, MainConnectFails, MainStartPacer,
                MainNextStopped, MainLeaves, MainClose, MainAllClosed, MainJoin,
                MainStopPacer, MainDone
  <2> QED
    BY <2>1, InvisibleStep
<1>5. CASE PacerStep \/ SignalHandler
  <2>1. UNCHANGED <<nextSequence, echoedMessages, stopSending, sendClosed>>
    BY <1>5 DEF PacerStep, PacerExits, PacerPass, PacerCalls, PacerSkips, PacerReturns,
                PacerPassEnds, SignalHandler
  <2> QED
    BY <2>1, InvisibleStep
<1>6. CASE UNCHANGED vars
  BY <1>6, InvisibleStep DEF vars
<1> QED
  BY <1>1, <1>2, <1>3, <1>4, <1>5, <1>6 DEF Next, Step, Disturbance, Terminated, ConnectionStep

\* Seen through its counters, the client is a window-limited echo session per
\* stream that finishes a connection only once it is drained.
THEOREM EchoSessionImplemented == Spec => ImplementsEchoSession
<1>1. Init => Abstract!Init
  BY InitRefines
<1>2. IInv /\ [Next]_vars => [Abstract!Next]_(Abstract!vars)
  BY StepRefines
<1> QED
  BY <1>1, <1>2, InductiveInvariant, PTL DEF Spec, ImplementsEchoSession, Abstract!Spec

-----------------------------------------------------------------------------
(* How the client ends: a second inductive invariant, on top of IInv.      *)

\* Which connections are open, while Run starts them and afterwards.
ConnectedFirst ==
  /\ mainPc \in {"connect", "greet"} => ~stopSending
  /\ mainPc = "stopping" => stopSending
  /\ mainPc \in {"wait", "stopping"} \/ stopSending => \A c \in Conns : connected[c]
  /\ mainPc \in {"connect", "greet"} => \A c \in Conns : c < mainConn => connected[c]
  /\ mainPc = "greet" => connected[mainConn]
  /\ \A c \in Conns : connected[c] /\ recvPc[c] = "off" => mainPc = "greet" /\ c = mainConn

\* What the joins have waited for.
ThreadsJoined ==
  /\ mainPc = "join" => \A c \in Conns : c < mainConn => ThreadsEnded(c)
  /\ mainPc \in {"stopPacer", "done"} => \A c \in Conns : ThreadsEnded(c)
  /\ mainPc = "done" => pacerPc \in {"off", "done"}
  /\ \A c \in Conns : /\ recvPc[c] \in {"notify", "done"} => closed[c]
                      /\ recvPc[c] = "done" => c \in closedConnections

\* The decision to close a connection is with one thread, or carried out.
CloseKept ==
  /\ \A t, u \in Threads : closing[t] /\ closing[u] /\ Target(t) = Target(u) => t = u
  /\ \A c \in Conns : sendClosed[c] =>
       closeRequested[c] \/ closed[c] \/ \E t \in Threads : closing[t] /\ Target(t) = c

\* An open window is seen by a call that has not looked at it yet, unless the
\* receive thread is on its way to close the connection.
WindowSeen(c) ==
  connected[c] /\ ShouldSendOnConnection(c) /\ ~Paced /\ ~stopSending
    => \/ \A o \in Ordinals : ~WindowOpen(c, o)
       \/ \E t \in Threads : phase[t] \in {"lock", "fill"} /\ Target(t) = c
       \/ ReceiveLoopLeft(c)

\* A drained connection of a stopped run is closed, or a call will still decide it:
\* one of main, which has not come to it, or one of its receive thread; or that
\* thread is about to close it altogether.
DrainSeen(c) ==
  ~Paced /\ stopSending /\ AllStreamsDrained(c) =>
    \/ sendClosed[c]
    \/ mainPc = "stopping" /\ mainConn < c
    \/ mainPc = "stopping" /\ mainConn = c /\ phase[Main] \in {"lock", "fill", "decide"}
    \/ phase[c] \in {"lock", "fill", "decide"}
    \/ ReceiveLoopLeft(c)

SendsBounded == \A c \in Conns, o \in Ordinals : nextSequence[c][o] <= MaxMessages

EndInv == /\ ConnectedFirst /\ ThreadsJoined /\ CloseKept /\ SendsBounded
          /\ \A c \in Conns : WindowSeen(c) /\ DrainSeen(c)

LEMMA EndInvInit == Init => EndInv
<1> SUFFICES ASSUME Init PROVE EndInv
  OBVIOUS
<1> USE Domains DEF Init
<1>1. ConnectedFirst /\ ThreadsJoined /\ CloseKept
  BY DEF ConnectedFirst, ThreadsJoined, CloseKept, Conns
<1>2. SendsBounded
  BY CountsAssumption DEF SendsBounded
<1>3. \A c \in Conns : WindowSeen(c) /\ DrainSeen(c)
  BY DEF WindowSeen, DrainSeen
<1> QED
  BY <1>1, <1>2, <1>3 DEF EndInv

\* The steps outside PumpSends.
Outside ==
  \/ \E c \in Conns : ConnectionStep(c)
  \/ MainStep \/ MainConnectFails \/ PacerStep \/ SignalHandler

LEMMA OutsideIsBystander ==
  ASSUME IInv, Outside
  PROVE  Bystander
<1> USE DEF IInv, TypeOK
<1>1. ASSUME NEW c \in Conns, ConnectionStep(c)
      PROVE  Bystander
  <2>1. ASSUME NEW o \in Ordinals, NEW k \in 0 .. MaxMessages, OnData(c, o, k) PROVE Bystander
    <3>1. phase[c] = "idle"
      BY <2>1 DEF OnData, PumpCalls
    <3>2. phase' = phase \/ phase' = [phase EXCEPT ![c] = "lock"]
      BY <2>1 DEF OnData, CallPumpSends
    <3> QED
      BY <2>1, <3>1, <3>2 DEF OnData, Bystander, Target, PumpTypes, mainVars, pacerVars, ctlVars
  <2>2. ASSUME NEW o \in Ordinals, NEW k \in 0 .. MaxMessages, OnDataThrows(c, o, k)
        PROVE  Bystander
    BY <2>2 DEF OnDataThrows, Bystander, Target, pumpVars, mainVars, pacerVars, ctlVars
  <2>3. CASE ~\E o \in Ordinals, k \in 0 .. MaxMessages :
                OnData(c, o, k) \/ OnDataThrows(c, o, k)
    <3>1. /\ UNCHANGED <<stateVars, accepted, closeRequested, pumpVars, mainVars, pacerVars,
                         mutex, stopSending>>
          /\ closed' = closed \/ closed' = [closed EXCEPT ![c] = TRUE]
      BY <1>1, <2>3 DEF ConnectionStep, RecvStep, SenderStep, RecvCheck, RecvBytes,
             OnDataReturns, RecvTimeout, RecvPeerClosed, RecvFails, RecvClose, RecvOnClosed,
             SenderFails, SenderOnClosed, SenderExits, ctlVars
    <3> QED
      BY <3>1 DEF Bystander, Target, ConnectionTypes, stateVars, pumpVars, mainVars, pacerVars
  <2> QED
    BY <2>1, <2>2, <2>3
<1>2. CASE MainStep \/ MainConnectFails
  <2> USE Domains
  <2>1. UNCHANGED <<batch, closing, mutex, sendClosed, closeRequested, nextSequence, accepted>>
    BY <1>2 DEF MainStep, MainConnect, MainStartReceive, MainConnectFails, MainStartPacer,
       MainDeadline, MainNextStopped, MainLeaves, MainClose, MainAllClosed, MainJoin,
       MainStopPacer, MainDone, stateVars, streamVars, connVars, pumpVars, ctlVars
  <2>2. (\A c \in Conns : closed[c] => closed'[c]) /\ (stopSending => stopSending')
    BY <1>2 DEF MainStep, MainConnect, MainStartReceive, MainConnectFails, MainStartPacer,
       MainDeadline, MainNextStopped, MainLeaves, MainClose, MainAllClosed, MainJoin,
       MainStopPacer, MainDone, connVars, ctlVars, ConnectionTypes
  <2>3. phase[Main] = "idle"
    BY <1>2 DEF MainStep, MainConnect, MainStartReceive, MainConnectFails, MainStartPacer,
       MainDeadline, MainNextStopped, MainLeaves, MainClose, MainAllClosed, MainJoin,
       MainStopPacer, MainDone, PumpCalls
  <2>4. phase' = phase \/ phase' = [phase EXCEPT ![Main] = "lock"]
    BY <1>2 DEF MainStep, MainConnect, MainStartReceive, MainConnectFails, MainStartPacer,
       MainDeadline, MainNextStopped, MainLeaves, MainClose, MainAllClosed, MainJoin,
       MainStopPacer, MainDone, CallPumpSends, pumpVars
  <2>5. UNCHANGED pacerConn
    BY <1>2 DEF MainStep, MainConnect, MainStartReceive, MainConnectFails, MainStartPacer,
       MainDeadline, MainNextStopped, MainLeaves, MainClose, MainAllClosed, MainJoin,
       MainStopPacer, MainDone, pacerVars
  <2> QED
    BY <2>1, <2>2, <2>3, <2>4, <2>5 DEF Bystander, Target, PumpTypes
<1>3. CASE PacerStep
  <2> USE Domains
  <2>1. /\ UNCHANGED <<batch, closing, mutex, sendClosed, closeRequested, nextSequence, accepted,
                       closed, stopSending, mainPc, mainConn>>
        /\ phase[Pacer] = "idle" \/ (UNCHANGED phase /\ UNCHANGED pacerConn)
        /\ phase' = phase \/ phase' = [phase EXCEPT ![Pacer] = "lock"]
    BY <1>3 DEF PacerStep, PacerExits, PacerPass, PacerCalls, PacerSkips, PacerReturns,
       PacerPassEnds, CallPumpSends, stateVars, streamVars, connVars, pumpVars, ctlVars, mainVars,
       PumpCalls
  <2> QED
    BY <2>1 DEF Bystander, Target, PumpTypes
<1>4. CASE SignalHandler
  BY <1>4 DEF SignalHandler, Bystander, Target, stateVars, streamVars, connVars, pumpVars,
     mainVars, pacerVars
<1> QED
  BY <1>1, <1>2, <1>3, <1>4 DEF Outside

LEMMA InsideEffect ==
  ASSUME IInv, NEW t \in Threads, PumpStep(t)
  PROVE  /\ UNCHANGED <<mainPc, mainConn, pacerPc, pacerConn, connected, recvPc, senderPc,
                        closed, closedConnections, stopSending, echoedMessages>>
         /\ \A u \in Threads : Target(u)' = Target(u)
         /\ \A u \in Threads \ {t} : phase'[u] = phase[u] /\ closing'[u] = closing[u]
         /\ phase[t] # "idle"
<1>1. UNCHANGED <<mainPc, mainConn, pacerPc, pacerConn, connected, recvPc, senderPc,
                  closed, closedConnections, stopSending, echoedMessages>>
  BY DEF PumpStep, PumpRefused, PumpEnter, PumpSelect, PumpFilled, PumpDecide, PumpSend,
         PumpReturn, stateVars, streamVars, connVars, mainVars, pacerVars, ctlVars
<1>2. /\ UNCHANGED phase \/ \E v : phase' = [phase EXCEPT ![t] = v]
      /\ UNCHANGED closing \/ \E v : closing' = [closing EXCEPT ![t] = v]
      /\ phase[t] # "idle"
  BY DEF PumpStep, PumpRefused, PumpEnter, PumpSelect, PumpFilled, PumpDecide, PumpSend,
         PumpReturn
<1>3. \A u \in Threads \ {t} : phase'[u] = phase[u] /\ closing'[u] = closing[u]
  BY <1>2 DEF IInv, TypeOK, PumpTypes
<1> QED
  BY <1>1, <1>2, <1>3 DEF Target

-----------------------------------------------------------------------------
(* Decisions to close.                                                     *)

LEMMA OutsideKeepsClose ==
  ASSUME IInv, CloseKept, SendsBounded, Bystander
  PROVE  CloseKept' /\ SendsBounded'
<1>1. \A t \in Threads : closing[t] => Target(t)' = Target(t)
  BY DEF IInv, CloseDecided, Bystander
<1> QED
  BY <1>1 DEF CloseKept, SendsBounded, Bystander

LEMMA InsideKeepsClose ==
  ASSUME IInv, CloseKept, SendsBounded, NEW t \in Threads, PumpStep(t)
  PROVE  CloseKept' /\ SendsBounded'
<1>1. /\ \A u \in Threads : Target(u)' = Target(u)
      /\ \A u \in Threads \ {t} : closing'[u] = closing[u]
      /\ UNCHANGED closed /\ Target(t) \in Conns
  BY InsideEffect, TargetIsConn
<1>2. SendsBounded'
  <2>1. CASE PumpSelect(t)
    <3>1. PICK o \in Ordinals : /\ Selectable(Target(t), o)
                                /\ nextSequence' = [nextSequence EXCEPT ![Target(t)][o] = @ + 1]
      BY <2>1 DEF PumpSelect
    <3>2. nextSequence[Target(t)][o] \in Nat /\ nextSequence[Target(t)][o] + 1 <= MaxMessages
      BY <1>1, <3>1, CountsAssumption DEF Selectable, WindowOpen, IInv, TypeOK, StateTypes
    <3> QED
      BY <1>1, <3>1, <3>2 DEF SendsBounded, IInv, TypeOK, StateTypes
  <2>2. CASE ~PumpSelect(t)
    <3>1. UNCHANGED nextSequence
      BY <2>2 DEF PumpStep, PumpRefused, PumpEnter, PumpFilled, PumpDecide, PumpSend,
         PumpReturn, stateVars, streamVars
    <3> QED
      BY <3>1 DEF SendsBounded
  <2> QED
    BY <2>1, <2>2
<1>3. CASE PumpDecide(t)
  <2>1. /\ closing'[t] = (stopSending /\ AllStreamsDrained(Target(t)) /\ ~sendClosed[Target(t)])
        /\ sendClosed' = [sendClosed EXCEPT ![Target(t)] = @ \/ closing'[t]]
        /\ UNCHANGED closeRequested /\ phase[t] = "decide"
    BY <1>1, <1>3 DEF PumpDecide, IInv, TypeOK, PumpTypes, connVars
  <2>2. closing[t] = FALSE
    BY <2>1 DEF IInv, CloseDecided, TypeOK, PumpTypes
  <2>3. \A c \in Conns : sendClosed'[c] => sendClosed[c] \/ (c = Target(t) /\ closing'[t])
    BY <1>1, <2>1 DEF IInv, TypeOK, StateTypes
  <2>4. \A u \in Threads : closing[u] => sendClosed[Target(u)]
    BY DEF IInv, CloseDecided
  <2>5. \A u \in Threads \ {t} : closing'[t] /\ closing'[u] => Target(u) # Target(t)
    BY <1>1, <2>1, <2>4
  <2>6. \A u, v \in Threads : closing'[u] /\ closing'[v] /\ Target(u) = Target(v) => u = v
    BY <1>1, <2>5 DEF CloseKept
  <2>7. \A c \in Conns : sendClosed'[c] =>
          closeRequested[c] \/ closed[c] \/ \E u \in Threads : closing'[u] /\ Target(u) = c
    BY <1>1, <2>2, <2>3 DEF CloseKept
  <2> QED
    BY <1>1, <1>2, <2>1, <2>6, <2>7 DEF CloseKept
<1>4. CASE PumpReturn(t)
  <2>1. /\ closeRequested' = [closeRequested EXCEPT ![Target(t)] = @ \/ (closing[t] /\ ~closed[Target(t)])]
        /\ closing'[t] = FALSE /\ UNCHANGED sendClosed
    BY <1>1, <1>4 DEF PumpReturn, IInv, TypeOK, PumpTypes, stateVars
  <2>2. \A c \in Conns : closeRequested[c] => closeRequested'[c]
    BY <1>1, <2>1 DEF IInv, TypeOK, ConnectionTypes
  <2>3. closing[t] => closeRequested'[Target(t)] \/ closed[Target(t)]
    BY <1>1, <2>1 DEF IInv, TypeOK, ConnectionTypes
  <2>4. ASSUME NEW c \in Conns, sendClosed[c]
        PROVE  closeRequested'[c] \/ closed[c] \/ \E u \in Threads : closing'[u] /\ Target(u) = c
    <3>1. CASE closeRequested[c] \/ closed[c]
      BY <2>2, <3>1
    <3>2. CASE \E u \in Threads : closing[u] /\ Target(u) = c
      BY <1>1, <2>3, <3>2
    <3> QED
      BY <2>4, <3>1, <3>2 DEF CloseKept
  <2>5. \A u, v \in Threads : closing'[u] /\ closing'[v] /\ Target(u) = Target(v) => u = v
    BY <1>1, <2>1 DEF CloseKept
  <2> QED
    BY <1>1, <1>2, <2>1, <2>4, <2>5 DEF CloseKept
<1>5. CASE ~PumpDecide(t) /\ ~PumpReturn(t)
  <2>1. UNCHANGED <<closing, sendClosed, closeRequested>>
    BY <1>5 DEF PumpStep, PumpRefused, PumpEnter, PumpSelect, PumpFilled, PumpSend, stateVars,
       connVars
  <2> QED
    BY <1>1, <1>2, <2>1 DEF CloseKept
<1> QED
  BY <1>3, <1>4, <1>5

-----------------------------------------------------------------------------
(* Connections, and the threads of those that were opened.                 *)

LEMMA InsideKeepsJoined ==
  ASSUME IInv, ConnectedFirst, ThreadsJoined, NEW t \in Threads, PumpStep(t)
  PROVE  ConnectedFirst' /\ ThreadsJoined'
BY InsideEffect DEF ConnectedFirst, ThreadsJoined, ThreadsEnded

LEMMA ConnectionKeepsJoined ==
  ASSUME IInv, ConnectedFirst, ThreadsJoined, NEW c \in Conns, ConnectionStep(c)
  PROVE  ConnectedFirst' /\ ThreadsJoined'
<1> USE DEF IInv, TypeOK, ConnectionTypes
\* Only a thread that runs takes a step, and none starts.
<1>1. /\ UNCHANGED <<mainPc, mainConn, pacerPc, connected, stopSending>>
      /\ UNCHANGED recvPc \/ (/\ recvPc[c] \notin {"off", "done"}
                              /\ \E v \in {"check", "recv", "bytes", "data", "ending", "notify", "done"} :
                                   /\ recvPc' = [recvPc EXCEPT ![c] = v]
                                   /\ v = "notify" => closed'[c]
                                   /\ v = "done" => recvPc[c] = "notify" /\ c \in closedConnections')
      /\ UNCHANGED senderPc \/ (/\ senderPc[c] \notin {"off", "done"}
                                /\ \E v \in {"notify", "done"} : senderPc' = [senderPc EXCEPT ![c] = v])
      /\ closed' = closed \/ closed' = [closed EXCEPT ![c] = TRUE]
      /\ closedConnections \subseteq closedConnections'
  BY DEF ConnectionStep, RecvStep, SenderStep, RecvCheck, RecvBytes, OnData, OnDataThrows,
     OnDataReturns, RecvTimeout, RecvPeerClosed, RecvFails, RecvClose, RecvOnClosed, SenderFails,
     SenderOnClosed, SenderExits, stateVars, mainVars, pacerVars, ctlVars
<1>2. \A d \in Conns : recvPc'[d] = "off" <=> recvPc[d] = "off"
  BY <1>1
<1>3. \A d \in Conns : ThreadsEnded(d) => ThreadsEnded(d)'
  BY <1>1 DEF ThreadsEnded
<1>4. \A d \in Conns : /\ recvPc'[d] \in {"notify", "done"} => closed'[d]
                       /\ recvPc'[d] = "done" => d \in closedConnections'
  BY <1>1 DEF ThreadsJoined
<1>5. ConnectedFirst'
  BY <1>1, <1>2 DEF ConnectedFirst
<1>6. ThreadsJoined'
  BY <1>1, <1>3, <1>4 DEF ThreadsJoined
<1> QED
  BY <1>5, <1>6

LEMMA MainKeepsJoined ==
  ASSUME IInv, ConnectedFirst, ThreadsJoined, MainStep \/ MainConnectFails
  PROVE  ConnectedFirst' /\ ThreadsJoined'
<1> USE Domains DEF IInv, TypeOK, MainTypes, ConnectionTypes, StateTypes
<1>1. ASSUME MainConnect PROVE ConnectedFirst' /\ ThreadsJoined'
  <2>1. /\ mainPc = "connect" /\ mainConn \in Conns /\ mainPc' = "greet" /\ mainConn' = mainConn
        /\ connected' = [connected EXCEPT ![mainConn] = TRUE]
        /\ UNCHANGED <<recvPc, senderPc, closed, closedConnections, stopSending, pacerPc>>
    BY <1>1 DEF MainConnect, connVars, pacerVars, ctlVars
  <2>2. ConnectedFirst'
    BY <2>1 DEF ConnectedFirst
  <2> QED
    BY <2>1, <2>2 DEF ThreadsJoined
<1>2. ASSUME MainStartReceive PROVE ConnectedFirst' /\ ThreadsJoined'
  <2>1. /\ mainPc = "greet" /\ mainConn \in Conns /\ mainPc' = "connect" /\ mainConn' = mainConn + 1
        /\ recvPc' = [recvPc EXCEPT ![mainConn] = "check"]
        /\ UNCHANGED <<connected, closed, closedConnections, stopSending, pacerPc>>
    BY <1>2 DEF MainStartReceive, stateVars, pacerVars, ctlVars
  <2>2. \A c \in Conns : c < mainConn + 1 => c < mainConn \/ c = mainConn
    BY DEF Conns
  <2>3. ConnectedFirst'
    BY <2>1, <2>2 DEF ConnectedFirst
  <2> QED
    BY <2>1, <2>3 DEF ThreadsJoined
<1>3. ASSUME MainConnectFails \/ MainStartPacer \/ MainDeadline \/ MainNextStopped \/ MainLeaves
      PROVE  ConnectedFirst' /\ ThreadsJoined'
  <2>1. /\ UNCHANGED <<connected, recvPc, senderPc, closed, closedConnections>>
        /\ mainPc \in {"connect", "wait", "stopping"}
        /\ mainPc' \in {"wait", "stopping", "force", "stop"}
        /\ mainPc' = "stopping" => mainPc \in {"wait", "stopping"} /\ stopSending'
        /\ mainPc = "connect" => /\ stopSending' = stopSending
                                 /\ mainPc' = "stop" \/ (mainPc' = "wait" /\ mainConn = ClientCount)
    BY <1>3 DEF MainConnectFails, MainStartPacer, MainDeadline, MainNextStopped, MainLeaves,
       ConnectedFirst, stateVars, connVars, ctlVars
  <2>2. \A c \in Conns : c < ClientCount
    BY DEF Conns
  <2>3. ConnectedFirst'
    BY <2>1, <2>2 DEF ConnectedFirst
  <2> QED
    BY <2>1, <2>3 DEF ThreadsJoined
<1>4. ASSUME MainClose \/ MainAllClosed PROVE ConnectedFirst' /\ ThreadsJoined'
  <2>1. /\ UNCHANGED <<connected, recvPc, senderPc, closedConnections, stopSending>>
        /\ mainPc \in {"force", "stop"} /\ mainPc' \in {"force", "stop", "join"}
        /\ mainPc' = "join" => mainConn' = 0
        /\ \A c \in Conns : closed[c] => closed'[c]
    BY <1>4 DEF MainClose, MainAllClosed, stateVars, connVars, ctlVars
  <2>2. \A c \in Conns : ~(c < 0)
    BY DEF Conns
  <2>3. ConnectedFirst'
    BY <2>1 DEF ConnectedFirst
  <2> QED
    BY <2>1, <2>2, <2>3 DEF ThreadsJoined
<1>5. ASSUME MainJoin \/ MainStopPacer \/ MainDone PROVE ConnectedFirst' /\ ThreadsJoined'
  <2>1. /\ UNCHANGED <<connected, recvPc, senderPc, closed, closedConnections, stopSending, pacerPc>>
        /\ mainPc \in {"join", "stopPacer"} /\ mainPc' \in {"join", "stopPacer", "done"}
        /\ mainPc' = "join" => /\ mainPc = "join" /\ mainConn' = mainConn + 1
                               /\ ThreadsEnded(mainConn)
        /\ mainPc' = "stopPacer" => mainPc = "join" /\ mainConn = ClientCount
        /\ mainPc' = "done" => mainPc = "stopPacer" /\ pacerPc \in {"off", "done"}
    BY <1>5 DEF MainJoin, MainStopPacer, MainDone, stateVars, connVars, pacerVars, ctlVars
  <2>2. \A c \in Conns : c < ClientCount /\ (c < mainConn + 1 => c < mainConn \/ c = mainConn)
    BY DEF Conns
  <2>3. ConnectedFirst'
    BY <2>1 DEF ConnectedFirst
  <2>4. \A c \in Conns : ThreadsEnded(c)' <=> ThreadsEnded(c)
    BY <2>1 DEF ThreadsEnded
  <2> QED
    BY <2>1, <2>2, <2>3, <2>4 DEF ThreadsJoined
<1> QED
  BY <1>1, <1>2, <1>3, <1>4, <1>5 DEF MainStep

LEMMA OthersKeepJoined ==
  ASSUME IInv, ConnectedFirst, ThreadsJoined, PacerStep \/ SignalHandler
  PROVE  ConnectedFirst' /\ ThreadsJoined'
<1>1. /\ UNCHANGED <<mainPc, mainConn, connected, recvPc, senderPc, closed, closedConnections,
                     stopSending>>
      /\ pacerPc \in {"off", "done"} => pacerPc' \in {"off", "done"}
  BY DEF PacerStep, PacerExits, PacerPass, PacerCalls, PacerSkips, PacerReturns, PacerPassEnds,
     SignalHandler, stateVars, connVars, mainVars, pacerVars, ctlVars
<1> QED
  BY <1>1 DEF ConnectedFirst, ThreadsJoined, ThreadsEnded

LEMMA OutsideKeepsJoined ==
  ASSUME IInv, ConnectedFirst, ThreadsJoined, Outside
  PROVE  ConnectedFirst' /\ ThreadsJoined'
BY ConnectionKeepsJoined, MainKeepsJoined, OthersKeepJoined DEF Outside

\* A receive loop that was left stays left: the thread only goes on to its end.
LEMMA LeftForGood ==
  ASSUME IInv, Outside, NEW c \in Conns, ReceiveLoopLeft(c)
  PROVE  ReceiveLoopLeft(c)'
<1> USE DEF ReceiveLoopLeft, IInv, TypeOK, ConnectionTypes
<1>1. ASSUME NEW d \in Conns, ConnectionStep(d)
      PROVE  /\ \A e \in Conns \ {d} : recvPc'[e] = recvPc[e]
             /\ recvPc[d] \in {"ending", "notify", "done"} =>
                  recvPc'[d] \in {"ending", "notify", "done"}
  BY <1>1 DEF ConnectionStep, RecvStep, SenderStep, RecvCheck, RecvBytes, OnData, OnDataThrows,
     OnDataReturns, RecvTimeout, RecvPeerClosed, RecvFails, RecvClose, RecvOnClosed, SenderFails,
     SenderOnClosed, SenderExits
<1>2. CASE MainStartReceive
  <2>1. mainConn \in Conns /\ recvPc[mainConn] = "off"
    BY <1>2, Domains DEF MainStartReceive, PumpCalls, MainTypes, Conns
  <2> QED
    BY <1>2, <2>1 DEF MainStartReceive
<1>3. CASE (MainStep /\ ~MainStartReceive) \/ MainConnectFails \/ PacerStep \/ SignalHandler
  BY <1>3 DEF MainStep, MainConnect, MainConnectFails, MainStartPacer, MainDeadline,
     MainNextStopped, MainLeaves, MainClose, MainAllClosed, MainJoin, MainStopPacer, MainDone,
     PacerStep, PacerExits, PacerPass, PacerCalls, PacerSkips, PacerReturns, PacerPassEnds,
     SignalHandler, connVars
<1> QED
  BY <1>1, <1>2, <1>3 DEF Outside

-----------------------------------------------------------------------------
(* Open windows are seen.                                                  *)

\* A step outside PumpSends that neither opens a connection nor counts echoes
\* on it leaves the calls that will look at its windows alone.
LEMMA BystanderKeepsWindow ==
  ASSUME Bystander, NEW c \in Conns, WindowSeen(c),
         connected'[c] = connected[c], echoedMessages'[c] = echoedMessages[c],
         ReceiveLoopLeft(c) => ReceiveLoopLeft(c)'
  PROVE  WindowSeen(c)'
<1>1. \A t \in Threads : phase[t] \in {"lock", "fill"} => phase'[t] = phase[t] /\ Target(t)' = Target(t)
  BY DEF Bystander
<1>2. UNCHANGED nextSequence /\ (stopSending => stopSending')
  BY DEF Bystander
<1> QED
  BY <1>1, <1>2 DEF WindowSeen, WindowOpen

LEMMA UnpacedHasNoRates ==
  ~Paced => PacingMode = "Unlimited" /\ RatedStreams = {}
BY ProfilesAssumption DEF Paced, RatedStreams

LEMMA InsideKeepsWindow ==
  ASSUME IInv, ConnectedFirst, NEW c \in Conns, WindowSeen(c), NEW t \in Threads, PumpStep(t)
  PROVE  WindowSeen(c)'
<1>1. /\ UNCHANGED <<connected, stopSending, echoedMessages, recvPc>>
      /\ \A u \in Threads : Target(u)' = Target(u)
      /\ \A u \in Threads \ {t} : phase'[u] = phase[u]
  BY InsideEffect
<1> SUFFICES ASSUME connected[c], ShouldSendOnConnection(c), ~Paced, ~stopSending,
                    ~ReceiveLoopLeft(c)
             PROVE  \/ \A o \in Ordinals : ~WindowOpen(c, o)'
                    \/ \E u \in Threads : phase'[u] \in {"lock", "fill"} /\ Target(u)' = c
  BY <1>1 DEF WindowSeen, ReceiveLoopLeft
<1>2. \/ \A o \in Ordinals : ~WindowOpen(c, o)
      \/ \E u \in Threads : phase[u] \in {"lock", "fill"} /\ Target(u) = c
  BY DEF WindowSeen
<1>3. CASE UNCHANGED nextSequence
  <2>1. \A o \in Ordinals : WindowOpen(c, o)' <=> WindowOpen(c, o)
    BY <1>1, <1>3 DEF WindowOpen
  <2>2. CASE \A o \in Ordinals : ~WindowOpen(c, o)
    BY <2>1, <2>2
  <2>3. CASE \E u \in Threads \ {t} : phase[u] \in {"lock", "fill"} /\ Target(u) = c
    BY <1>1, <2>3
  <2>4. CASE phase[t] \in {"lock", "fill"} /\ Target(t) = c
    <3>1. ~PumpRefused(t)
      BY <2>4 DEF PumpRefused, IInv, CloseDecided
    <3>2. ASSUME PumpEnter(t) \/ PumpSelect(t) PROVE phase'[t] = "fill"
      BY <3>2, <2>4 DEF PumpEnter, PumpSelect, IInv, TypeOK, PumpTypes
    <3>3. ASSUME PumpFilled(t) PROVE \A o \in Ordinals : ~WindowOpen(c, o)
      <4>1. BelowLimit(t)
        BY <2>4, Domains DEF BelowLimit, IInv, PumpCalls, ConnectedFirst, Threads
      <4> QED
        BY <3>3, <4>1, <2>4, UnpacedHasNoRates DEF PumpFilled
    <3>4. ~PumpDecide(t) /\ ~PumpSend(t) /\ ~PumpReturn(t)
      BY <2>4 DEF PumpDecide, PumpSend, PumpReturn
    <3> QED
      BY <1>1, <2>1, <2>4, <3>1, <3>2, <3>3, <3>4 DEF PumpStep
  <2> QED
    BY <1>2, <2>2, <2>3, <2>4
<1>4. CASE PumpSelect(t)
  <2>1. phase[t] = "fill" /\ UNCHANGED phase
    BY <1>4 DEF PumpSelect
  <2>2. CASE Target(t) = c
    BY <1>1, <2>1, <2>2
  <2>3. CASE Target(t) # c
    <3>1. nextSequence'[c] = nextSequence[c]
      BY <1>4, <2>3, TargetIsConn DEF PumpSelect, IInv, TypeOK, StateTypes
    <3>2. \A o \in Ordinals : WindowOpen(c, o)' <=> WindowOpen(c, o)
      BY <1>1, <3>1 DEF WindowOpen
    <3> QED
      BY <1>1, <1>2, <2>1, <3>2
  <2> QED
    BY <2>2, <2>3
<1>5. CASE ~PumpSelect(t)
  <2>1. UNCHANGED nextSequence
    BY <1>5 DEF PumpStep, PumpRefused, PumpEnter, PumpFilled, PumpDecide, PumpSend, PumpReturn,
       stateVars, streamVars
  <2> QED
    BY <1>3, <2>1
<1> QED
  BY <1>4, <1>5

\* Bytes of an echo: OnData goes on into PumpSends, or it throws and the receive
\* thread leaves its loop.
LEMMA EchoIsSeen ==
  ASSUME IInv, Bystander, NEW c \in Conns, WindowSeen(c), NEW d \in Conns, ConnectionStep(d)
  PROVE  WindowSeen(c)'
<1>0. ReceiveLoopLeft(c) => ReceiveLoopLeft(c)'
  BY LeftForGood DEF Outside
<1>1. ASSUME NEW o \in Ordinals, NEW k \in 0 .. MaxMessages, OnData(d, o, k)
      PROVE  WindowSeen(c)'
  <2>1. CASE d # c
    <3>1. connected'[c] = connected[c] /\ echoedMessages'[c] = echoedMessages[c]
      BY <1>1, <2>1 DEF OnData, IInv, TypeOK, StateTypes
    <3> QED
      BY <1>0, <3>1, BystanderKeepsWindow
  <2>2. CASE d = c
    <3>1. ~Paced => phase'[c] = "lock"
      BY <1>1, <2>2, Domains DEF OnData, PumpsInline, CallPumpSends, IInv, TypeOK, PumpTypes
    <3>2. Target(c)' = c /\ c \in Threads
      BY Domains DEF Target
    <3> QED
      BY <3>1, <3>2 DEF WindowSeen
  <2> QED
    BY <2>1, <2>2
<1>2. ASSUME NEW o \in Ordinals, NEW k \in 0 .. MaxMessages, OnDataThrows(d, o, k)
      PROVE  WindowSeen(c)'
  <2>1. CASE d # c
    <3>1. connected'[c] = connected[c] /\ echoedMessages'[c] = echoedMessages[c]
      BY <1>2, <2>1 DEF OnDataThrows, IInv, TypeOK, StateTypes
    <3> QED
      BY <1>0, <3>1, BystanderKeepsWindow
  <2>2. CASE d = c
    BY <1>2, <2>2 DEF OnDataThrows, WindowSeen, ReceiveLoopLeft, IInv, TypeOK, ConnectionTypes
  <2> QED
    BY <2>1, <2>2
<1>3. CASE ~\E o \in Ordinals, k \in 0 .. MaxMessages :
              OnData(d, o, k) \/ OnDataThrows(d, o, k)
  <2>1. UNCHANGED <<connected, echoedMessages>>
    BY <1>3 DEF ConnectionStep, RecvStep, SenderStep, RecvCheck, RecvBytes, OnDataReturns,
       RecvTimeout, RecvPeerClosed, RecvFails, RecvClose, RecvOnClosed, SenderFails,
       SenderOnClosed, SenderExits, stateVars, streamVars
  <2> QED
    BY <1>0, <2>1, BystanderKeepsWindow
<1> QED
  BY <1>1, <1>2, <1>3

LEMMA OutsideKeepsWindow ==
  ASSUME IInv, NEW c \in Conns, WindowSeen(c), Outside
  PROVE  WindowSeen(c)'
<1>1. Bystander /\ (ReceiveLoopLeft(c) => ReceiveLoopLeft(c)')
  BY OutsideIsBystander, LeftForGood
<1>2. CASE MainConnect
  <2>1. /\ mainConn' = mainConn /\ UNCHANGED echoedMessages
        /\ connected' = [connected EXCEPT ![mainConn] = TRUE]
        /\ ~Paced => phase' = [phase EXCEPT ![Main] = "lock"]
    BY <1>2 DEF MainConnect, PumpsInline, CallPumpSends, streamVars
  <2>2. CASE mainConn # c
    BY <1>1, <2>1, <2>2, BystanderKeepsWindow DEF IInv, TypeOK, StateTypes
  <2>3. CASE mainConn = c
    <3>1. Target(Main)' = c /\ Main \in Threads /\ (~Paced => phase'[Main] = "lock")
      BY <2>1, <2>3, Domains DEF Target, IInv, TypeOK, PumpTypes
    <3> QED
      BY <3>1 DEF WindowSeen
  <2> QED
    BY <2>2, <2>3
<1>3. CASE \E d \in Conns : ConnectionStep(d)
  BY <1>1, <1>3, EchoIsSeen
<1>4. CASE (MainStep /\ ~MainConnect) \/ MainConnectFails \/ PacerStep \/ SignalHandler
  <2>1. UNCHANGED <<connected, echoedMessages>>
    BY <1>4 DEF MainStep, MainStartReceive, MainConnectFails, MainStartPacer, MainDeadline,
       MainNextStopped, MainLeaves, MainClose, MainAllClosed, MainJoin, MainStopPacer, MainDone,
       PacerStep, PacerExits, PacerPass, PacerCalls, PacerSkips, PacerReturns, PacerPassEnds,
       SignalHandler, stateVars, streamVars
  <2> QED
    BY <1>1, <2>1, BystanderKeepsWindow
<1> QED
  BY <1>2, <1>3, <1>4 DEF Outside

-----------------------------------------------------------------------------
(* Drained connections are seen.                                           *)

LEMMA InsideKeepsDrain ==
  ASSUME IInv, ConnectedFirst, NEW c \in Conns, DrainSeen(c), NEW t \in Threads, PumpStep(t)
  PROVE  DrainSeen(c)'
<1> USE Domains
<1>1. /\ UNCHANGED <<mainPc, mainConn, stopSending, echoedMessages, recvPc>>
      /\ \A u \in Threads \ {t} : phase'[u] = phase[u]
  BY InsideEffect
<1>2. UNCHANGED sendClosed \/ PumpDecide(t)
  BY DEF PumpStep, PumpRefused, PumpEnter, PumpSelect, PumpFilled, PumpSend, PumpReturn,
     stateVars
<1>3. sendClosed[c] => sendClosed'[c]
  BY <1>2, TargetIsConn DEF PumpDecide, IInv, TypeOK, StateTypes
<1> SUFFICES ASSUME ~Paced, stopSending, AllStreamsDrained(c)', ~ReceiveLoopLeft(c)
             PROVE  \/ sendClosed'[c]
                    \/ mainPc = "stopping" /\ mainConn < c
                    \/ mainPc = "stopping" /\ mainConn = c /\ phase'[Main] \in {"lock", "fill", "decide"}
                    \/ phase'[c] \in {"lock", "fill", "decide"}
  BY <1>1 DEF DrainSeen, ReceiveLoopLeft
\* Nothing is produced any more.
<1>4. UNCHANGED nextSequence /\ ~PumpSelect(t)
  BY DEF PumpStep, PumpRefused, PumpEnter, PumpSelect, PumpFilled, PumpDecide, PumpSend, PumpReturn,
     stateVars, streamVars
<1>5. AllStreamsDrained(c)
  BY <1>1, <1>4 DEF AllStreamsDrained
<1>6. CASE \/ sendClosed[c]
           \/ mainPc = "stopping" /\ mainConn < c
           \/ mainPc = "stopping" /\ mainConn = c /\ phase[Main] \in {"lock", "fill", "decide"} /\ t # Main
           \/ phase[c] \in {"lock", "fill", "decide"} /\ t # c
  BY <1>1, <1>3, <1>6
<1>7. CASE /\ phase[t] \in {"lock", "fill", "decide"} /\ Target(t) = c
           /\ t = c \/ (t = Main /\ mainPc = "stopping" /\ mainConn = c)
  <2>1. ASSUME PumpEnter(t) \/ PumpFilled(t) PROVE phase'[t] \in {"fill", "decide"}
    BY <2>1 DEF PumpEnter, PumpFilled, IInv, TypeOK, PumpTypes
  <2>2. ASSUME PumpRefused(t) PROVE sendClosed[c]
    BY <1>7, <2>2 DEF PumpRefused, ConnectedFirst
  <2>3. ASSUME PumpDecide(t) PROVE sendClosed'[c]
    BY <1>5, <1>7, <2>3 DEF PumpDecide, IInv, TypeOK, StateTypes
  <2>4. ~PumpSend(t) /\ ~PumpReturn(t)
    BY <1>7 DEF PumpSend, PumpReturn
  <2> QED
    BY <1>3, <1>4, <1>7, <2>1, <2>2, <2>3, <2>4 DEF PumpStep
<1> QED
  BY <1>5, <1>6, <1>7 DEF DrainSeen, Target

LEMMA EchoKeepsDrain ==
  ASSUME IInv, Bystander, NEW c \in Conns, DrainSeen(c), NEW d \in Conns, ConnectionStep(d)
  PROVE  DrainSeen(c)'
<1> USE Domains
<1>1. UNCHANGED <<mainPc, mainConn, stopSending>>
  BY DEF ConnectionStep, RecvStep, SenderStep, RecvCheck, RecvBytes, OnData, OnDataThrows,
     OnDataReturns, RecvTimeout, RecvPeerClosed, RecvFails, RecvClose, RecvOnClosed, SenderFails,
     SenderOnClosed, SenderExits, mainVars, ctlVars
<1>2. ASSUME NEW o \in Ordinals, NEW k \in 0 .. MaxMessages, OnData(d, o, k), d = c, ~Paced
      PROVE  phase'[c] = "lock"
  BY <1>2 DEF OnData, PumpsInline, CallPumpSends, IInv, TypeOK, PumpTypes
<1>3. \/ echoedMessages'[c] = echoedMessages[c]
      \/ \E o \in Ordinals, k \in 0 .. MaxMessages :
           (OnData(d, o, k) \/ OnDataThrows(d, o, k)) /\ d = c
  BY DEF ConnectionStep, RecvStep, SenderStep, RecvCheck, RecvBytes, OnData, OnDataThrows,
     OnDataReturns, RecvTimeout, RecvPeerClosed, RecvFails, RecvClose, RecvOnClosed, SenderFails,
     SenderOnClosed, SenderExits, stateVars, streamVars, IInv, TypeOK, StateTypes
<1>4. \A t \in Threads : phase[t] # "idle" => phase'[t] = phase[t]
  BY DEF Bystander
<1>5. UNCHANGED <<nextSequence, sendClosed>>
  BY DEF Bystander
<1>6. ASSUME NEW o \in Ordinals, NEW k \in 0 .. MaxMessages, OnDataThrows(d, o, k), d = c
      PROVE  ReceiveLoopLeft(c)'
  BY <1>6 DEF OnDataThrows, ReceiveLoopLeft, IInv, TypeOK, ConnectionTypes
<1>7. ReceiveLoopLeft(c) => ReceiveLoopLeft(c)'
  BY LeftForGood DEF Outside
<1> QED
  BY <1>1, <1>2, <1>3, <1>4, <1>5, <1>6, <1>7 DEF DrainSeen, AllStreamsDrained

LEMMA OutsideKeepsDrain ==
  ASSUME IInv, ConnectedFirst, NEW c \in Conns, DrainSeen(c), Outside
  PROVE  DrainSeen(c)'
<1> USE Domains
<1>1. Bystander
  BY OutsideIsBystander
<1>2. /\ UNCHANGED <<nextSequence, sendClosed>>
      /\ \A t \in Threads : phase[t] # "idle" => phase'[t] = phase[t]
      /\ ReceiveLoopLeft(c) => ReceiveLoopLeft(c)'
  BY <1>1, LeftForGood DEF Bystander
<1>3. CASE \E d \in Conns : ConnectionStep(d)
  BY <1>1, <1>3, EchoKeepsDrain
<1>4. CASE MainDeadline
  <2>1. /\ mainPc' = "stopping" /\ mainConn' = 0 /\ phase'[Main] = "lock"
        /\ UNCHANGED echoedMessages
    BY <1>4 DEF MainDeadline, CallPumpSends, stateVars, streamVars, IInv, TypeOK, PumpTypes
  <2>2. c = 0 \/ 0 < c
    BY DEF Conns
  <2> QED
    BY <2>1, <2>2 DEF DrainSeen
<1>5. CASE MainNextStopped
  <2>1. /\ mainPc = "stopping" /\ phase[Main] = "idle" /\ mainConn \in Conns
        /\ UNCHANGED <<echoedMessages, stopSending>>
    BY <1>5 DEF MainNextStopped, stateVars, streamVars, ctlVars, IInv, TypeOK, MainTypes
  <2>2. mainConn < c => /\ mainPc' = "stopping" /\ mainConn' = mainConn + 1
                        /\ phase'[Main] = "lock"
    BY <1>5, <2>1 DEF MainNextStopped, LastConn, CallPumpSends, Conns, IInv, TypeOK, PumpTypes
  <2>3. mainConn < c => mainConn + 1 < c \/ mainConn + 1 = c
    BY <2>1 DEF Conns
  <2> QED
    BY <1>2, <2>1, <2>2, <2>3 DEF DrainSeen, AllStreamsDrained
<1>6. CASE (MainStep /\ ~MainDeadline /\ ~MainNextStopped) \/ MainConnectFails
  <2>1. mainPc # "stopping" /\ UNCHANGED <<echoedMessages, stopSending>>
    BY <1>6 DEF MainStep, MainConnect, MainStartReceive, MainConnectFails, MainStartPacer,
       MainLeaves, MainClose, MainAllClosed, MainJoin, MainStopPacer, MainDone,
       stateVars, streamVars, ctlVars
  <2> QED
    BY <1>2, <2>1 DEF DrainSeen, AllStreamsDrained
<1>7. CASE PacerStep \/ SignalHandler
  <2>1. UNCHANGED <<mainPc, mainConn, echoedMessages, stopSending>>
    BY <1>7 DEF PacerStep, PacerExits, PacerPass, PacerCalls, PacerSkips, PacerReturns,
       PacerPassEnds, SignalHandler, stateVars, streamVars, mainVars, ctlVars
  <2> QED
    BY <1>2, <2>1 DEF DrainSeen, AllStreamsDrained
<1> QED
  BY <1>3, <1>4, <1>5, <1>6, <1>7 DEF Outside

-----------------------------------------------------------------------------
LEMMA EndInvKept == IInv /\ EndInv /\ [Next]_vars => EndInv'
<1> SUFFICES ASSUME IInv, EndInv, [Next]_vars PROVE EndInv'
  OBVIOUS
<1> USE DEF EndInv
<1>1. CASE \E t \in Threads : PumpStep(t)
  BY <1>1, InsideKeepsJoined, InsideKeepsClose, InsideKeepsWindow, InsideKeepsDrain
<1>2. CASE Outside
  BY <1>2, OutsideIsBystander, OutsideKeepsJoined, OutsideKeepsClose, OutsideKeepsWindow,
     OutsideKeepsDrain
<1>3. CASE UNCHANGED vars
  BY <1>3 DEF vars, stateVars, connVars, pumpVars, mainVars, pacerVars, ctlVars, ConnectedFirst,
     ThreadsJoined, ThreadsEnded, CloseKept, SendsBounded, WindowSeen, WindowOpen, DrainSeen,
     AllStreamsDrained, ReceiveLoopLeft, Target
<1> QED
  BY <1>1, <1>2, <1>3 DEF Next, Step, Disturbance, Terminated, Outside, ConnectionStep

\* The end of the client is safe: along with IInv, every reachable state has
\* ConnectedFirst, ThreadsJoined, CloseKept, SendsBounded, WindowSeen, DrainSeen.
THEOREM SecondInvariant == Spec => []EndInv
<1>1. Init => EndInv
  BY EndInvInit
<1>2. IInv /\ EndInv /\ [Next]_vars => EndInv'
  BY EndInvKept
<1>3. QED
  BY <1>1, <1>2, InductiveInvariant, PTL DEF Spec

\* A decision of PumpSends to close a connection (send_closed) is taken by one
\* thread at a time and is never lost: it is on its way to CloseSend, or
\* CloseSend was called, or the connection is closed altogether.
THEOREM DecisionsCarriedOut == Spec => []CloseCarriedOut
<1>1. EndInv => CloseCarriedOut
  <2> SUFFICES ASSUME EndInv, NEW c \in Conns
               PROVE  LET closers == {t \in Threads : closing[t] /\ Target(t) = c} IN
                      /\ Cardinality(closers) <= 1
                      /\ sendClosed[c] => closeRequested[c] \/ closed[c] \/ closers # {}
    BY DEF CloseCarriedOut
  <2> DEFINE closers == {t \in Threads : closing[t] /\ Target(t) = c}
  <2>1. CASE closers = {}
    <3>1. Cardinality(closers) = 0
      BY <2>1, FS_EmptySet
    <3> QED
      BY <2>1, <3>1 DEF EndInv, CloseKept
  <2>2. ASSUME NEW t \in closers
        PROVE  Cardinality(closers) <= 1 /\ closers # {}
    <3>1. closers = {t}
      BY <2>2 DEF EndInv, CloseKept
    <3>2. Cardinality({t}) = 1
      BY FS_Singleton
    <3> QED
      BY <3>1, <3>2
  <2> QED
    BY <2>1, <2>2
<1>2. QED
  BY <1>1, SecondInvariant, PTL

\* An unpaced client keeps its windows full until the stop: whenever no
\* PumpSends call for a connection is under way, each of its streams has as many
\* frames outstanding as its profile allows, unless its receive thread has left
\* its loop (an OnData that throws counts echoes and does not get to PumpSends).
THEOREM WindowStaysFull == Spec => []WindowKeptFull
<1>1. IInv /\ EndInv => WindowKeptFull
  <2> SUFFICES ASSUME IInv, EndInv, NEW c \in Conns,
                      connected[c], ShouldSendOnConnection(c), ~Paced, ~stopSending
               PROVE  \/ \A o \in Ordinals : \/ nextSequence[c][o] = MaxMessages
                                             \/ nextSequence[c][o] - echoedMessages[c][o] = MaxInflight[o]
                      \/ \E t \in Threads : phase[t] # "idle" /\ Target(t) = c
                      \/ ReceiveLoopLeft(c)
    BY DEF WindowKeptFull
  <2>1. \/ \A o \in Ordinals : ~WindowOpen(c, o)
        \/ \E t \in Threads : phase[t] \in {"lock", "fill"} /\ Target(t) = c
        \/ ReceiveLoopLeft(c)
    BY DEF EndInv, WindowSeen
  <2>2. ASSUME NEW o \in Ordinals, ~WindowOpen(c, o)
        PROVE  \/ nextSequence[c][o] = MaxMessages
               \/ nextSequence[c][o] - echoedMessages[c][o] = MaxInflight[o]
    <3>1. /\ nextSequence[c][o] \in Nat /\ echoedMessages[c][o] \in Nat
          /\ MaxInflight[o] \in Nat /\ MaxMessages \in Nat
      BY CountsAssumption, ProfilesAssumption DEF IInv, TypeOK, StateTypes
    <3>2. /\ nextSequence[c][o] <= MaxMessages
          /\ nextSequence[c][o] - echoedMessages[c][o] <= MaxInflight[o]
      BY DEF IInv, InflightBounded, EndInv, SendsBounded
    <3> QED
      BY <2>2, <3>1, <3>2 DEF WindowOpen
  <2> QED
    BY <2>1, <2>2
<1>2. QED
  BY <1>1, InductiveInvariant, SecondInvariant, PTL

\* After RequestStopSending an unpaced client leaves no drained connection
\* undecided, whichever of the last echo and main's look at it came first, unless
\* the receive thread has left its loop and closes the connection itself: after
\* an OnData that counted the last echo and threw nobody looks at it again.
THEOREM LastEchoDecides == Spec => []LastEchoCloses
<1>1. IInv /\ EndInv => LastEchoCloses
  <2> SUFFICES ASSUME IInv, EndInv, NEW c \in Conns, ~Paced, stopSending, recvPc[c] # "data",
                      ~(mainPc = "stopping" /\ mainConn <= c),
                      \A o \in Ordinals : echoedMessages[c][o] = nextSequence[c][o]
               PROVE  sendClosed[c] \/ ReceiveLoopLeft(c)
    BY DEF LastEchoCloses
  <2>1. AllStreamsDrained(c) /\ phase[c] = "idle"
    BY DEF AllStreamsDrained, IInv, PumpCalls
  <2>2. ~(mainPc = "stopping" /\ mainConn < c) /\ ~(mainPc = "stopping" /\ mainConn = c)
    BY DEF Conns, IInv, TypeOK, MainTypes
  <2> QED
    BY <2>1, <2>2 DEF EndInv, DrainSeen
<1>2. QED
  BY <1>1, InductiveInvariant, SecondInvariant, PTL

\* After the joins of Stop every connection that was opened has been reported
\* closed and no callback runs; once the pacer is joined nobody holds mutex_.
THEOREM QuietAfterTheJoins == Spec => []QuietAfterJoin
<1>1. IInv /\ EndInv => QuietAfterJoin
  <2> SUFFICES ASSUME IInv, EndInv, mainPc \in {"stopPacer", "done"}
               PROVE  /\ \A c \in Conns : /\ connected[c] => closed[c] /\ c \in closedConnections
                                          /\ phase[c] = "idle" /\ recvPc[c] \in {"off", "done"}
                      /\ phase[Main] = "idle"
                      /\ mainPc = "done" => phase[Pacer] = "idle" /\ mutex = Nobody
    BY DEF QuietAfterJoin
  <2>1. \A c \in Conns : recvPc[c] \in {"off", "done"} /\ phase[c] = "idle"
    BY DEF EndInv, ThreadsJoined, ThreadsEnded, IInv, PumpCalls
  <2>2. \A c \in Conns : connected[c] => closed[c] /\ c \in closedConnections
    BY <2>1 DEF EndInv, ThreadsJoined, ConnectedFirst
  <2>3. phase[Main] = "idle" /\ (mainPc = "done" => phase[Pacer] = "idle")
    BY DEF EndInv, ThreadsJoined, IInv, PumpCalls
  <2>4. mainPc = "done" => mutex = Nobody
    BY <2>1, <2>3 DEF IInv, LockHeld, TypeOK, ControlTypes, Threads
  <2> QED
    BY <2>1, <2>2, <2>3, <2>4
<1>2. QED
  BY <1>1, InductiveInvariant, SecondInvariant, PTL

=============================================================================
