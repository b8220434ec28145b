---------------------------- MODULE SctpConnection ----------------------------
(***************************************************************************)
(* One plain SCTP connection: the send queue with its condition variable,  *)
(* the send thread, the receive thread, the thread that calls SendCopy and *)
(* CloseSend (for one connection these calls never overlap: LoadClient.tla *)
(* for the client, the receive thread for the server), and the thread that *)
(* shuts the connection down and joins its threads.                        *)
(*                                                                         *)
(* A frame is its number in the order of SendCopy, its content FrameUnits  *)
(* units that sendmsg may accept in pieces.  A wait on send_cv_ is in two  *)
(* steps, because Close and CloseSend store their flags and notify without *)
(* send_mutex_: the predicate is evaluated, then the thread blocks.        *)
(***************************************************************************)
EXTENDS Naturals, Sequences

CONSTANTS
  FrameUnits,   \* the length of a frame
  MaxFrames     \* bound of the model on the calls of SendCopy

ASSUME BoundsAssumption == FrameUnits \in Nat \ {0} /\ MaxFrames \in Nat

Closers == {"sender", "receiver", "main"}

VARIABLES
  pending,             \* pending_sends_
  queued,              \* how many frames were ever pushed
  sendMutex,           \* send_mutex_ is held by the send thread
  closed,              \* closed_
  sendCloseRequested,  \* send_close_requested_
  fdOpen,              \* fd_ >= 0
  socketDown,          \* shutdown(SHUT_RDWR) was called
  writeShut,           \* shutdown(SHUT_WR) was called by the send thread
  wire,                \* the units sendmsg accepted, as <<frame, unit>>
  appPc,               \* the thread in SendCopy or CloseSend
  senderPc, current, offset,
  receiverPc, mainPc,
  closePc,             \* where each caller of Close is
  onClosed,            \* how often OnClosed was called
  gStopRequested

queueVars  == <<pending, queued, sendMutex>>
flagVars   == <<closed, sendCloseRequested, gStopRequested>>
socketVars == <<fdOpen, socketDown, writeShut, wire>>
sendVars   == <<senderPc, current, offset>>
pcVars     == <<appPc, receiverPc, mainPc, closePc, onClosed>>
vars == <<queueVars, flagVars, socketVars, sendVars, pcVars>>

Init ==
  /\ pending = <<>> /\ queued = 0 /\ sendMutex = FALSE
  /\ closed = FALSE /\ sendCloseRequested = FALSE /\ gStopRequested = FALSE
  /\ fdOpen = TRUE /\ socketDown = FALSE /\ writeShut = FALSE /\ wire = <<>>
  /\ senderPc = "top" /\ current = 0 /\ offset = 0
  /\ appPc = "ready" /\ receiverPc = "check" /\ mainPc = "run"
  /\ closePc = [t \in Closers |-> "out"] /\ onClosed = 0

\* Mutant: SendCopy pushes without send_mutex_.
SendMutexIgnored == TRUE

SendMutexFree == ~sendMutex

\* notify_one and notify_all: only the send thread waits on send_cv_.
Notify == senderPc' = IF senderPc = "waiting" THEN "lock" ELSE senderPc

-----------------------------------------------------------------------------
(* SendCopy and CloseSend.                                                 *)

\* SendCopy returns at once when it sees the connection closed.
SendCopy ==
  /\ appPc = "ready" /\ ~closed /\ queued < MaxFrames
  /\ appPc' = "push"
  /\ UNCHANGED <<queueVars, flagVars, socketVars, sendVars, receiverPc, mainPc, closePc, onClosed>>

SendCopyPush ==
  /\ appPc = "push" /\ SendMutexFree
  /\ pending' = Append(pending, queued + 1)
  /\ queued' = queued + 1
  /\ appPc' = "pushed"
  /\ UNCHANGED <<sendMutex, flagVars, socketVars, sendVars, receiverPc, mainPc, closePc, onClosed>>

SendCopyNotify ==
  /\ appPc = "pushed"
  /\ Notify
  /\ appPc' = "ready"
  /\ UNCHANGED <<queueVars, flagVars, socketVars, current, offset, receiverPc, mainPc,
                 closePc, onClosed>>

\* The exchange of send_closed_ lets one call through; none with a closed fd.
CloseSend ==
  /\ appPc = "ready"
  /\ sendCloseRequested' = fdOpen
  /\ appPc' = IF fdOpen THEN "requested" ELSE "done"
  /\ UNCHANGED <<queueVars, closed, gStopRequested, socketVars, sendVars, receiverPc, mainPc,
                 closePc, onClosed>>

CloseSendNotify ==
  /\ appPc = "requested"
  /\ Notify
  /\ appPc' = "done"
  /\ UNCHANGED <<queueVars, flagVars, socketVars, current, offset, receiverPc, mainPc,
                 closePc, onClosed>>

-----------------------------------------------------------------------------
(* Close, by the send thread, the receive thread or main: the exchange of  *)
(* closed_ lets one caller through.                                        *)

\* Mutant: closed_ is stored, not exchanged.
AlwaysFirst == FALSE

AlreadyClosed == closed

Close(t) ==
  /\ closePc[t] = "called"
  /\ closed' = TRUE
  /\ closePc' = [closePc EXCEPT ![t] = IF AlreadyClosed THEN "returned" ELSE "notify"]
  /\ UNCHANGED <<queueVars, sendCloseRequested, gStopRequested, socketVars, sendVars,
                 appPc, receiverPc, mainPc, onClosed>>

CloseNotify(t) ==
  /\ closePc[t] = "notify"
  /\ Notify
  /\ closePc' = [closePc EXCEPT ![t] = "shutdown"]
  /\ UNCHANGED <<queueVars, flagVars, socketVars, current, offset,
                 appPc, receiverPc, mainPc, onClosed>>

CloseShutdown(t) ==
  /\ closePc[t] = "shutdown"
  /\ socketDown' = TRUE
  /\ closePc' = [closePc EXCEPT ![t] = "closeFd"]
  /\ UNCHANGED <<queueVars, flagVars, fdOpen, writeShut, wire, sendVars,
                 appPc, receiverPc, mainPc, onClosed>>

CloseFd(t) ==
  /\ closePc[t] = "closeFd"
  /\ fdOpen' = FALSE
  /\ closePc' = [closePc EXCEPT ![t] = "returned"]
  /\ UNCHANGED <<queueVars, flagVars, socketDown, writeShut, wire, sendVars,
                 appPc, receiverPc, mainPc, onClosed>>

-----------------------------------------------------------------------------
(* SendLoop.                                                               *)

SenderGoes(from, to) ==
  /\ senderPc = from /\ senderPc' = to
  /\ UNCHANGED <<current, offset>>

SenderTop ==
  /\ SenderGoes("top", IF closed \/ gStopRequested THEN "ended" ELSE "lock")
  /\ UNCHANGED <<queueVars, flagVars, socketVars, pcVars>>

SenderLock ==
  /\ SenderGoes("lock", "test")
  /\ SendMutexFree /\ sendMutex' = TRUE
  /\ UNCHANGED <<pending, queued, flagVars, socketVars, pcVars>>

WaitIsOver == closed \/ pending # <<>> \/ sendCloseRequested

\* The predicate is false.  From here to SenderBlocks no notification is seen.
SenderTests ==
  /\ ~WaitIsOver
  /\ SenderGoes("test", "block")
  /\ UNCHANGED <<queueVars, flagVars, socketVars, pcVars>>

SenderBlocks ==
  /\ SenderGoes("block", "waiting")
  /\ sendMutex' = FALSE
  /\ UNCHANGED <<pending, queued, flagVars, socketVars, pcVars>>

SpuriousWakeup ==
  /\ SenderGoes("waiting", "lock")
  /\ UNCHANGED <<queueVars, flagVars, socketVars, pcVars>>

SenderReturns ==
  /\ closed
  /\ SenderGoes("test", "ended")
  /\ sendMutex' = FALSE
  /\ UNCHANGED <<pending, queued, flagVars, socketVars, pcVars>>

SenderTakes ==
  /\ senderPc = "test" /\ ~closed /\ pending # <<>>
  /\ current' = Head(pending) /\ offset' = 0 /\ senderPc' = "send"
  /\ pending' = Tail(pending)
  /\ sendMutex' = FALSE
  /\ UNCHANGED <<queued, flagVars, socketVars, pcVars>>

\* Mutant: the request to close goes before the queue.
CloseComesFirst == sendCloseRequested

CloseIsNext == pending = <<>> /\ sendCloseRequested

SenderTakesClose ==
  /\ ~closed /\ CloseIsNext
  /\ SenderGoes("test", "shutdown")
  /\ sendMutex' = FALSE
  /\ UNCHANGED <<pending, queued, flagVars, socketVars, pcVars>>

\* Mutant: the length of the rest is forgotten.
Overruns(n) == offset < FrameUnits

Fits(n) == offset + n <= FrameUnits

\* SendBlocking: one sendmsg that accepts n units of the rest.
SenderWrites(n) ==
  /\ senderPc = "send" /\ fdOpen /\ ~socketDown
  /\ Fits(n)
  /\ wire' = wire \o [i \in 1 .. n |-> <<current, offset + i>>]
  /\ offset' = offset + n
  /\ senderPc' = IF offset + n >= FrameUnits THEN "top" ELSE "send"
  /\ UNCHANGED <<queueVars, flagVars, fdOpen, socketDown, writeShut, current, pcVars>>

\* sendmsg, or shutdown(SHUT_WR), fails: Close and OnClosed on this thread.
SenderFails ==
  /\ senderPc \in {"send", "shutdown"}
  /\ senderPc' = "closing"
  /\ closePc' = [closePc EXCEPT !["sender"] = "called"]
  /\ UNCHANGED <<queueVars, flagVars, socketVars, current, offset, appPc, receiverPc, mainPc,
                 onClosed>>

\* shutdown(SHUT_WR); ENOTCONN and EBADF count as success.
SenderShutsWrite ==
  /\ SenderGoes("shutdown", "ended")
  /\ writeShut' = (fdOpen /\ ~socketDown)
  /\ UNCHANGED <<queueVars, flagVars, fdOpen, socketDown, wire, pcVars>>

SenderOnClosed ==
  /\ closePc["sender"] = "returned"
  /\ SenderGoes("closing", "ended")
  /\ onClosed' = onClosed + 1
  /\ UNCHANGED <<queueVars, flagVars, socketVars, appPc, receiverPc, mainPc, closePc>>

-----------------------------------------------------------------------------
(* ReceiveLoop (what OnData does is the controllers' business), and the    *)
(* thread that calls Close and Join.                                       *)

ReceiverReturns ==
  /\ receiverPc = "recv"
  /\ receiverPc' = "check"
  /\ UNCHANGED <<queueVars, flagVars, socketVars, sendVars, appPc, mainPc, closePc, onClosed>>

ReceiverChecks ==
  /\ receiverPc = "check" /\ ~closed /\ ~gStopRequested
  /\ receiverPc' = "recv"
  /\ UNCHANGED <<queueVars, flagVars, socketVars, sendVars, appPc, mainPc, closePc, onClosed>>

\* The loop condition fails, or recvmsg reports the end or an error.
ReceiverLeaves ==
  /\ receiverPc = "recv" \/ (receiverPc = "check" /\ (closed \/ gStopRequested))
  /\ receiverPc' = "closing"
  /\ closePc' = [closePc EXCEPT !["receiver"] = "called"]
  /\ UNCHANGED <<queueVars, flagVars, socketVars, sendVars, appPc, mainPc, onClosed>>

ReceiverOnClosed ==
  /\ receiverPc = "closing" /\ closePc["receiver"] = "returned"
  /\ receiverPc' = "ended"
  /\ onClosed' = onClosed + 1
  /\ UNCHANGED <<queueVars, flagVars, socketVars, sendVars, appPc, mainPc, closePc>>

\* ForceShutdownAll or Stop.
MainCloses ==
  /\ mainPc = "run"
  /\ mainPc' = "join"
  /\ closePc' = [closePc EXCEPT !["main"] = "called"]
  /\ UNCHANGED <<queueVars, flagVars, socketVars, sendVars, appPc, receiverPc, onClosed>>

\* Join: the receive thread, then the send thread.
ThreadsEnded == receiverPc = "ended" /\ senderPc = "ended"

MainJoins ==
  /\ mainPc = "join" /\ closePc["main"] = "returned" /\ ThreadsEnded
  /\ mainPc' = "joined"
  /\ UNCHANGED <<queueVars, flagVars, socketVars, sendVars, appPc, receiverPc, closePc, onClosed>>

SignalHandler ==
  /\ ~gStopRequested
  /\ gStopRequested' = TRUE
  /\ UNCHANGED <<queueVars, closed, sendCloseRequested, socketVars, sendVars, pcVars>>

Terminated == mainPc = "joined" /\ UNCHANGED vars

-----------------------------------------------------------------------------
AppStep == SendCopyPush \/ SendCopyNotify \/ CloseSendNotify
CloseStep(t) == Close(t) \/ CloseNotify(t) \/ CloseShutdown(t) \/ CloseFd(t)

SenderStep ==
  \/ SenderTop \/ SenderTests \/ SenderBlocks \/ SenderReturns \/ SenderTakes
  \/ SenderTakesClose \/ SenderShutsWrite \/ SenderOnClosed \/ SenderLock
  \/ \E n \in 1 .. FrameUnits : SenderWrites(n)

ReceiverStep == ReceiverReturns \/ ReceiverChecks \/ ReceiverLeaves \/ ReceiverOnClosed

Next ==
  \/ SendCopy \/ CloseSend \/ AppStep
  \/ SenderStep \/ SenderFails \/ SpuriousWakeup
  \/ ReceiverStep \/ MainCloses \/ MainJoins
  \/ \E t \in Closers : CloseStep(t)
  \/ SignalHandler \/ Terminated

Spec == Init /\ [][Next]_vars

\* Every thread keeps running, send_mutex_ is granted in the end, and the
\* socket takes the data or fails.  Nothing forces a wake-up without a notification.
Fairness ==
  /\ WF_vars(AppStep) /\ SF_vars(SendCopyPush)
  /\ WF_vars(SenderStep)
  /\ WF_vars(SenderFails /\ (socketDown \/ ~fdOpen))
  /\ WF_vars(ReceiverStep)
  /\ \A t \in Closers : WF_vars(CloseStep(t))
  /\ WF_vars(MainJoins)

FairSpec == Spec /\ Fairness

-----------------------------------------------------------------------------
(* Properties.                                                             *)

\* A unit on the wire: its frame, and its place in it.
WireUnits == Nat \X Nat

\* Every variable stays in its range.
TypeOK ==
  /\ pending \in Seq(Nat) /\ queued \in Nat /\ sendMutex \in BOOLEAN
  /\ closed \in BOOLEAN /\ sendCloseRequested \in BOOLEAN /\ gStopRequested \in BOOLEAN
  /\ fdOpen \in BOOLEAN /\ socketDown \in BOOLEAN /\ writeShut \in BOOLEAN
  /\ wire \in Seq(WireUnits)
  /\ senderPc \in {"top", "lock", "test", "block", "waiting", "send", "shutdown", "closing", "ended"}
  /\ current \in Nat /\ offset \in 0 .. FrameUnits
  /\ appPc \in {"ready", "push", "pushed", "requested", "done"}
  /\ receiverPc \in {"check", "recv", "closing", "ended"}
  /\ mainPc \in {"run", "join", "joined"}
  /\ closePc \in [Closers -> {"out", "called", "notify", "shutdown", "closeFd", "returned"}]
  /\ onClosed \in Nat

\* Whatever is cut short, what went out is a prefix of the frames in the order
\* of SendCopy, whole and unmixed, although they pass through a queue, partial
\* writes and a thread that stops at any point.
WireInOrder ==
  /\ Len(wire) <= queued * FrameUnits
  /\ \A i \in 1 .. Len(wire) :
       wire[i] = <<((i - 1) \div FrameUnits) + 1, ((i - 1) % FrameUnits) + 1>>

\* SHUT_WR follows the last unit of the last frame: a request to close the send
\* side never overtakes a queued frame.
HalfCloseAfterLastFrame ==
  writeShut => pending = <<>> /\ Len(wire) = queued * FrameUnits

\* A push is never lost on a sleeping send thread: if it sleeps with a frame
\* queued, the notification of SendCopy is still to come.
NoStrandedPush == senderPc = "waiting" /\ pending # <<>> => appPc = "pushed"

\* One thread at a time tears the connection down, in this order: closed_, the
\* socket shut down, the descriptor closed.
OneTeardown ==
  /\ \A t, u \in Closers :
       closePc[t] \in {"notify", "shutdown", "closeFd"}
         /\ closePc[u] \in {"notify", "shutdown", "closeFd"} => t = u
  /\ ~fdOpen => socketDown
  /\ socketDown => closed

\* A frame that was queued goes out unless the connection is closed or the
\* process is told to stop.
QueueDrains ==
  queued > 0 ~> (Len(wire) = queued * FrameUnits \/ closed \/ gStopRequested)

\* Stop calls Close and then Join on every connection before Run prints the
\* summary the README promises (src/README.md:19): Join has to return.
JoinReturns == mainPc = "join" ~> mainPc = "joined"

=============================================================================
