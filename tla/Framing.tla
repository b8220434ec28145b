------------------------------- MODULE Framing -------------------------------
(***************************************************************************)
(* Frames on a byte stream: the sender writes the length of a frame into   *)
(* its header, the wire delivers the bytes in pieces of any length, and    *)
(* the receiver keeps them in receive_buffer and cuts off frame by frame.  *)
(* The four receivers (load client and echo server, SCTP and QUIC) run the *)
(* same loop on TryPeekFrameSize and differ in their fallback size.        *)
(*                                                                         *)
(* A byte is its position in the stream.  The header at a position where   *)
(* no frame begins has no valid magic, and neither has a frame of a peer   *)
(* that speaks another protocol.                                           *)
(***************************************************************************)
EXTENDS Integers, Sequences, SequencesExt

CONSTANTS
  HeaderSize,  \* sizeof(MessageHeader), in units of the model
  Sizes,       \* the message sizes of the senders, none below HeaderSize
  Fallbacks,   \* the message_size the receiver may be configured with
  FrameCount   \* bound of the model on the frames of the stream

\* LoadConfig and ParseStreamProfiles refuse a message size below the header.
SizesFit ==
  /\ HeaderSize \in Nat \ {0} /\ FrameCount \in Nat
  /\ Sizes \subseteq Nat /\ \A size \in Sizes : size >= HeaderSize

VARIABLES
  frames,     \* the sizes of the frames on the stream
  foreign,    \* the index of a frame without the magic, 0 if there is none
  fallback,   \* the fallback size of the receiver
  arrived,    \* bytes delivered
  cut,        \* the sizes of the frames cut off so far
  bufferAt,   \* the position of the first byte in receive_buffer
  state       \* "idle", in the loop, or ended by an exception

vars == <<frames, foreign, fallback, arrived, cut, bufferAt, state>>

\* The frame of index i has the bytes end[i - 1] .. end[i] - 1 of the stream.
end[i \in 0 .. FrameCount] == IF i = 0 THEN 0 ELSE end[i - 1] + frames[i]
Begin(i) == end[i - 1]

Init ==
  /\ frames \in [1 .. FrameCount -> Sizes] /\ foreign \in 0 .. FrameCount
  /\ fallback \in Fallbacks
  /\ arrived = 0 /\ cut = <<>> /\ bufferAt = 0 /\ state = "idle"

\* The senders write the size of the frame into header.reserved.
Reserved(i) == frames[i]

\* OnData or RECEIVE: a piece of the stream is appended.
Deliver ==
  /\ state = "idle"
  /\ \E n \in 1 .. end[FrameCount] - arrived : arrived' = arrived + n
  /\ state' = "loop"
  /\ UNCHANGED <<frames, foreign, fallback, cut, bufferAt>>

Buffered == arrived - bufferAt

\* Mutant: a frame that is only a header takes the size of the receiver.
FrameSizeAbove(reserved) == IF reserved > HeaderSize THEN reserved ELSE fallback

FrameSizeFromHeader(reserved) == IF reserved >= HeaderSize THEN reserved ELSE fallback

\* The frames whose header, with the magic, the buffer begins with: one or none.
Candidates == {i \in (1 .. FrameCount) \ {foreign} : Begin(i) = bufferAt}

\* TryPeekFrameSize throws when the magic is wrong or the size is below the header.
InvalidFrame ==
  /\ Buffered >= HeaderSize
  /\ \A i \in Candidates : FrameSizeFromHeader(Reserved(i)) < HeaderSize

\* Mutant: the header is enough.
CompleteByHeader(size) == Buffered >= HeaderSize

Complete(size) == Buffered >= HeaderSize /\ Buffered >= size

\* One turn of the loop that finds a frame.
CutFrame ==
  /\ state = "loop" /\ ~InvalidFrame
  /\ \E i \in Candidates :
       LET size == FrameSizeFromHeader(Reserved(i)) IN
       /\ Complete(size)
       /\ cut' = Append(cut, size)
       /\ bufferAt' = bufferAt + size
  /\ UNCHANGED <<frames, foreign, fallback, arrived, state>>

\* The turn that finds none ends the call.
LeaveLoop ==
  /\ state = "loop" /\ ~InvalidFrame
  /\ \A i \in Candidates : ~Complete(FrameSizeFromHeader(Reserved(i)))
  /\ state' = "idle"
  /\ UNCHANGED <<frames, foreign, fallback, arrived, cut, bufferAt>>

Throw ==
  /\ state = "loop" /\ InvalidFrame
  /\ state' = "thrown"
  /\ UNCHANGED <<frames, foreign, fallback, arrived, cut, bufferAt>>

Next == Deliver \/ CutFrame \/ LeaveLoop \/ Throw

Spec == Init /\ [][Next]_vars

-----------------------------------------------------------------------------
(* Properties.                                                             *)

\* However the bytes are delivered and whatever size the receiver is configured
\* with, it cuts exactly the frames that were sent, in order, none before its last
\* byte is there; between two calls no complete frame is left in the buffer; and it
\* throws only at a foreign frame, with every frame before it cut off.
FramesWhole ==
  /\ IsPrefix(cut, frames) /\ bufferAt <= arrived
  /\ foreign # 0 => Len(cut) < foreign
  /\ state = "idle" =>
       \A i \in 1 .. FrameCount : end[i] <= arrived => i <= Len(cut)
  /\ state = "thrown" => foreign # 0 /\ Len(cut) = foreign - 1

=============================================================================
