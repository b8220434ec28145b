------------------------------- MODULE EchoPeer -------------------------------
(***************************************************************************)
(* What an echo server promises to the client at the other end of each     *)
(* stream: it gives back no frame it did not get, and it finishes its side *)
(* only after the peer has finished and every frame has gone back.  The    *)
(* clients rest on it: a stream whose last echo arrived ends in an orderly *)
(* way, and one that ended in an orderly way has seen its last echo.       *)
(***************************************************************************)
EXTENDS Naturals

CONSTANTS
  Streams,
  Bursts      \* how many frames one arrival can complete

VARIABLES
  received,   \* received[s]: frames that arrived on stream s
  echoed,     \* echoed[s]: frames given back
  finIn,      \* finIn[s]: the peer has finished sending
  finOut      \* finOut[s]: the server has finished sending

vars == <<received, echoed, finIn, finOut>>

Init ==
  /\ received = [s \in Streams |-> 0] /\ echoed = [s \in Streams |-> 0]
  /\ finIn = [s \in Streams |-> FALSE] /\ finOut = [s \in Streams |-> FALSE]

\* The last frames and the end of the stream can come together.
Arrive(s, k, fin) ==
  /\ ~finIn[s]
  /\ received' = [received EXCEPT ![s] = @ + k]
  /\ finIn' = [finIn EXCEPT ![s] = fin]
  /\ UNCHANGED <<echoed, finOut>>

GiveBack(s) ==
  /\ ~finOut[s] /\ echoed[s] < received[s]
  /\ echoed' = [echoed EXCEPT ![s] = @ + 1]
  /\ UNCHANGED <<received, finIn, finOut>>

Finish(s) ==
  /\ finIn[s] /\ echoed[s] = received[s]
  /\ finOut' = [finOut EXCEPT ![s] = TRUE]
  /\ UNCHANGED <<received, echoed, finIn>>

\* The end of a stream that owes nothing, and the answer to it.
EndAnswered(s) ==
  /\ echoed[s] = received[s]
  /\ finIn'  = [finIn EXCEPT ![s] = TRUE]
  /\ finOut' = [finOut EXCEPT ![s] = TRUE]
  /\ UNCHANGED <<received, echoed>>

Next ==
  \E s \in Streams :
    \/ \E k \in Bursts, fin \in BOOLEAN : Arrive(s, k, fin)
    \/ GiveBack(s)
    \/ Finish(s)
    \/ EndAnswered(s)

Spec == Init /\ [][Next]_vars

=============================================================================
