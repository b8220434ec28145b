----------------------------- MODULE EchoSession -----------------------------
(***************************************************************************)
(* What a load-generating client promises about its connections, whatever  *)
(* the transport: every stream of a connection is a window-limited echo    *)
(* session, and a connection stops sending for good only when every frame  *)
(* it produced has come back.  The detailed clients implement this module. *)
(***************************************************************************)
EXTENDS Naturals

CONSTANTS
  Conns,      \* the connections of the client
  Ordinals,   \* the stream ordinals of a connection
  Window      \* Window[o] > 0: profile.max_inflight of the stream of ordinal o

VARIABLES
  sent,       \* sent[c][o]: frames produced on stream o of connection c
  echoed,     \* echoed[c][o]: frames of that stream that came back
  stopped,    \* the send phase of the whole run is over
  finished    \* finished[c]: connection c will never send again

vars == <<sent, echoed, stopped, finished>>

Init ==
  /\ sent     = [c \in Conns |-> [o \in Ordinals |-> 0]]
  /\ echoed   = [c \in Conns |-> [o \in Ordinals |-> 0]]
  /\ stopped  = FALSE
  /\ finished = [c \in Conns |-> FALSE]

Send(c, o) ==
  /\ ~finished[c]
  /\ sent[c][o] - echoed[c][o] < Window[o]
  /\ sent' = [sent EXCEPT ![c][o] = @ + 1]
  /\ UNCHANGED <<echoed, stopped, finished>>

\* One delivery can hold several frames of a stream.
Echo(c, o, k) ==
  /\ echoed[c][o] + k <= sent[c][o]
  /\ echoed' = [echoed EXCEPT ![c][o] = @ + k]
  /\ UNCHANGED <<sent, stopped, finished>>

Stop ==
  /\ stopped' = TRUE
  /\ UNCHANGED <<sent, echoed, finished>>

Finish(c) ==
  /\ stopped
  /\ \A o \in Ordinals : sent[c][o] = echoed[c][o]
  /\ finished' = [finished EXCEPT ![c] = TRUE]
  /\ UNCHANGED <<sent, echoed, stopped>>

Next ==
  \/ \E c \in Conns, o \in Ordinals : Send(c, o)
  \/ \E c \in Conns, o \in Ordinals : \E k \in 1 .. Window[o] : Echo(c, o, k)
  \/ Stop
  \/ \E c \in Conns : Finish(c)

Spec == Init /\ [][Next]_vars

=============================================================================
