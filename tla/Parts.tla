-------------------------------- MODULE Parts --------------------------------
(* Three small components that do not interact, side by side: in a behaviour *)
(* the one that `part` names moves, and the others rest in one initial state. *)
EXTENDS Pacing

CONSTANTS
  HeaderSize, Sizes, Fallbacks, FrameCount,  \* of Framing
  Receivers, Latencies, MaxCalls             \* of Stats

VARIABLES part,
  frames, foreign, fallback, arrived, cut, bufferAt, state,
  paced, mutex, step, loaded, handed, echoes, sentTotal, recvTotal,
  sentMessages, echoedMessages, samples

framingVars == <<frames, foreign, fallback, arrived, cut, bufferAt, state>>
statsVars == <<paced, mutex, step, loaded, handed, echoes, sentTotal, recvTotal,
               sentMessages, echoedMessages, samples>>

F == INSTANCE Framing
S == INSTANCE Stats

\* What LoadConfig enforces of the sizes; threads and latencies are numbers.
ASSUME PartsAssumption == F!SizesFit /\ Receivers \subseteq Nat /\ Latencies \subseteq Nat

PartsInit ==
  /\ part \in {"Pacing", "Framing", "Stats"}
  /\ Init /\ F!Init /\ S!Init
  /\ part = "Pacing" \/ now = 1
  /\ part = "Framing" \/ /\ frames = CHOOSE f \in [1 .. FrameCount -> Sizes] : TRUE
                         /\ foreign = 0
                         /\ fallback = CHOOSE size \in Fallbacks : TRUE
  /\ part = "Stats" \/ paced

PartsNext ==
  /\ UNCHANGED part
  /\ \/ part = "Pacing"  /\ Next   /\ UNCHANGED <<framingVars, statsVars>>
     \/ part = "Framing" /\ F!Next /\ UNCHANGED <<vars, statsVars>>
     \/ part = "Stats"   /\ S!Next /\ UNCHANGED <<vars, framingVars>>

PartsSpec == PartsInit /\ [][PartsNext]_<<part, vars, framingVars, statsVars>>

\* The frames, the totals and the percentiles of the summary: see Framing and Stats.
FramesWhole        == F!FramesWhole
SummaryAddsUp      == S!SummaryAddsUp
PercentilesNearest == S!PercentilesNearest
==============================================================================
