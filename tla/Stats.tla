-------------------------------- MODULE Stats --------------------------------
(***************************************************************************)
(* The counters of the SCTP load client.  The totals of Stats are atomic;  *)
(* the StreamMetrics of a stream, shared by all connections, are not: they *)
(* are updated by a load and a store.  OnData counts an echo under the     *)
(* controller's mutex_, PumpSends counts a frame after it has released it. *)
(* At the end PrintSummary prints both, and percentiles of the latencies.  *)
(*                                                                         *)
(* A latency is a number of units of 0.5 ms.  The state here is one stream *)
(* of the run; bytes move with the messages and are left out.              *)
(***************************************************************************)
EXTENDS Integers, FiniteSets, Sequences, Functions

CONSTANTS
  Receivers,  \* the receive threads of the connections
  Latencies,  \* the latencies a frame may have
  MaxCalls    \* bound of the model on the frames and on the echoes of a thread

\* The pacer of a paced client, or Run when it connects an unpaced one.
Sender == 0
Threads == Receivers \cup {Sender}

VARIABLES
  paced,           \* paced_
  mutex,           \* mutex_ of LoadClientController
  step,            \* what each thread is in
  loaded,          \* the counter each thread has read
  handed, echoes,  \* the frames each thread has sent and the echoes it has seen
  sentTotal, recvTotal,                  \* sent_messages_, recv_messages_ of Stats
  sentMessages, echoedMessages, samples  \* StreamMetrics

vars == <<paced, mutex, step, loaded, handed, echoes, sentTotal, recvTotal,
          sentMessages, echoedMessages, samples>>
callVars == <<paced, handed, echoes>>

Nobody == -1

Init ==
  /\ paced \in BOOLEAN /\ mutex = Nobody
  /\ step = [t \in Threads |-> "idle"] /\ loaded = [t \in Threads |-> 0]
  /\ handed = [t \in Threads |-> 0] /\ echoes = [t \in Threads |-> 0]
  /\ sentTotal = 0 /\ recvTotal = 0
  /\ sentMessages = 0 /\ echoedMessages = 0 /\ samples = <<>>

-----------------------------------------------------------------------------

\* PumpSends runs on the pacer, or inline.
Sends(t) == t = Sender \/ ~paced

\* stats_.AddSent, and the load of StreamMetrics::AddSent.
AddSentLoad(t) ==
  /\ step[t] = "idle" /\ Sends(t) /\ handed[t] < MaxCalls
  /\ handed' = [handed EXCEPT ![t] = @ + 1]
  /\ sentTotal' = sentTotal + 1
  /\ loaded' = [loaded EXCEPT ![t] = sentMessages]
  /\ step' = [step EXCEPT ![t] = "sent"]
  /\ UNCHANGED <<paced, mutex, echoes, recvTotal, sentMessages, echoedMessages, samples>>

AddSentStore(t) ==
  /\ step[t] = "sent"
  /\ sentMessages' = loaded[t] + 1
  /\ step' = [step EXCEPT ![t] = "idle"]
  /\ UNCHANGED <<callVars, mutex, loaded, sentTotal, recvTotal, echoedMessages, samples>>

\* Mutant: OnData without its lock_guard.
MutexFreeAlways == TRUE

MutexFree == mutex = Nobody

\* OnData takes mutex_ and finds an echo: stats_.AddReceived, AddLatencyNs, and the
\* load of StreamMetrics::AddReceived.
AddReceivedLoad(t) ==
  /\ step[t] = "idle" /\ t \in Receivers /\ echoes[t] < MaxCalls
  /\ MutexFree /\ mutex' = t
  /\ echoes' = [echoes EXCEPT ![t] = @ + 1]
  /\ recvTotal' = recvTotal + 1
  /\ loaded' = [loaded EXCEPT ![t] = echoedMessages]
  /\ step' = [step EXCEPT ![t] = "received"]
  /\ UNCHANGED <<paced, handed, sentTotal, sentMessages, echoedMessages, samples>>

AddReceivedStore(t) ==
  /\ step[t] = "received"
  /\ echoedMessages' = loaded[t] + 1
  /\ \E latency \in Latencies : samples' = Append(samples, latency)
  /\ mutex' = Nobody
  /\ step' = [step EXCEPT ![t] = "idle"]
  /\ UNCHANGED <<callVars, loaded, sentTotal, recvTotal, sentMessages>>

Next == \E t \in Threads :
  AddSentLoad(t) \/ AddSentStore(t) \/ AddReceivedLoad(t) \/ AddReceivedStore(t)

Spec == Init /\ [][Next]_vars

-----------------------------------------------------------------------------
(* StreamMetrics::Snapshot.                                                *)

\* Mutant: the rank is cut off, not rounded.
PercentileIndexCut(n, permille) == (permille * (n - 1)) \div 1000

\* A percentile in thousandths; size_t(percentile * (size - 1) + 0.5), at most size - 1.
PercentileIndex(n, permille) ==
  LET index == (2 * permille * (n - 1) + 1000) \div 2000
  IN  IF index < n - 1 THEN index ELSE n - 1

PercentileValue(sorted, permille) == sorted[PercentileIndex(Len(sorted), permille) + 1]

\* The buckets end at 0.5, 1, 2, 5, 10 and 50 ms; the last one is open.
Bounds == <<1, 2, 4, 10, 20, 100>>
Bucket(latency) == Cardinality({i \in 1 .. 6 : Bounds[i] < latency})

\* std::sort: which sample comes first, second, ... in ascending order.
Ranked ==
  CHOOSE p \in Bijection(1 .. Len(samples), 1 .. Len(samples)) :
    \A i, j \in 1 .. Len(samples) : i < j => samples[p[i]] <= samples[p[j]]

Snapshot ==
  LET ranked == Ranked
      sorted == [i \in 1 .. Len(samples) |-> samples[ranked[i]]]
  IN  [count   |-> Len(sorted), min |-> sorted[1], max |-> sorted[Len(sorted)],
       p       |-> [permille \in {500, 750, 900, 950, 990, 999} |->
                      PercentileValue(sorted, permille)],
       buckets |-> [b \in 0 .. 6 |-> Cardinality({i \in 1 .. Len(sorted) : Bucket(sorted[i]) = b})]]

-----------------------------------------------------------------------------
(* Properties.                                                             *)

\* The lines of PrintSummary agree: when no thread is in a counter, the stream's
\* echoes and latencies are as many as the total says, and so are its sends when
\* only the pacer sends; unpaced, senders on several threads can lose some, never
\* invent one.
SummaryAddsUp ==
  (\A t \in Threads : step[t] = "idle") =>
    /\ echoedMessages = recvTotal /\ Len(samples) = recvTotal
    /\ paced => sentMessages = sentTotal
    /\ sentMessages <= sentTotal

\* Every percentile is a latency with the rank nearest to it, between the smallest
\* and the largest, and no percentile lies above a higher one.
PercentilesNearest ==
  samples # <<>> =>
    LET n == Len(samples)
        Below(v)  == Cardinality({i \in 1 .. n : samples[i] < v})
        UpTo(v)   == Cardinality({i \in 1 .. n : samples[i] <= v})
        Far(r, q) == LET d == 1000 * r - q * (n - 1) IN IF d < 0 THEN -d ELSE d
        s == Snapshot
    IN  /\ \A q \in DOMAIN s.p :
             /\ s.min <= s.p[q] /\ s.p[q] <= s.max
             /\ \E r \in Below(s.p[q]) .. UpTo(s.p[q]) - 1 :
                  \A other \in 0 .. n - 1 : Far(r, q) <= Far(other, q)
             /\ \A higher \in DOMAIN s.p : q < higher => s.p[q] <= s.p[higher]
        /\ s.buckets[0] + s.buckets[1] + s.buckets[2] + s.buckets[3] + s.buckets[4]
             + s.buckets[5] + s.buckets[6] = s.count

=============================================================================
