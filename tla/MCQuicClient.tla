---- MODULE MCQuicClient ----
EXTENDS QuicClient
Sends(k) == [clients |-> k[1], streams |-> k[2], paced |-> FALSE, senders |-> {0}, faulty |-> FALSE]
Paced(k) == [k EXCEPT !.paced = TRUE]
Faulty(k) == [k EXCEPT !.faulty = TRUE]
TwoStreams == Sends(<<1, 2>>)
TwoClients == Sends(<<2, 1>>)
SomeConfigs ==
  {TwoStreams, TwoClients, Paced(TwoStreams), Paced(TwoClients),
   Faulty(TwoStreams), Faulty(Paced(TwoStreams)), Faulty(TwoClients)}
====
