------------------------------ MODULE MCTlsEcho ------------------------------
(* TlsEcho for TLC: windows at and above what the sockets take, paced and     *)
(* unpaced, with and without signals, and two connections.                    *)
EXTENDS TlsEcho

Config(clients, window, isPaced, signalled, messages) ==
  [clients |-> clients, maxInflight |-> window, paced |-> isPaced,
   signals |-> signalled, messages |-> messages]

SomeConfigs == {
  Config(1, 3, FALSE, FALSE, 4), Config(1, 4, TRUE, FALSE, 4),
  Config(1, 2, FALSE, TRUE, 2), Config(1, 1, TRUE, TRUE, 1), Config(2, 1, FALSE, FALSE, 1)}
==============================================================================
