------------------------------- MODULE MCIpc -------------------------------
(* Instances of Ipc: a client c1, and a peer s1 that speaks for itself.     *)
EXTENDS Ipc, TLC
CONSTANTS c1, s1
OneClient == {c1}
OneStray == {s1}
BothListeners == {"unix", "tcp"}
DevelopmentListener == {"tcp"}
=============================================================================
