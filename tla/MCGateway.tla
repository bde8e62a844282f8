----------------------------- MODULE MCGateway -----------------------------
(***************************************************************************)
(* Instances of Gateway for TLC: sessions that share a network mode, and   *)
(* sessions of a Tor and of a VPN profile.                                 *)
(***************************************************************************)
EXTENDS Gateway

CONSTANTS c1, c2, tor, vpn

OneMode  == [c \in Callers |-> {tor}]
TwoModes == [c \in Callers |-> IF c = c1 THEN {tor} ELSE {vpn}]
AnyMode  == [c \in Callers |-> Modes]

(* The trait leaves the order of its methods to the caller.                  *)
AnyOrder == [method \in Methods |-> Methods \cup {Unset}]

(* What orchestrator.rs calls: a start configures, then applies the firewall *)
(* and, on a containment error, engages the switch; nothing else is called.  *)
DaemonOrder ==
    [configure |-> {Unset, "apply", "engage"}, apply |-> {"configure"},
     engage |-> {"configure", "apply"}, release |-> {}, status |-> {}]
=============================================================================
