------------------------- MODULE SessionLifecycle -------------------------
(***************************************************************************)
(* What the orchestrator promises about a session, without saying how it   *)
(* gets there: a session is registered only by the holder of its           *)
(* profile's single-writer lock, moves along the allowed edges, advances   *)
(* towards browsing only while it still holds that lock, never gives the   *)
(* lock up while it is browsing, and never leaves "destroyed".             *)
(***************************************************************************)
EXTENDS SessionStates

CONSTANTS Sessions, Profiles, ProfileOf, Free

VARIABLES phase,    \* phase[s]: the state a client sees, or "absent"
          owner     \* owner[p]: the session that holds the lock of p, or Free

lifecycleVars == <<phase, owner>>

Owns(s) == owner[ProfileOf[s]] = s

(* The edges a session takes on its way up.                                *)
Upward == {"provisioning", "gateway-starting", "preflight", "browsing"}

LifecycleInit ==
    /\ phase = [s \in Sessions |-> "absent"]
    /\ owner = [p \in Profiles |-> Free]

Claim(s) ==
    /\ phase[s] = "absent"
    /\ owner[ProfileOf[s]] = Free
    /\ owner' = [owner EXCEPT ![ProfileOf[s]] = s]
    /\ UNCHANGED phase

Enter(s) ==
    /\ phase[s] = "absent"
    /\ Owns(s)
    /\ phase' = [phase EXCEPT ![s] = "requested"]
    /\ UNCHANGED owner

Move(s) ==
    /\ phase[s] # "absent"
    /\ \E next \in AllowedNext[phase[s]] :
          /\ next \in Upward => Owns(s)
          /\ phase' = [phase EXCEPT ![s] = next]
    /\ UNCHANGED owner

Yield(s) ==
    /\ Owns(s)
    /\ phase[s] # "browsing"
    /\ owner' = [owner EXCEPT ![ProfileOf[s]] = Free]
    /\ UNCHANGED phase

LifecycleNext == \E s \in Sessions : Claim(s) \/ Enter(s) \/ Move(s) \/ Yield(s)

LifecycleSpec == LifecycleInit /\ [][LifecycleNext]_lifecycleVars
=============================================================================
