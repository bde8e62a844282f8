------------------------------ MODULE Gateway ------------------------------
(***************************************************************************)
(* NftGatewayController: the one object through which every session of the *)
(* daemon reaches the firewall, the tunnel and the kill switch.            *)
(*                                                                         *)
(* The controller keeps a record (config, firewall, firewall_applied,      *)
(* killswitch) behind a mutex that is never held across an await. What is  *)
(* in force, the ruleset in the kernel, is changed by running nft. A       *)
(* method therefore reads the record, runs nft and writes the record in    *)
(* three steps, between which other callers' steps happen.                 *)
(*                                                                         *)
(* A rendered ruleset is determined by the policy it was rendered from,    *)
(* since the only part of the config that enters it, the downstream CIDR,  *)
(* is the same in every config the daemon builds. So the table in the      *)
(* kernel is shown as that policy, and Firewall says what it lets through. *)
(***************************************************************************)
EXTENDS Firewall

CONSTANTS
    Callers,
    ModesOf,      \* the network modes of the profiles each caller starts
    MayFollow,    \* the calls after which a caller makes a call (none: never)
    Unset,        \* an Option that is None
    Absent,       \* no table "aegis" is loaded
    Block         \* the table that render_killswitch renders

Methods == {"configure", "apply", "engage", "release", "status"}

ASSUME GatewayAssumption ==
    /\ ModesOf \in [Callers -> SUBSET Modes]
    /\ MayFollow \in [Methods -> SUBSET (Methods \cup {Unset})]
    /\ Unset \notin Modes \cup Policies \cup Methods
    /\ Absent \notin Policies /\ Block \notin Policies

VARIABLES
    config,      \* State.config: the mode of the stored GatewayConfig
    firewall,    \* State.firewall: the stored policy
    applied,     \* State.firewall_applied
    killswitch,  \* State.killswitch
    kernel,      \* the table "aegis": Absent, Block, or the rules of a policy
    tunnel,      \* the tunnel of each mode, as a probe would find it
    pc, op,      \* where each caller is, and in which method
    local,       \* what a caller works with: a rendered policy, a mode to probe
    missed,      \* was the last attempt to load the total block a failure?
    ret          \* how each caller's last call ended, or, once its end is
                 \* settled, is to end

record == <<config, firewall, applied, killswitch>>
world  == <<kernel, tunnel, missed>>
call   == <<pc, op, local, ret>>
vars   == <<record, world, call>>

Init ==
    /\ config = Unset
    /\ firewall = Unset
    /\ applied = FALSE
    /\ killswitch = "armed"
    /\ kernel = Absent
    /\ tunnel = [m \in Modes |-> "down"]
    /\ missed = FALSE
    /\ pc = [c \in Callers |-> "idle"]
    /\ op = [c \in Callers |-> Unset]
    /\ local = [c \in Callers |-> Unset]
    /\ ret = [c \in Callers |-> "none"]

Goto(c, station) == pc' = [pc EXCEPT ![c] = station]

MayCall(c, method) == pc[c] = "idle" /\ op[c] \in MayFollow[method]

Call(c, method, station) ==
    /\ MayCall(c, method)
    /\ op' = [op EXCEPT ![c] = method]
    /\ Goto(c, station)

With(c, value) == local' = [local EXCEPT ![c] = value]

Owes(c, result) == ret' = [ret EXCEPT ![c] = result]

Return(c, result) ==
    /\ Goto(c, "idle")
    /\ Owes(c, result)
    /\ With(c, Unset)

(* fail_closed is entered: traffic is cut before the error is answered.      *)
CutFirst(c) == Goto(c, "cut") /\ Owes(c, "error")

Refused(c, method) ==
    /\ MayCall(c, method)
    /\ Return(c, "refused")
    /\ UNCHANGED <<record, world, op>>

-----------------------------------------------------------------------------
(* configure *)

Configure(c, mode) ==
    /\ Call(c, "configure", "backend")
    /\ With(c, mode)
    /\ UNCHANGED <<record, world, ret>>

(* systemctl restart of the unit of the mode.                                *)
StartBackend(c) ==
    /\ pc[c] = "backend"
    /\ \/ tunnel' = [tunnel EXCEPT ![local[c]] = "connecting"] /\ Goto(c, "save")
          /\ UNCHANGED ret
       \/ tunnel' = [tunnel EXCEPT ![local[c]] = "down"] /\ CutFirst(c)
    /\ UNCHANGED <<record, kernel, missed, op, local>>

SaveConfig(c) ==
    /\ pc[c] = "save"
    /\ config' = local[c]
    /\ Return(c, "ok")
    /\ UNCHANGED <<firewall, applied, killswitch, world, op>>

-----------------------------------------------------------------------------
(* apply_firewall and release_killswitch                                     *)

(* Fault: the policy is not validated.                                       *)
ApplyFirewall_Unvalidated(c, policy) ==
    /\ Call(c, "apply", "load")
    /\ config # Unset
    /\ With(c, policy)
    /\ UNCHANGED <<record, world, ret>>

(* Validated before the host is touched; refused without a configuration.    *)
ApplyFirewall(c, policy) ==
    /\ Call(c, "apply", "load")
    /\ Sound(policy) /\ config # Unset
    /\ With(c, policy)
    /\ UNCHANGED <<record, world, ret>>

ApplyRefused(c, policy) ==
    /\ ~Sound(policy) \/ config = Unset
    /\ Refused(c, "apply")

(* Re-arms from what is stored, when that still validates.                   *)
ReleaseKillswitch(c) ==
    /\ config # Unset /\ firewall # Unset
    /\ Call(c, "release", IF Sound(firewall) THEN "load" ELSE "cut")
    /\ Owes(c, IF Sound(firewall) THEN ret[c] ELSE "error")
    /\ With(c, firewall)
    /\ UNCHANGED <<record, world>>

ReleaseRefused(c) ==
    /\ config = Unset \/ firewall = Unset
    /\ Refused(c, "release")

(* Fault: an error of nft is returned as it is.                              *)
LoadRules_FailsOpen(c) ==
    /\ pc[c] = "load"
    /\ \/ kernel' = local[c] /\ Goto(c, "arm") /\ UNCHANGED <<local, ret>>
       \/ Return(c, "error") /\ UNCHANGED kernel
    /\ UNCHANGED <<record, tunnel, missed, op>>

(* load_ruleset of the rendered policy.                                      *)
LoadRules(c) ==
    /\ pc[c] = "load"
    /\ \/ kernel' = local[c] /\ Goto(c, "arm") /\ UNCHANGED ret
       \/ CutFirst(c) /\ UNCHANGED kernel
    /\ UNCHANGED <<record, tunnel, missed, op, local>>

(* Fault: a verified ruleset does not re-arm the switch.                     *)
Arm_KeepsEngaged(c) ==
    /\ pc[c] = "arm"
    /\ applied' = TRUE
    /\ firewall' = IF op[c] = "apply" THEN local[c] ELSE firewall
    /\ Return(c, "ok")
    /\ UNCHANGED <<config, killswitch, world, op>>

Arm(c) ==
    /\ pc[c] = "arm"
    /\ applied' = TRUE
    /\ killswitch' = "armed"
    /\ firewall' = IF op[c] = "apply" THEN local[c] ELSE firewall
    /\ Return(c, "ok")
    /\ UNCHANGED <<config, world, op>>

-----------------------------------------------------------------------------
(* engage_killswitch, and fail_closed in the other methods                   *)

EngageKillswitch(c) ==
    /\ Call(c, "engage", "cut")
    /\ Owes(c, "ok")
    /\ UNCHANGED <<record, world, local>>

(* The total block is loaded; only engage_killswitch answers a failure of it. *)
LoadBlock(c) ==
    /\ pc[c] = "cut"
    /\ \/ kernel' = Block /\ missed' = FALSE /\ UNCHANGED ret
       \/ /\ missed' = TRUE /\ UNCHANGED kernel
          /\ Owes(c, IF op[c] = "engage" THEN "error" ELSE ret[c])
    /\ Goto(c, "engaged")
    /\ UNCHANGED <<record, tunnel, op, local>>

RecordCut(c) ==
    /\ pc[c] = "engaged"
    /\ killswitch' = "engaged"
    /\ applied' = FALSE
    /\ Return(c, ret[c])
    /\ UNCHANGED <<config, firewall, world, op>>

-----------------------------------------------------------------------------
(* tunnel_status                                                             *)

TunnelStatus(c) ==
    /\ Call(c, "status", "probe")
    /\ config # Unset
    /\ With(c, config)
    /\ UNCHANGED <<record, world, ret>>

StatusRefused(c) ==
    /\ config = Unset
    /\ Refused(c, "status")

(* A probe that finds the tunnel failed cuts traffic and still answers with   *)
(* the status; one that cannot run is an error.                               *)
Probe(c) ==
    /\ pc[c] = "probe"
    /\ \/ tunnel[local[c]] # "failed" /\ Return(c, "ok")
       \/ tunnel[local[c]] = "failed" /\ Goto(c, "cut") /\ Owes(c, "ok") /\ UNCHANGED local
       \/ CutFirst(c) /\ UNCHANGED local
    /\ UNCHANGED <<record, world, op>>

-----------------------------------------------------------------------------
(* The tunnels, on their own.                                                *)
TunnelEdge == [down |-> {}, connecting |-> {"up", "failed"}, up |-> {"failed"}, failed |-> {"up"}]

TunnelMoves(m) ==
    /\ \E next \in TunnelEdge[tunnel[m]] : tunnel' = [tunnel EXCEPT ![m] = next]
    /\ UNCHANGED <<record, kernel, missed, call>>

Continue(c) ==
    \/ StartBackend(c) \/ SaveConfig(c) \/ LoadRules(c) \/ Arm(c)
    \/ LoadBlock(c) \/ RecordCut(c) \/ Probe(c)

Begin(c) ==
    \/ EngageKillswitch(c)
    \/ \E mode \in ModesOf[c] : Configure(c, mode)
    \/ ReleaseKillswitch(c) \/ ReleaseRefused(c)
    \/ TunnelStatus(c) \/ StatusRefused(c)
    \/ \E policy \in {p \in Policies : p.mode \in ModesOf[c]} :
          ApplyFirewall(c, policy) \/ ApplyRefused(c, policy)

Next ==
    \/ \E c \in Callers : Begin(c) \/ Continue(c)
    \/ \E m \in Modes : TunnelMoves(m)

Spec == Init /\ [][Next]_vars

(* A call that was made runs to its end; nobody is obliged to make one.      *)
FairSpec == Spec /\ \A c \in Callers : WF_vars(Continue(c))
-----------------------------------------------------------------------------
(* Types; the two flags of the record are always changed together.           *)
TypeOK ==
    /\ config \in Modes \cup {Unset}
    /\ firewall \in Policies \cup {Unset}
    /\ applied \in BOOLEAN
    /\ killswitch \in {"armed", "engaged"}
    /\ kernel \in Policies \cup {Absent, Block}
    /\ tunnel \in [Modes -> {"down", "connecting", "up", "failed"}]
    /\ pc \in [Callers -> {"idle", "backend", "save", "load", "arm", "cut",
                           "engaged", "probe"}]
    /\ op \in [Callers -> Methods \cup {Unset}]
    /\ local \in [Callers -> Policies \cup Modes \cup {Unset}]
    /\ missed \in BOOLEAN
    /\ applied => killswitch = "armed"
    /\ ret \in [Callers -> {"none", "ok", "refused", "error"}]

Carries == kernel \in Policies

Quiet == \A c \in Callers : pc[c] = "idle"

(* Whatever calls overlap, the kernel carries traffic only under rules of a  *)
(* policy that validate() accepts, and only once a backend was configured.   *)
OnlySoundRules == Carries => Sound(kernel) /\ config # Unset

(* What the rules of a loaded table let through, in whatever order the calls *)
(* came: the browser reaches the tunnel's ports and, outside Tor mode, opens *)
(* TCP connections; its UDP and IPv6 do not leave, nobody else gets in, and  *)
(* under the block no packet moves at all.                                   *)
OnlyTunnelPaths ==
    /\ kernel = Block => TotalBlock(Killswitch)
    /\ Carries => /\ NoDatagramLeaves(Render(kernel))
                  /\ OpensIntoTunnel(Render(kernel), Redirects(kernel))
                  /\ StrangersStayOut(Render(kernel))

(* "No plaintext DNS may escape the gateway", "the only forwarding permitted *)
(* is the browser subnet toward the tunnel": the forward chain accepts the   *)
(* subnet's ICMP, its TCP outside Tor mode and, in Tor mode, its TCP packets *)
(* without SYN, whichever interface they leave by.                           *)
NothingForwarded ==
    Carries => \A p \in New("browser") : Fate(Render(kernel), p) # "forwarded"

(* fail_closed marks the switch "so the recorded state reflects that          *)
(* connectivity is not permitted".                                           *)
EngagedIsCut == (Quiet /\ killswitch = "engaged") => ~Carries \/ missed

(* With calls that do not overlap the record tells what is in force: an      *)
(* applied firewall is the one in the kernel, and an engaged switch means    *)
(* that nothing is carried, except when nft could not load the block.        *)
RecordTellsKernel ==
    /\ EngagedIsCut
    /\ Quiet => /\ applied => kernel = firewall /\ killswitch = "armed"
                /\ Carries => applied \/ missed

(* A method that ends in an error leaves the switch engaged.                 *)
ErrorEngages ==
    [][\A c \in Callers : pc[c] # "idle" /\ pc'[c] = "idle" /\ ret'[c] = "error"
            => killswitch' = "engaged" /\ ~applied']_vars

(* "You pick the mode per profile": from the moment its firewall was applied *)
(* until it calls again, what carries a session's traffic is its own mode.   *)
RouteIsTheProfiles ==
    \A c \in Callers :
        (pc[c] = "idle" /\ op[c] = "apply" /\ ret[c] = "ok" /\ Carries)
            => kernel.mode \in ModesOf[c]

(* A tunnel that failed under traffic is cut, unless it comes back or nft    *)
(* cannot load the block.                                                    *)
FailedTunnelIsCut ==
    \A m \in Modes :
        (Carries /\ kernel.mode = m /\ tunnel[m] = "failed")
            ~> (~Carries \/ tunnel[m] # "failed" \/ missed)
=============================================================================
