------------------------------ MODULE Firewall ------------------------------
(***************************************************************************)
(* The firewall of the gateway: the policy that FirewallPolicy declares,   *)
(* the nftables table that render_nftables and render_killswitch write     *)
(* from it, and what a packet meets in that table.                         *)
(*                                                                         *)
(* A rule is the packets it matches and what it does with them; a chain is *)
(* a sequence of rules, of which the first that matches decides, and else  *)
(* the chain's policy. Addresses, ports and interfaces are reduced to what *)
(* the rules tell apart: who sends, where to, and the kind of traffic.     *)
(***************************************************************************)
EXTENDS Naturals, Sequences

CONSTANTS
    Modes,        \* network modes
    Tor           \* the mode of a Tor profile

(* What a policy declares. The redirects are there in Tor mode alone, so the *)
(* mode stands for them.                                                     *)
Policies ==
    [mode                  : Modes,
     default_policy        : {"drop", "accept"},
     block_direct_udp      : BOOLEAN,
     reject_host_initiated : BOOLEAN,
     ipv6                  : {"block", "route-through-tunnel"}]

(* FirewallPolicy::validate finds nothing to object to.                      *)
Sound(policy) ==
    /\ policy.default_policy = "drop"
    /\ policy.block_direct_udp
    /\ policy.reject_host_initiated

FailClosed(mode, ipv6) ==
    [mode |-> mode, default_policy |-> "drop", block_direct_udp |-> TRUE,
     reject_host_initiated |-> TRUE, ipv6 |-> ipv6]

Redirects(policy) == policy.mode = Tor

-----------------------------------------------------------------------------
(* Packets                                                                   *)

(* "loose" is a TCP packet without SYN of a connection conntrack does not    *)
(* know; port 53 is "dns"; "link" is a link-local destination.               *)
Packets ==
    {p \in [src    : {"browser", "gateway", "elsewhere"},
            to     : {"gateway", "link", "beyond"},
            family : {"v4", "v6"},
            proto  : {"tcp", "udp", "icmp"},
            port   : {"dns", "DNSPort", "TransPort", "other"},
            phase  : {"opens", "loose", "established"}] :
        /\ p.phase = "loose" => p.proto = "tcp"
        /\ p.proto = "icmp" => p.port = "other"
        /\ p.to = "link" => p.family = "v6"}

Any == [src    |-> {"browser", "gateway", "elsewhere"},
        to     |-> {"gateway", "link", "beyond"},
        family |-> {"v4", "v6"},
        proto  |-> {"tcp", "udp", "icmp"},
        port   |-> {"dns", "DNSPort", "TransPort", "other"},
        phase  |-> {"opens", "loose", "established"}]

Matches(rule, p) == \A field \in DOMAIN p : p[field] \in rule.on[field]

Verdict(chain, policy, p) ==
    IF \E i \in DOMAIN chain : Matches(chain[i], p)
    THEN chain[CHOOSE i \in DOMAIN chain :
                  /\ Matches(chain[i], p)
                  /\ \A j \in 1 .. i - 1 : ~Matches(chain[j], p)].verdict
    ELSE policy

Rule(on, verdict) == <<[on |-> on, verdict |-> verdict]>>

If(condition, rules) == IF condition THEN rules ELSE <<>>

-----------------------------------------------------------------------------
(* render_nftables                                                           *)

Subnet      == [Any EXCEPT !.src = {"browser"}, !.family = {"v4"}]
Established == Rule([Any EXCEPT !.phase = {"established"}], "accept")
Loopback    == Rule([Any EXCEPT !.src = {"gateway"}, !.to = {"gateway"}], "accept")
Ipv6        == [Any EXCEPT !.family = {"v6"}]

(* The nat chain, which only packets that open a flow pass.                  *)
Prerouting(policy) ==
    If(Redirects(policy),
       Rule([Subnet EXCEPT !.proto = {"udp", "tcp"}, !.port = {"dns"}], "DNSPort")
       \o Rule([Subnet EXCEPT !.proto = {"tcp"}, !.port = Any.port \ {"dns"},
                              !.phase = {"opens"}], "TransPort"))

Input(policy) ==
    Established \o Loopback
    \o If(Redirects(policy),
          Rule([Subnet EXCEPT !.proto = {"udp", "tcp"}, !.port = {"DNSPort"}], "accept")
          \o Rule([Subnet EXCEPT !.proto = {"tcp"}, !.port = {"TransPort"}], "accept"))
    \o If(policy.reject_host_initiated,
          Rule([Any EXCEPT !.family = {"v4"}], "reject"))

(* Fault: the browser's subnet is accepted before its UDP is dropped.        *)
Forward_SubnetFirst(policy) ==
    Established
    \o If(policy.ipv6 = "block", Rule(Ipv6, "drop"))
    \o Rule(Subnet, "accept")
    \o If(policy.block_direct_udp, Rule([Subnet EXCEPT !.proto = {"udp"}], "drop"))

Forward(policy) ==
    Established
    \o Rule(IF policy.ipv6 = "block" THEN Ipv6 ELSE [Ipv6 EXCEPT !.to = {"link"}],
            IF policy.ipv6 = "block" THEN "drop" ELSE "accept")
    \o If(policy.block_direct_udp, Rule([Subnet EXCEPT !.proto = {"udp"}], "drop"))
    \o Rule(Subnet, "accept")

Output(policy) ==
    Established \o Loopback
    \o If(policy.ipv6 = "block", Rule(Ipv6, "drop"))
    \o Rule([Any EXCEPT !.family = {"v4"}, !.phase = {"opens", "loose"}], "accept")

(* Every filter chain has policy drop, whatever default_policy says.         *)
Render(policy) ==
    [prerouting |-> Prerouting(policy), input |-> Input(policy),
     forward |-> Forward(policy), output |-> Output(policy)]

(* render_killswitch: the filter chains without a rule.                      *)
Killswitch == [prerouting |-> <<>>, input |-> <<>>, forward |-> <<>>, output |-> <<>>]

-----------------------------------------------------------------------------
(* The kernel, external: netfilter's hooks in the order a packet meets them. *)
(* A packet of an established flow goes where the flow's first packet went.  *)
Redirected(rules, p) ==
    LET port == Verdict(rules.prerouting, "none", p)
    IN  IF p.phase = "established" \/ port = "none" THEN p
        ELSE [p EXCEPT !.to = "gateway", !.port = port]

Passes(chain, p) == Verdict(chain, "drop", p) = "accept"

(* Where a packet ends: "dropped", "sent" by the gateway, "forwarded", or at *)
(* a port of the gateway.                                                    *)
Fate(rules, p) ==
    LET q == Redirected(rules, p)
    IN  CASE p.src = "gateway" /\ p.to # "gateway" ->
                 IF Passes(rules.output, p) THEN "sent" ELSE "dropped"
          [] p.src = "gateway" /\ p.to = "gateway" ->
                 IF Passes(rules.output, p) /\ Passes(rules.input, p) THEN p.port ELSE "dropped"
          [] p.src # "gateway" /\ q.to = "gateway" ->
                 IF Passes(rules.input, q) THEN q.port ELSE "dropped"
          [] OTHER ->
                 IF Passes(rules.forward, q) THEN "forwarded" ELSE "dropped"

-----------------------------------------------------------------------------
New(src) == {p \in Packets : p.src = src /\ p.to = "beyond" /\ p.phase # "established"}

(* The browser's UDP and IPv6 go nowhere but to the tunnel's resolver.       *)
NoDatagramLeaves(rules) ==
    \A p \in New("browser") :
        p.proto = "udp" \/ p.family = "v6" => Fate(rules, p) \in {"dropped", "DNSPort"}

(* A connection that the browser opens, and a name it asks for, are taken    *)
(* into the tunnel's ports where the mode redirects; a connection is         *)
(* forwarded where it does not.                                              *)
OpensIntoTunnel(rules, redirects) ==
    \A p \in New("browser") :
        (p.family = "v4" /\ p.proto # "icmp" /\ p.phase = "opens") =>
            Fate(rules, p) = IF redirects /\ p.port = "dns" THEN "DNSPort"
                             ELSE IF p.proto # "tcp" THEN "dropped"
                             ELSE IF redirects THEN "TransPort" ELSE "forwarded"

(* Nobody else starts anything through or with the gateway.                  *)
StrangersStayOut(rules) ==
    \A p \in Packets : (p.src = "elsewhere" /\ p.phase # "established" /\ p.to # "link")
                           => Fate(rules, p) = "dropped"

TotalBlock(rules) == \A p \in Packets : Fate(rules, p) = "dropped"
=============================================================================
