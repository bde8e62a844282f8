------------------------------- MODULE Launch -------------------------------
(***************************************************************************)
(* How the choices of a user become the settings of a running browser: the  *)
(* profile a client makes of a form (module Forms), the live enforcement    *)
(* policy that gates a start, the proxy a start routes through, and the     *)
(* rendering of the fingerprint policy and the permission table by the      *)
(* Chromium and the Firefox backend.                                        *)
(*                                                                          *)
(* One profile is created and its session started and ended over and over   *)
(* while clients edit the profile and the enforcement policy.  The          *)
(* session's own life cycle, its lock and its VMs are module Sessions; here *)
(* a start is only the pipeline from the stored profile to the process.     *)
(***************************************************************************)
EXTENDS Forms, Wiring

CONSTANTS
  CliForms,      \* the arguments `profile create` may be given
  ManagerForms,  \* the forms the manager may send
  Networks,      \* the network configurations that an UpdateProfile may set
  Tables,        \* the permission tables that an UpdateProfile may set
  Host,          \* the host the daemon was started on
  ConfigFiles,   \* what its configuration file may be
  Given,         \* the sets of flags a command line may be given
  Clients,       \* command lines that edit the enforcement policy
  FirstPanel     \* what the manager's switches may show when it opens

ASSUME TablesAssumption == Tables \subseteq [Features -> States]

\* What clap lets through, and a proxy of the environment that was split.
ASSUME CliFormsAssumption == \A args \in CliForms : Parsed(args)
ASSUME HostAssumption ==
  Host.proxy # None => {"kind", "host", "port"} \subseteq DOMAIN Host.proxy

VARIABLES
  enforcement,   \* the daemon's live policy: a value for each flag
  asked,         \* history: the flags somebody asked to move from the default
  client,        \* each command line between its Get and its Set
  panel,         \* the manager's three switches
  profile,       \* the stored spec, or None before it is created
  wish,          \* history: what the owner last asked of the profile
  start          \* the start under way, or the browser it ended in

vars == <<enforcement, asked, client, panel, profile, wish, start>>
policy == <<enforcement, asked, client, panel>>
stored == <<profile, wish>>
-----------------------------------------------------------------------------
IsolationLevel(e) ==
  IF e["require_vm_isolation"] /\ e["require_gateway"] THEN "full-vm"
                                                      ELSE "host-process"

\* get_enforcement, set_enforcement and status(), which looks for a Chromium only.
Live == enforcement
Replace(e) == enforcement' = e
Status == [enforcement |-> Live, isolation |-> IsolationLevel(Live),
           host_browser |-> Wired("chromium", Host)]

\* What the manager shows of it: its switches, and whether it warns that
\* protection is reduced.
StatusView(status) ==
  [switches |-> status.enforcement, warns |-> status.isolation # "full-vm"]

Idle == [pc |-> "idle", spec |-> None, wish |-> None, proxy |-> None,
         told |-> None, process |-> None, shown |-> "full-vm"]
AtRest == [pc |-> "idle", copy |-> Secure]

\* The flags that are set to what is not their default.
Moved(toggles) == {f \in DOMAIN toggles : toggles[f] # Secure[f]}

\* Who writes a flag into the file has asked for it.
Init ==
  /\ \E file \in {f \in ConfigFiles : LoadConfig(f) # Rejected} :
       /\ enforcement = LoadConfig(file).enforcement
       /\ asked = IF file = None THEN {} ELSE Moved(file.flags)
  /\ client = [c \in Clients |-> AtRest]
  /\ panel \in FirstPanel
  /\ profile = None
  /\ wish = None
  /\ start = Idle
-----------------------------------------------------------------------------
(* Enforcement: a command line reads the policy, changes the flags it was   *)
(* given in its copy and sends the copy back.  The manager sends the three  *)
(* switches as they stand after one of them was flipped.                    *)

GetEnforcement(c) ==
  /\ client[c].pc = "idle"
  /\ client' = [client EXCEPT ![c] = [pc |-> "read", copy |-> Live]]
  /\ UNCHANGED <<enforcement, asked, panel, stored, start>>

Toggles == UNION {[given -> BOOLEAN] : given \in Given}

Apply(copy, toggles) ==
  [f \in Flags |-> IF f \in DOMAIN toggles THEN toggles[f] ELSE copy[f]]

\* The warning of a command line, which compares the copy it read with the reply.
WarnsRelaxed(before, applied) ==
  IsolationLevel(before) = "full-vm" /\ IsolationLevel(applied) # "full-vm"

SetEnforcement(c) ==
  /\ client[c].pc = "read"
  /\ \E toggles \in Toggles :
       /\ Replace(Apply(client[c].copy, toggles))
       /\ asked' = asked \union Moved(toggles)
  /\ client' = [client EXCEPT ![c] = AtRest]
  /\ UNCHANGED <<panel, stored, start>>

\* The switches are set to what get_status returned.
ShowStatus ==
  /\ panel' = StatusView(Status).switches
  /\ UNCHANGED <<enforcement, asked, client, stored, start>>

\* A switch is flipped and all three are sent.  The status is fetched again
\* afterwards; when that fails the switches go back to the last one fetched.
FlipSwitch ==
  \E flag \in Flags :
    LET sent == [panel EXCEPT ![flag] = ~@] IN
    /\ Replace(sent)
    /\ asked' = asked \union Moved([f \in {flag} |-> sent[f]])
    /\ panel' \in {sent, panel}
    /\ UNCHANGED <<client, stored, start>>
-----------------------------------------------------------------------------
(* The profile: CreateProfile from either client, and UpdateProfile, whose   *)
(* patch carries the network, the protection level or the permissions;       *)
(* isolation, engine and override stay as they were created.                 *)

\* What the user asked for, in the words of the form.
WishOf(host, tunnel, at, strict) ==
  [host |-> host, tunnel |-> tunnel, at |-> at, strict |-> strict]
Tunnel(network) ==
  CASE network.mode \in {"socks5", "http-connect"} -> "proxy"
    [] OTHER -> network.mode
Address(network) ==
  IF Tunnel(network) = "proxy" THEN <<network.host, network.port>> ELSE None

CliWish(args) ==
  WishOf(args.isolation = "host", args.net,
         IF args.net = "proxy" THEN <<args.proxy_host, args.proxy_port>> ELSE None,
         args.protection = "strict")
ManagerWish(form) ==
  LET tor == form.network_mode \in {None, "tor"}
  IN  WishOf(form.isolation \in {"host", "host-process"},
             IF tor THEN "tor" ELSE "proxy",
             IF tor THEN None ELSE <<Trim(form.proxy_host), form.proxy_port>>,
             form.protection = "strict")

Create(spec, asks) ==
  /\ spec # Rejected /\ Acceptable(spec)
  /\ profile' = spec /\ wish' = asks
  /\ UNCHANGED <<policy, start>>

CreateByCli(args) == Create(CliSpec(args), CliWish(args))
CreateByManager(form) == Create(ToSpec(form), ManagerWish(form))
CreateProfile ==
  /\ profile = None
  /\ \/ \E args \in CliForms : CreateByCli(args)
     \/ \E form \in ManagerForms : CreateByManager(form)

ApplyPatch ==
  /\ profile # None
  /\ \/ \E n \in Networks :
          /\ profile' = [profile EXCEPT !.network = n]
          /\ wish' = [wish EXCEPT !.tunnel = Tunnel(n), !.at = Address(n)]
     \/ \E l \in Levels :
          /\ profile' = [profile EXCEPT !.level = l]
          /\ wish' = [wish EXCEPT !.strict = (l = "strict")]
     \/ \E t \in Tables :
          /\ profile' = [profile EXCEPT !.perms = t]
          /\ wish' = wish
  /\ Acceptable(profile')
  /\ UNCHANGED <<policy, start>>
-----------------------------------------------------------------------------
(* The start.                                                               *)

OnHost(spec) == spec.isolation = "host-process"

\* The engine that runs: the full-VM path has one backend, for Chromium.
Engine(spec) == IF OnHost(spec) THEN spec.engine ELSE "chromium"

\* The profile is read before an await, the policy after it.
GetProfile ==
  /\ start.pc = "idle" /\ profile # None
  /\ start' = [start EXCEPT !.pc = "read", !.spec = profile, !.wish = wish]
  /\ UNCHANGED <<policy, stored>>

\* Fault: the engine alone decides, whatever the live policy.
MayStart_AnyPolicy(spec) == OnHost(spec) => Wired(spec.engine, Host)

\* host_backend_for: what was found when the daemon started decides.
MayStart(spec) ==
  OnHost(spec) => Live["allow_host_browser"] /\ Wired(spec.engine, Host)

Gate ==
  /\ start.pc = "read"
  /\ start' = IF MayStart(start.spec)
               THEN [start EXCEPT !.pc = "gated",
                                  !.shown = Status.isolation]
               ELSE Idle
  /\ UNCHANGED <<policy, stored>>

\* HostProxy: where the browser is pointed is what is probed.  A VPN is
\* Unsupported, and an endpoint without a host an error.
HostProxyEndpoint(network) ==
  CASE Tunnel(network) = "tor" -> TorEndpoint(Host)
    [] Tunnel(network) = "vpn" -> Rejected
    [] OTHER -> HostProxyParse(
         [kind |-> IF network.mode = "http-connect" THEN "http" ELSE "socks5h",
          host |-> network.host, port |-> network.port])

\* The gateway of the session, whatever the mode beyond Tor.
GatewayEndpoint(network) ==
  [kind |-> "socks5", host |-> "gateway",
   port |-> IF Tunnel(network) = "tor" THEN 9050 ELSE 1080]

\* A host start resolves its proxy and probes it; a full-VM start uses its
\* gateway, whose preflight is module Preflight.
Resolve ==
  /\ start.pc = "gated"
  /\ LET network == start.spec.network
         proxy == IF OnHost(start.spec) THEN HostProxyEndpoint(network)
                                        ELSE GatewayEndpoint(network)
     IN \/ /\ proxy # Rejected
           /\ start' = [start EXCEPT !.pc = "routed", !.proxy = proxy]
        \/ /\ OnHost(start.spec)     \* no endpoint, or nothing listens
           /\ start' = Idle
  /\ UNCHANGED <<policy, stored>>

\* Fault: the request is built from the profile as it is stored by now.
Request_Rereads ==
  [fp |-> Policy(profile.level), perms |-> profile.perms,
   proxy |-> IF OnHost(profile) THEN HostProxyEndpoint(profile.network)
                                ELSE GatewayEndpoint(profile.network)]

\* The launch request takes the level's policy, not the resolved one.
Request == [fp |-> Policy(start.spec.level), perms |-> start.spec.perms,
            proxy |-> start.proxy]

\* Fault: WebGPU is switched off among what only a strict policy adds.
ChromiumSwitches_StrictOnly(fp) ==
  {"--proxy-server", "--proxy-bypass-list=", "--site-per-process",
   "--force-webrtc-ip-handling-policy=disable_non_proxied_udp"}
  \union (IF fp.webgl = "disabled" THEN {"--disable-webgl"} ELSE {})
  \union (IF fp.level = "strict" THEN {"--disable-3d-apis", "--disable-webgpu"} ELSE {})

\* Chromium's command line: the switches that are always there, and those the
\* fingerprint policy adds.
ChromiumSwitches(fp) ==
  {"--proxy-server", "--proxy-bypass-list=", "--site-per-process",
   "--force-webrtc-ip-handling-policy=disable_non_proxied_udp"}
  \union (IF fp.webgl = "disabled" THEN {"--disable-webgl"} ELSE {})
  \union (IF fp.webgpu_enabled THEN {} ELSE {"--disable-webgpu"})
  \union (IF fp.level = "strict" THEN {"--disable-3d-apis"} ELSE {})

ContentSetting(state) == CASE state \in {"allow", "confined-to-vm", "limited"} -> "allow"
                           [] state = "ask" -> "ask"
                           [] OTHER -> "block"

\* Chromium's managed policies: a device guard is always "block", capture and
\* location are on or off, the rest are content settings.  They are global, so
\* the table's defaults count and no grant to a site does.
ManagedPolicies(perms) ==
  [f \in Features |->
     CASE f = "device" -> "block"
       [] f \in {"notifications", "clipboard-read"} -> ContentSetting(perms[f])
       [] OTHER -> IF perms[f] = "allow" THEN "allow" ELSE "block"]

Chromium(req) ==
  [engine |-> "chromium", proxy |-> req.proxy, prefs |-> {},
   flags |-> ChromiumSwitches(req.fp), policies |-> ManagedPolicies(req.perms)]

\* Firefox's preferences: those switched on.  WebGPU is off for every policy,
\* and nothing is taken from the permission table.
Preferences(fp) ==
  {"privacy.resistFingerprinting", "network.proxy.socks_remote_dns"}
  \union (IF fp.letterbox \/ fp.level = "strict"
          THEN {"privacy.resistFingerprinting.letterboxing"} ELSE {})
  \union (IF fp.webgl = "disabled" THEN {"webgl.disabled"} ELSE {})
  \union (IF fp.block_device_apis THEN {} ELSE {"dom.webusb.enabled"})
  \union (IF fp.disable_sensor_apis THEN {} ELSE {"device.sensors.enabled"})
  \union (IF fp.disable_battery_api THEN {} ELSE {"dom.battery.enabled"})

\* parse_socks_endpoint drops the scheme; the host is used as SOCKS 5.
SocksEndpoint(proxy) == [proxy EXCEPT !.kind = "socks5"]

Firefox(req) ==
  [engine |-> "firefox", proxy |-> SocksEndpoint(req.proxy),
   prefs |-> Preferences(req.fp), flags |-> {"-no-remote", "-new-instance"},
   policies |-> [f \in {} |-> "block"]]

Forbidden == {"--no-sandbox", "--disable-web-security",
              "--disable-site-isolation-trials", "--remote-debugging"}
AssertSafe(bundle) == bundle.flags \intersect Forbidden = {}

Render ==
  /\ start.pc = "routed"
  /\ LET told == IF Engine(start.spec) = "firefox" THEN Firefox(Request)
                                                   ELSE Chromium(Request)
     IN start' = IF Valid(Request.fp) /\ AssertSafe(told)
                 THEN [start EXCEPT !.pc = "rendered", !.told = told]
                 ELSE Idle
  /\ UNCHANGED <<policy, stored>>

\* LaunchSpec: what the process is started with is the command line. Firefox
\* finds its preferences in user.js; the managed policies go no further.
LaunchSpec(bundle) == [part \in DOMAIN bundle \ {"policies"} |-> bundle[part]]

\* Firefox reads its settings from user.js, which is written before it starts.
WriteUserJs ==
  /\ start.pc = "rendered" /\ start.told.engine = "firefox"
  /\ \/ start' = [start EXCEPT !.pc = "written"]
     \/ start' = Idle
  /\ UNCHANGED <<policy, stored>>

\* The backend vets the bundle again and starts the process, which may fail.
LaunchBrowser ==
  /\ \/ start.pc = "rendered" /\ start.told.engine = "chromium"
     \/ start.pc = "written"
  /\ AssertSafe(start.told) /\ start.told.engine = Engine(start.spec)
  /\ \/ start' = [start EXCEPT !.pc = "running", !.process = LaunchSpec(start.told)]
     \/ start' = Idle
  /\ UNCHANGED <<policy, stored>>

\* The session is stopped, or its browser exits and it is stopped.
End ==
  /\ start.pc = "running"
  /\ start' = Idle
  /\ UNCHANGED <<policy, stored>>

Next ==
  \/ \E c \in Clients : GetEnforcement(c) \/ SetEnforcement(c)
  \/ ShowStatus \/ FlipSwitch
  \/ CreateProfile \/ ApplyPatch
  \/ GetProfile \/ Gate \/ Resolve \/ Render
  \/ WriteUserJs \/ LaunchBrowser \/ End

Spec == Init /\ [][Next]_vars
-----------------------------------------------------------------------------
(* Properties.                                                              *)

Running == start.pc = "running"
Rank(s) == CASE s \in {"block", "quarantine"} -> 0
             [] s = "ask" -> 1
             [] s \in {"allow", "confined-to-vm", "limited"} -> 2

\* How the engines read their settings.
HasWebGl(t) == /\ t.flags \intersect {"--disable-webgl", "--disable-3d-apis"} = {}
               /\ "webgl.disabled" \notin t.prefs
HasWebGpu(t) == t.engine = "chromium" /\ "--disable-webgpu" \notin t.flags
HasSensors(t) == "device.sensors.enabled" \in t.prefs
HasWebUsb(t) == "dom.webusb.enabled" \in t.prefs

\* What a site meets in a process: Firefox asks, except for the devices it was
\* not told to have. A Chromium follows the policies in its directory: a guest's
\* first boot installs a file there that blocks every feature, and on the host
\* nothing is installed, so that it asks.
SiteSettings(t, onHost) ==
  [f \in Features |->
     IF t.engine = "firefox" THEN IF f = "device" /\ ~HasWebUsb(t) THEN "block" ELSE "ask"
     ELSE IF onHost THEN "ask" ELSE "block"]

\* However the profile is edited while it starts, the browser that runs has no
\* surface that the policy of its own start closes and the start can close by
\* command line and preferences: WebGL, WebGPU, and on Firefox sensors and USB.
ExposesNoMore ==
  Running =>
    LET fp == Policy(start.spec.level)
        t == start.process
    IN /\ HasWebGl(t) => fp.webgl # "disabled"
       /\ HasWebGpu(t) => fp.webgpu_enabled
       /\ HasSensors(t) => ~fp.disable_sensor_apis
       /\ HasWebUsb(t) => ~fp.block_device_apis

\* No site gets more than the managed policies rendered for the start allow
\* (docs/architecture.md: "policies are applied via the browser's managed-policy
\* mechanism").  Refuted: they stay in the bundle.
PoliciesAreApplied ==
  Running =>
    \A f \in DOMAIN start.told.policies :
       Rank(SiteSettings(start.process, OnHost(start.spec))[f]) <= Rank(start.told.policies[f])

\* The browser that runs on the host is pointed at the very proxy its own start
\* has probed, and a full-VM browser at its gateway: an edit of the network mode
\* between the probe and the launch changes neither.
RoutedAsProbed ==
  Running =>
    LET t == start.process IN
    /\ SocksEndpoint(t.proxy) = SocksEndpoint(start.proxy)
    /\ t.engine = "chromium" => t.proxy = start.proxy
    /\ ~OnHost(start.spec) => t.proxy = GatewayEndpoint(start.spec.network)

\* From the words of the form to the process: what runs on the host was asked to
\* run there, by a profile and by an edit of the policy; its proxy is the one
\* that was asked for; and a strict profile runs without WebGL and WebGPU.  An
\* unknown word for the isolation never means the host.
AsAsked ==
  Running =>
    LET w == start.wish
        t == start.process
    IN /\ w.host \/ t.proxy.host = "gateway"
       /\ t.proxy.host # "gateway" =>
            /\ w.host /\ "allow_host_browser" \in asked
            /\ w.tunnel = "tor" => t.proxy.host = TorEndpoint(Host).host
            /\ w.tunnel = "proxy" => <<t.proxy.host, t.proxy.port>> = w.at
       /\ w.strict => ~HasWebGl(t) /\ ~HasWebGpu(t)

\* No flag of the live policy leaves its secure default unless somebody has
\* asked for that flag at some time: what AsAsked rests on.
NothingRelaxedUnasked == {f \in Flags : enforcement[f] # Secure[f]} \subseteq asked

\* A command line changes no flag that it was not given (apps/cli/src/main.rs,
\* dispatch_set_enforcement: "it never blindly overwrites flags the user did not
\* touch").  Refuted: the copy it sends back may be older than another client's
\* edit, which it undoes.
UntouchedFlagsStay ==
  [][\A c \in Clients : SetEnforcement(c) =>
        \E toggles \in Toggles :
           /\ enforcement' = Apply(client[c].copy, toggles)
           /\ \A f \in Flags \ DOMAIN toggles : enforcement'[f] = enforcement[f]]_vars

\* Flipping a switch changes that flag of the live policy and no other.
\* Refuted: the switches are a copy that an edit elsewhere makes stale.
OneFlagAtATime ==
  [][FlipSwitch => \A f, g \in Flags :
       enforcement'[f] # enforcement[f] /\ enforcement'[g] # enforcement[g] => f = g]_vars

\* A command line that takes the policy out of full isolation says so
\* (apps/cli/src/main.rs, format_enforcement: "Warn (on stderr) when isolation
\* dropped from full to reduced.").  Refuted: what it compares with is the copy it has read,
\* and the policy may have been restored since.
ReductionIsWarned ==
  [][\A c \in Clients : SetEnforcement(c) /\ WarnsRelaxed(enforcement, enforcement')
       => WarnsRelaxed(client[c].copy, enforcement')]_vars

\* The preview shows the resolved policy.
Preview(spec) ==
  [browser |-> spec.engine, webgl |-> Resolved(spec).webgl # "disabled",
   webgpu |-> Resolved(spec).webgpu_enabled]

\* A VPN profile that has no endpoint does not run ("the daemon surfaces a clear
\* 'configure the VPN' error", apps/cli/src/main.rs).  Refuted: nothing looks at
\* the endpoint.
NoVpnWithoutEndpoint ==
  Running => ~(start.spec.network.mode = "vpn" /\ start.spec.network.host = Blank)

\* What the preview of the profile shows is what runs.  Refuted: a launch takes
\* the level's policy, and the full-VM path always runs Chromium.
RunsAsPreviewed ==
  Running => Preview(start.spec) =
               [browser |-> start.process.engine, webgl |-> HasWebGl(start.process),
                webgpu |-> HasWebGpu(start.process)]

\* Firefox is told what the permission table says.  Refuted: it is not read.
FirefoxObeysTable ==
  Running /\ start.process.engine = "firefox" =>
    \A f \in Features :
       Rank(SiteSettings(start.process, TRUE)[f]) <= Rank(start.spec.perms[f])

\* A browser speaks to its proxy the protocol the profile names.  Refuted for
\* Firefox with an HTTP proxy, which is configured as SOCKS 5.
SpeaksProxysProtocol == Running => start.process.proxy = start.proxy

\* The level that the status shows for the policy is the level a session gets.
\* Refuted: the profile decides, and only allow_host_browser gates it.
StatusIsTrue == Running => start.shown = start.spec.isolation
=============================================================================
