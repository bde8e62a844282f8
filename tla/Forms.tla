------------------------------- MODULE Forms -------------------------------
(***************************************************************************)
(* How the two clients turn what a user chose into a ProfileSpec: the      *)
(* arguments of `aegis profile create`, whose tokens clap has parsed, and  *)
(* the manager's form, whose fields are optional strings.                  *)
(***************************************************************************)
EXTENDS Profiles

\* None and Rejected are no words of a form.
ASSUME NoneIsNoWord ==
  /\ None \notin {"tor", "vpn", "proxy", "socks5", "http", "http-connect"}
  /\ None # Rejected

-----------------------------------------------------------------------------
(* The command line: build_spec.                                             *)

\* What clap lets through: words of its enumerations, and any text or port.
Parsed(args) ==
  /\ args = [name |-> args.name, kind |-> args.kind, net |-> args.net,
             protection |-> args.protection, isolation |-> args.isolation,
             browser |-> args.browser, proxy_kind |-> args.proxy_kind,
             proxy_host |-> args.proxy_host, proxy_port |-> args.proxy_port,
             tor_bridge |-> args.tor_bridge]
  /\ args.kind \in {"ephemeral", "persistent"}
  /\ args.net \in {"tor", "vpn", "proxy"}
  /\ args.protection \in Levels
  /\ args.isolation \in {"vm", "host"}
  /\ args.browser \in {"chromium", "firefox"}
  /\ args.proxy_kind \in {"socks5", "http"}

ToDomain(word) == CASE word = "vm"   -> "full-vm"
                    [] word = "host" -> "host-process"
                    [] word = "http" -> "http-connect"
                    [] OTHER         -> word

\* A proxy host that is not blank is taken as it was typed, a port as it is.
CliNetwork(args) ==
  CASE args.net = "tor" -> TorNetwork(args.tor_bridge)
    [] args.net = "vpn" -> IF args.isolation = "host" THEN Rejected
                           ELSE VpnNetwork(Blank)
    [] args.net = "proxy" ->
         IF args.proxy_host = None \/ args.proxy_port = None THEN Rejected
         ELSE IF Trim(args.proxy_host) = Blank THEN Rejected
         ELSE ProxyNetwork(ToDomain(args.proxy_kind), args.proxy_host,
                           args.proxy_port, None)

CliSpec(args) ==
  IF CliNetwork(args) = Rejected THEN Rejected
  ELSE [name |-> args.name, kind |-> args.kind, network |-> CliNetwork(args),
        level |-> args.protection, isolation |-> ToDomain(args.isolation),
        engine |-> args.browser, override |-> None, perms |-> SecureDefault]

-----------------------------------------------------------------------------
(* The manager: CreateProfileArgs::to_spec.                                  *)

ProfileType(form) == IF form.kind = "persistent" THEN "persistent" ELSE "ephemeral"

IsolationOf(form) ==
  IF form.isolation \in {"host-process", "host"} THEN "host-process" ELSE "full-vm"

ProtectionLevel(form) == IF form.protection = "strict" THEN "strict" ELSE "balanced"

BrowserBackend(form) ==
  IF form.browser \in {"firefox", "tor", "tor-browser"} THEN "firefox" ELSE "chromium"

BridgeLines(form) ==
  IF form.bridges = None THEN {} ELSE {Trim(line) : line \in form.bridges} \ {Blank}

\* The credentials become a reference made of the user's name.
ProxyConfig(form, protocol) ==
  IF form.proxy_host = None \/ form.proxy_port \in {None, 0} THEN Rejected
  ELSE IF Trim(form.proxy_host) = Blank THEN Rejected
  ELSE ProxyNetwork(protocol, Trim(form.proxy_host), form.proxy_port,
                    form.proxy_user)

NetworkConfig(form) ==
  CASE form.network_mode \in {None, "tor"}     -> TorNetwork(BridgeLines(form))
    [] form.network_mode \in {"socks5", "proxy"} -> ProxyConfig(form, "socks5")
    [] form.network_mode = "http"                -> ProxyConfig(form, "http-connect")
    [] OTHER                                     -> Rejected   \* a VPN, or unknown

WebGlTokens == [x \in {"virtual-backend", "virtual", "restricted", "disabled", "off"} |->
                  CASE x = "virtual" -> "virtual-backend"
                    [] x = "off"     -> "disabled"
                    [] OTHER         -> x]
CanvasTokens == {"passthrough", "limited"}

\* FingerprintArgs::apply_to: what is omitted stays as the level has it.
ApplyTo(args, base) ==
  LET fp == [level |-> base.level,
             webgl |-> IF args.webgl = None THEN base.webgl
                       ELSE WebGlTokens[args.webgl],
             webgpu_enabled |-> Or(args.webgpu_enabled, base.webgpu_enabled),
             canvas |-> Or(args.canvas, base.canvas),
             letterbox |-> Or(args.letterbox, base.letterbox),
             hardware_concurrency |->
               IF args.hardware_concurrency = 0 THEN None
               ELSE Or(args.hardware_concurrency, base.hardware_concurrency),
             timer_us |-> base.timer_us,
             disable_battery_api |-> base.disable_battery_api,
             disable_sensor_apis |-> base.disable_sensor_apis,
             block_device_apis |-> base.block_device_apis]
  IN  IF /\ args.webgl \in {None} \union DOMAIN WebGlTokens
         /\ args.canvas \in {None} \union CanvasTokens
         /\ Valid(fp)
      THEN fp ELSE Rejected

FingerprintOverride(form) ==
  IF form.fingerprint = None THEN None
  ELSE ApplyTo(form.fingerprint, Policy(ProtectionLevel(form)))

ToSpec(form) ==
  LET spec == [name |-> Trim(form.name), kind |-> ProfileType(form),
               network |-> NetworkConfig(form), level |-> ProtectionLevel(form),
               isolation |-> IsolationOf(form), engine |-> BrowserBackend(form),
               override |-> FingerprintOverride(form), perms |-> SecureDefault]
  IN  IF \/ spec.network = Rejected \/ spec.override = Rejected
         \/ ~Acceptable(spec)
      THEN Rejected ELSE spec

-----------------------------------------------------------------------------
\* The form that makes the choices of a command line.
FormOf(args) ==
  [name |-> args.name, kind |-> args.kind, isolation |-> ToDomain(args.isolation),
   network_mode |-> IF args.net = "proxy" THEN args.proxy_kind ELSE args.net,
   bridges |-> args.tor_bridge, proxy_host |-> args.proxy_host,
   proxy_port |-> args.proxy_port, proxy_user |-> None,
   protection |-> args.protection, browser |-> args.browser, fingerprint |-> None]

\* What the page sends of a safety card whose switches nobody touched: the card
\* seeds them, and all of them are sent.
Seed(card) ==
  LET tight == PresetLevel(card) = "strict" IN
  [webgl |-> IF tight THEN "disabled" ELSE "virtual-backend",
   webgpu_enabled |-> FALSE,
   canvas |-> IF tight THEN "limited" ELSE "passthrough",
   letterbox |-> tight,
   hardware_concurrency |-> CASE card = "compatibility" -> 8
                              [] card = "balanced"      -> 4
                              [] OTHER                  -> 2]
Sends(form, card) ==
  form.protection = PresetLevel(card) /\ form.fingerprint = Seed(card)

\* Nothing was typed that trimming would change.
Tidy(args) ==
  /\ Trim(args.name) = args.name
  /\ args.proxy_host # None => Trim(args.proxy_host) = args.proxy_host
  /\ \A line \in args.tor_bridge : Trim(line) = line /\ line # Blank

\* One set of choices makes one profile, whichever client takes it, and what one
\* refuses the other or the daemon refuses.  The manager alone refuses a VPN and
\* the port 0.
ClientsAgree(args) ==
  Tidy(args) /\ args.net # "vpn" /\ args.proxy_port # 0 =>
    ToSpec(FormOf(args)) =
      IF CliSpec(args) # Rejected /\ Acceptable(CliSpec(args)) THEN CliSpec(args)
                                                              ELSE Rejected

\* No form, whatever is typed in it and whatever its "Advanced" panel overrides,
\* yields a profile that runs on the host, has device APIs or exposes WebGPU on
\* the strict level, unless the form says host.
FormIsFailClosed(form) ==
  LET spec == ToSpec(form) IN
  spec # Rejected =>
    /\ spec.isolation = "host-process" => form.isolation \in {"host", "host-process"}
    /\ Resolved(spec).block_device_apis
    /\ spec.level = "strict" => ~Resolved(spec).webgpu_enabled

\* A card's form makes the policy of the preset it is named after ("These mirror
\* FingerprintPolicy", dist/app.js).  It does not for Compatibility: its timer is
\* no switch, so it stays that of the balanced level.
CardIsPreset(form, card) ==
  Sends(form, card) => FingerprintOverride(form) = Preset[card]
=============================================================================
