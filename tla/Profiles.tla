------------------------------ MODULE Profiles ------------------------------
(***************************************************************************)
(* The values a profile is made of: fingerprint policies, permission       *)
(* tables, network configurations and the ProfileSpec that carries them.   *)
(* A name, a host or a bridge line is a text, of which only trimming and   *)
(* emptiness matter; the pinned time zone and language are left out.       *)
(***************************************************************************)
EXTENDS Naturals

CONSTANTS
  None,          \* an Option that is None
  Rejected,      \* an error instead of a value
  Blank,         \* the empty text
  Trim(_)        \* str::trim

\* Option::unwrap_or.
Or(value, default) == IF value = None THEN default ELSE value

Levels == {"balanced", "strict"}
Features == {"camera", "microphone", "location", "notifications",
             "clipboard-read", "device"}

\* FingerprintPolicy, as far as it is chosen, checked or rendered.
Balanced == [level |-> "balanced", webgl |-> "virtual-backend",
             webgpu_enabled |-> FALSE, canvas |-> "passthrough",
             letterbox |-> FALSE, hardware_concurrency |-> 4, timer_us |-> 100,
             disable_battery_api |-> TRUE, disable_sensor_apis |-> TRUE,
             block_device_apis |-> TRUE]
Strict == [level |-> "strict", webgl |-> "disabled",
           webgpu_enabled |-> FALSE, canvas |-> "limited",
           letterbox |-> TRUE, hardware_concurrency |-> 2, timer_us |-> 100000,
           disable_battery_api |-> TRUE, disable_sensor_apis |-> TRUE,
           block_device_apis |-> TRUE]
Policy(level) == IF level = "strict" THEN Strict ELSE Balanced

\* SafetyPreset: the four cards of the manager, each with the level it maps to.
Compatibility == [Balanced EXCEPT !.hardware_concurrency = 8, !.timer_us = 20]
Paranoid == Strict
Preset == [compatibility |-> Compatibility, balanced |-> Balanced,
           strict |-> Strict, paranoid |-> Paranoid]
PresetLevel(card) ==
  IF card \in {"strict", "paranoid"} THEN "strict" ELSE "balanced"

Valid(fp) == /\ fp.block_device_apis
             /\ fp.level = "strict" => /\ ~fp.webgpu_enabled
                                       /\ fp.webgl # "virtual-backend"

\* The states of a permission; a device class is hard-blocked by default.
States == {"block", "ask", "allow", "confined-to-vm", "limited", "quarantine"}
SecureDefault == [f \in Features |->
                    IF f = "notifications" THEN "ask" ELSE "block"]

\* NetworkMode with its parameters, and what from_mode adds to it.
DefaultDns(mode) ==
  CASE mode = "tor" -> "tor-dns-port"
    [] mode = "vpn" -> "tunnel-dns"
    [] mode \in {"socks5", "http-connect"} -> "proxy-remote"

FromMode(mode, bridges, host, port, credentials) ==
  [mode |-> mode, bridges |-> bridges, host |-> host, port |-> port,
   credentials |-> credentials, dns |-> DefaultDns(mode), ipv6 |-> "block"]

TorNetwork(bridges) == FromMode("tor", bridges, None, None, None)
ProxyNetwork(protocol, host, port, credentials) ==
  FromMode(protocol, {}, host, port, credentials)
VpnNetwork(endpoint) == FromMode("vpn", {}, endpoint, None, None)

\* ProfileSpec::validate, which looks at the level's policy and not at the
\* override, and resolved_fingerprint.
Acceptable(spec) == Trim(spec.name) # Blank /\ Valid(Policy(spec.level))
Resolved(spec) == IF spec.override = None THEN Policy(spec.level)
                                          ELSE spec.override
=============================================================================
