---------------------------- MODULE LaunchProofs ----------------------------
(***************************************************************************)
(* Proofs about what the clients make of a form (module Forms), for every  *)
(* text, host, port and bridge; about what the daemon finds on its host    *)
(* (module Wiring), for every host; and about the live enforcement policy  *)
(* and the pipeline from the stored profile to the process (module         *)
(* Launch), for any number of command lines, any forms and any patches.    *)
(***************************************************************************)
EXTENDS Launch, TLAPS, WellFoundedInduction

\* The words of a command line mean in the manager's form what they mean there.
LEMMA WordsAgree ==
  ASSUME NEW args, Parsed(args)
  PROVE  /\ ProfileType(FormOf(args)) = args.kind
         /\ IsolationOf(FormOf(args)) = ToDomain(args.isolation)
         /\ ProtectionLevel(FormOf(args)) = args.protection
         /\ BrowserBackend(FormOf(args)) = args.browser
         /\ FingerprintOverride(FormOf(args)) = None
BY DEF Parsed, FormOf, ProfileType, IsolationOf, ProtectionLevel, BrowserBackend,
       FingerprintOverride, Levels, ToDomain

\* Lines that are tidy are kept as they are.
LEMMA BridgesAgree ==
  ASSUME NEW args, Tidy(args), None # args.tor_bridge
  PROVE  BridgeLines(FormOf(args)) = args.tor_bridge
BY DEF Tidy, BridgeLines, FormOf

\* The network configuration is the same; only the manager knows no VPN and no
\* port 0.
LEMMA NetworksAgree ==
  ASSUME NEW args, Parsed(args), Tidy(args), None # args.tor_bridge,
         args.net # "vpn", args.proxy_port # 0
  PROVE  NetworkConfig(FormOf(args)) = CliNetwork(args)
<1> DEFINE form == FormOf(args)
<1>1. CASE args.net = "tor"
  <2>1. form.network_mode = "tor"
    BY <1>1 DEF FormOf
  <2>2. NetworkConfig(form) = TorNetwork(BridgeLines(form))
    BY <2>1 DEF NetworkConfig
  <2> QED BY <1>1, <2>2, BridgesAgree DEF CliNetwork
<1>2. CASE args.net = "proxy"
  <2>1. /\ form.proxy_host = args.proxy_host /\ form.proxy_port = args.proxy_port
        /\ form.proxy_user = None
    BY DEF FormOf
  <2>2. ProxyConfig(form, ToDomain(args.proxy_kind)) = CliNetwork(args)
    BY <1>2, <2>1 DEF ProxyConfig, CliNetwork, Tidy
  <2>3. NetworkConfig(form) = ProxyConfig(form, ToDomain(args.proxy_kind))
    <3>1. form.network_mode = args.proxy_kind
      BY <1>2 DEF FormOf
    <3>2. CASE args.proxy_kind = "socks5"
      BY <3>1, <3>2, NoneIsNoWord DEF NetworkConfig, ToDomain
    <3>3. CASE args.proxy_kind = "http"
      BY <3>1, <3>3, NoneIsNoWord DEF NetworkConfig, ToDomain
    <3> QED BY <3>2, <3>3 DEF Parsed
  <2> QED BY <2>2, <2>3
<1> QED BY <1>1, <1>2 DEF Parsed

\* Whatever names, hosts, ports and bridge lines are typed, as long as trimming
\* changes none of them, `aegis profile create` and the manager make the same
\* profile of the same choices or are both refused (apps/cli/src/main.rs,
\* build_spec, and src-tauri/src/dto.rs, CreateProfileArgs::to_spec).
THEOREM OneMeaning ==
  ASSUME NEW args, Parsed(args), None # args.tor_bridge
  PROVE  ClientsAgree(args)
<1> SUFFICES ASSUME Tidy(args), args.net # "vpn", args.proxy_port # 0
             PROVE  ToSpec(FormOf(args)) =
                      IF CliSpec(args) # Rejected /\ Acceptable(CliSpec(args))
                      THEN CliSpec(args) ELSE Rejected
  BY DEF ClientsAgree
<1> DEFINE form == FormOf(args)
           made == [name |-> args.name, kind |-> args.kind,
                    network |-> CliNetwork(args), level |-> args.protection,
                    isolation |-> ToDomain(args.isolation), engine |-> args.browser,
                    override |-> None, perms |-> SecureDefault]
<1>1. NetworkConfig(form) = CliNetwork(args)
  BY NetworksAgree
<1>2. Trim(form.name) = args.name
  BY DEF FormOf, Tidy
<1>3. ToSpec(form) = IF CliNetwork(args) = Rejected \/ None = Rejected
                        \/ ~Acceptable(made)
                     THEN Rejected ELSE made
  <2> HIDE DEF form
  <2> QED BY <1>1, <1>2, WordsAgree DEF ToSpec, form
<1>4. CliSpec(args) = IF CliNetwork(args) = Rejected THEN Rejected ELSE made
  BY DEF CliSpec
<1> HIDE DEF form, made
<1> QED BY <1>3, <1>4, NoneIsNoWord DEF form

\* An override is applied on top of the level's policy and keeps its level.
LEMMA OverrideIsValid ==
  ASSUME NEW form, FingerprintOverride(form) \notin {None, Rejected}
  PROVE  /\ Valid(FingerprintOverride(form))
         /\ FingerprintOverride(form).level = ProtectionLevel(form)
<1>1. /\ Policy(ProtectionLevel(form)) \in {Balanced, Strict}
      /\ Policy(ProtectionLevel(form)).level = ProtectionLevel(form)
  BY DEF Policy, ProtectionLevel, Balanced, Strict
<1>2. FingerprintOverride(form) =
        ApplyTo(form.fingerprint, Policy(ProtectionLevel(form)))
  BY DEF FingerprintOverride
<1>3. /\ Valid(ApplyTo(form.fingerprint, Policy(ProtectionLevel(form))))
      /\ ApplyTo(form.fingerprint, Policy(ProtectionLevel(form))).level
           = Policy(ProtectionLevel(form)).level
  BY <1>1, <1>2 DEF ApplyTo, Balanced, Strict
<1> QED BY <1>1, <1>2, <1>3

\* A form yields no profile on the host unless it says so, none with device APIs
\* and no strict one with WebGPU, whatever its "Advanced" panel overrides.
THEOREM FormsFailClosed ==
  ASSUME NEW form
  PROVE  FormIsFailClosed(form)
<1> DEFINE spec == ToSpec(form)
<1> SUFFICES ASSUME spec # Rejected
             PROVE  /\ spec.isolation = "host-process" =>
                         form.isolation \in {"host", "host-process"}
                    /\ Resolved(spec).block_device_apis
                    /\ spec.level = "strict" => ~Resolved(spec).webgpu_enabled
  BY DEF FormIsFailClosed
<1>1. /\ spec.isolation = IsolationOf(form)
      /\ spec.level = ProtectionLevel(form)
      /\ spec.override = FingerprintOverride(form)
      /\ FingerprintOverride(form) # Rejected
      /\ Acceptable(spec)
  BY DEF ToSpec
<1>2. spec.isolation = "host-process" =>
        form.isolation \in {"host", "host-process"}
  BY <1>1 DEF IsolationOf
<1>3. Valid(Resolved(spec)) /\ Resolved(spec).level = spec.level
  <2>1. CASE spec.override = None
    BY <1>1, <2>1 DEF Acceptable, Resolved, Policy, Balanced, Strict, ProtectionLevel
  <2>2. CASE spec.override # None
    BY <1>1, <2>2, OverrideIsValid DEF Resolved
  <2> QED BY <2>1, <2>2
<1> HIDE DEF spec
<1> QED BY <1>2, <1>3 DEF Valid

\* Whatever else is in the form, every card but Compatibility makes the policy of
\* its preset (dist/app.js, SAFETY_PRESETS, and fingerprint.rs, SafetyPreset).
THEOREM CardsArePresets ==
  ASSUME NEW form, NEW card \in {"balanced", "strict", "paranoid"},
         Seed(card) # None
  PROVE  CardIsPreset(form, card)
<1> SUFFICES ASSUME Sends(form, card)
             PROVE  FingerprintOverride(form) = Preset[card]
  BY DEF CardIsPreset
<1>1. Policy(ProtectionLevel(form)) = Preset[card]
  BY DEF Sends, Policy, ProtectionLevel, PresetLevel, Preset, Paranoid
<1>2. FingerprintOverride(form) = ApplyTo(Seed(card), Preset[card])
  BY <1>1 DEF Sends, FingerprintOverride
<1>3. CASE card = "balanced"
  <2>1. /\ Seed(card) = [webgl |-> "virtual-backend", webgpu_enabled |-> FALSE,
                         canvas |-> "passthrough", letterbox |-> FALSE,
                         hardware_concurrency |-> 4]
        /\ Preset[card] = Balanced
    BY <1>3 DEF Seed, PresetLevel, Preset
  <2> QED
    BY <1>2, <2>1 DEF ApplyTo, Balanced, Or, Valid, WebGlTokens, CanvasTokens
<1>4. CASE card \in {"strict", "paranoid"}
  <2>1. Seed(card) = [webgl |-> "disabled", webgpu_enabled |-> FALSE,
                      canvas |-> "limited", letterbox |-> TRUE,
                      hardware_concurrency |-> 2]
    BY <1>4 DEF Seed, PresetLevel
  <2>2. Preset[card] = Strict
    BY <1>4 DEF Preset, Paranoid
  <2> QED
    BY <1>2, <2>1, <2>2 DEF ApplyTo, Strict, Or, Valid, WebGlTokens, CanvasTokens
<1> QED BY <1>3, <1>4
-----------------------------------------------------------------------------
(* The search for a browser.                                                *)

\* If any of the places is there, First is one that is, and the earliest.
LEMMA FirstIsEarliest ==
  ASSUME NEW S, NEW places \in Seq(S), NEW files, Hits(places, files) # {}
  PROVE  \E i \in Hits(places, files) :
           /\ First(places, files) = places[i]
           /\ \A j \in Hits(places, files) : i <= j
<1> DEFINE hits == Hits(places, files)
           less == OpToRel(<, Nat)
<1>1. hits \subseteq Nat
  BY DEF Hits
<1>2. PICK i \in hits : \A j \in hits : <<j, i>> \notin less
  <2> HIDE DEF hits, less
  <2>1. hits # {}
    BY DEF hits
  <2>2. IsWellFoundedOn(less, Nat)
    BY NatLessThanWellFounded DEF less
  <2> QED BY <1>1, <2>1, <2>2, WFMin
<1>3. \A j \in hits : i <= j
  <2> SUFFICES ASSUME NEW j \in hits, ~(i <= j) PROVE FALSE
    OBVIOUS
  <2>1. j \in Nat /\ i \in Nat
    BY <1>1
  <2>2. j < i
    BY <2>1
  <2>3. <<j, i>> \in less
    BY <2>1, <2>2 DEF OpToRel
  <2> QED BY <1>2, <2>3
<1>4. DEFINE k == CHOOSE k \in hits : \A j \in hits : k <= j
<1>5. k \in hits /\ \A j \in hits : k <= j
  <2> HIDE DEF hits
  <2> QED BY <1>3
<1>6. First(places, files) = places[k]
  BY DEF First
<1> HIDE DEF k
<1> QED BY <1>5, <1>6

\* A search goes on to further places only when there is none of the earlier.
LEMMA FirstOfConcat ==
  ASSUME NEW S, NEW s \in Seq(S), NEW t \in Seq(S), NEW files,
         Hits(s, files) # {}
  PROVE  First(s \o t, files) = First(s, files)
<1> DEFINE both == s \o t
<1>1. /\ both \in Seq(S)
      /\ DOMAIN s \subseteq DOMAIN both
      /\ \A i \in DOMAIN s : both[i] = s[i]
      /\ \A i \in DOMAIN both \ DOMAIN s, j \in DOMAIN s : i > j
  OBVIOUS
<1>2. Hits(s, files) \subseteq Hits(both, files)
  BY <1>1 DEF Hits
<1>3. PICK i \in Hits(s, files) : /\ First(s, files) = s[i]
                                  /\ \A j \in Hits(s, files) : i <= j
  BY FirstIsEarliest
<1>4. PICK k \in Hits(both, files) : /\ First(both, files) = both[k]
                                     /\ \A j \in Hits(both, files) : k <= j
  <2>1. Hits(both, files) # {}
    BY <1>2
  <2> HIDE DEF both
  <2> QED BY <1>1, <2>1, FirstIsEarliest
<1>5. i \in DOMAIN s /\ i \in Nat /\ k \in DOMAIN both /\ k \in Nat
  BY <1>1, <1>3, <1>4 DEF Hits
<1>6. k <= i
  BY <1>2, <1>3, <1>4
<1>7. k \in DOMAIN s
  BY <1>1, <1>5, <1>6
<1>8. k \in Hits(s, files)
  BY <1>1, <1>4, <1>7 DEF Hits
<1>9. k = i
  BY <1>3, <1>5, <1>6, <1>8
<1> HIDE DEF both
<1> QED BY <1>1, <1>3, <1>4, <1>5, <1>9 DEF both

\* The places under some roots are a sequence, and two sequences have a common
\* set of elements.
LEMMA UnderIsSequence ==
  ASSUME NEW R, NEW roots \in Seq(R), NEW A, NEW apps \in Seq(A)
  PROVE  \E S : Under(roots, apps) \in Seq(S)
<1> DEFINE n == Len(roots) * Len(apps)
           e(i) == Place(roots[1 + (i - 1) \div Len(apps)],
                         apps[1 + ((i - 1) % Len(apps))])
           S == {e(i) : i \in 1 .. n}
<1>1. n \in Nat
  OBVIOUS
<1>2. Under(roots, apps) = [i \in 1 .. n |-> e(i)]
  BY DEF Under
<1>3. [i \in 1 .. n |-> e(i)] \in [1 .. n -> S]
  <2> HIDE DEF n, e
  <2> QED OBVIOUS
<1>4. [i \in 1 .. n |-> e(i)] \in Seq(S)
  <2> HIDE DEF n, e, S
  <2>1. DEFINE s == [i \in 1 .. n |-> e(i)]
  <2>2. s \in [1 .. n -> S]
    BY <1>3
  <2> HIDE DEF s
  <2>3. s \in Seq(S)
    BY <1>1, <2>2
  <2> QED BY <2>3 DEF s
<1> HIDE DEF n, e, S
<1> QED BY <1>2, <1>4

LEMMA SequencesOfBoth ==
  ASSUME NEW S, NEW s \in Seq(S), NEW T, NEW t \in Seq(T)
  PROVE  /\ s \in Seq(S \union T) /\ t \in Seq(S \union T)
         /\ s \o t \in Seq(S \union T)
<1>1. s \in Seq(S \union T) /\ t \in Seq(S \union T)
  OBVIOUS
<1> QED BY <1>1

LEMMA TuplesAreSequences ==
  ASSUME NEW a, NEW b, NEW c, NEW d, NEW e
  PROVE  /\ \E S : <<a>> \in Seq(S)
         /\ \E S : <<a, b>> \in Seq(S)
         /\ \E S : <<a, b, c>> \in Seq(S)
         /\ \E S : <<a, b, c, d>> \in Seq(S)
         /\ \E S : <<a, b, c, d, e>> \in Seq(S)
<1>1. /\ <<a>> \in Seq({a})
      /\ <<a, b>> \in Seq({a, b})
      /\ <<a, b, c>> \in Seq({a, b, c})
      /\ <<a, b, c, d>> \in Seq({a, b, c, d})
      /\ <<a, b, c, d, e>> \in Seq({a, b, c, d, e})
  OBVIOUS
<1> QED BY <1>1

LEMMA PlacesAreSequences ==
  ASSUME NEW platform
  PROVE  /\ \E S : TorPlaces(platform) \in Seq(S)
         /\ \E S : FirefoxPlaces(platform) \in Seq(S)
         /\ \E S : ChromiumPlaces(platform) \in Seq(S)
<1> DEFINE homes == <<"Desktop", "Home", "Downloads">> \o ProgramRoots
           dirs == <<"Home", "Desktop", "Downloads", "torbrowser">>
           names == <<"chromium", "chromium-browser", "google-chrome",
                      "google-chrome-stable", "brave-browser">>
<1>1. \A r, a : (\E R : r \in Seq(R)) /\ (\E A : a \in Seq(A))
                 => \E S : Under(r, a) \in Seq(S)
  BY UnderIsSequence
<1>2. /\ (\E S : homes \in Seq(S)) /\ (\E S : dirs \in Seq(S))
      /\ (\E S : ProgramRoots \in Seq(S)) /\ (\E S : Path \in Seq(S))
      /\ (\E S : names \in Seq(S))
      /\ (\E S : <<"tor">> \in Seq(S)) /\ (\E S : <<"tor-browser">> \in Seq(S))
      /\ (\E S : <<"firefox">> \in Seq(S)) /\ (\E S : <<"edge">> \in Seq(S))
      /\ (\E S : <<"firefox", "firefox-esr", "firefox-bin">> \in Seq(S))
      /\ (\E S : <<"chrome", "chromium">> \in Seq(S))
      /\ (\E S : <<"chrome", "edge">> \in Seq(S))
  <2>1. \E S : homes \in Seq(S)
    <3>1. PICK S, T : /\ <<"Desktop", "Home", "Downloads">> \in Seq(S)
                      /\ ProgramRoots \in Seq(T)
      BY TuplesAreSequences DEF ProgramRoots
    <3> QED BY <3>1, SequencesOfBoth
  <2> QED BY <2>1, TuplesAreSequences DEF ProgramRoots, Path
<1> HIDE DEF homes, dirs, names
<1>3. ASSUME NEW s, NEW t, \E S : s \in Seq(S), \E T : t \in Seq(T)
      PROVE  \E S : s \o t \in Seq(S)
  <2>1. PICK S, T : s \in Seq(S) /\ t \in Seq(T)
    BY <1>3
  <2> QED BY <2>1, SequencesOfBoth
<1>4. \E S : TorPlaces(platform) \in Seq(S)
  <2>1. TorPlaces(platform) = IF platform = "windows" THEN Under(homes, <<"tor">>)
          ELSE Under(dirs, <<"tor">>) \o Under(Path, <<"tor-browser">>)
    BY DEF TorPlaces, homes, dirs
  <2>2. \E S : Under(dirs, <<"tor">>) \o Under(Path, <<"tor-browser">>) \in Seq(S)
    BY <1>1, <1>2, <1>3
  <2>3. \E S : Under(homes, <<"tor">>) \in Seq(S)
    BY <1>1, <1>2
  <2> QED BY <2>1, <2>2, <2>3
<1>5. \E S : FirefoxPlaces(platform) \in Seq(S)
  <2>1. \E S : Under(ProgramRoots, <<"firefox">>) \o Under(Path, <<"firefox">>) \in Seq(S)
    BY <1>1, <1>2, <1>3
  <2>2. \E S : Under(Path, <<"firefox", "firefox-esr", "firefox-bin">>) \in Seq(S)
    BY <1>1, <1>2
  <2> QED BY <2>1, <2>2 DEF FirefoxPlaces
<1>6. \E S : ChromiumPlaces(platform) \in Seq(S)
  <2> DEFINE a == Under(ProgramRoots, <<"chrome", "chromium">>)
             b == Under(ProgramRoots, <<"edge">>)
             c == Under(Path, <<"chrome", "edge">>)
  <2>1. /\ (\E S : a \in Seq(S)) /\ (\E S : b \in Seq(S)) /\ (\E S : c \in Seq(S))
        /\ (\E S : Under(Path, names) \in Seq(S))
    BY <1>1, <1>2
  <2>2. ChromiumPlaces(platform) =
          IF platform = "windows" THEN (a \o b) \o c ELSE Under(Path, names)
    BY DEF ChromiumPlaces, names
  <2> HIDE DEF a, b, c
  <2>3. \E S : a \o b \in Seq(S)
    BY <1>3, <2>1
  <2>4. \E S : (a \o b) \o c \in Seq(S)
    BY <1>3, <2>1, <2>3
  <2> QED BY <2>1, <2>2, <2>4
<1> QED BY <1>4, <1>5, <1>6

\* Whatever files there are, a plain Firefox is run only on a host that has no
\* Tor Browser in any of the places where it is looked for (host_runner.rs,
\* search_default_firefox: "Tor Browser is preferred over a standalone Firefox").
THEOREM TorBrowserIsPreferred ==
  ASSUME NEW host
  PROVE  TorBrowserPreferred(host)
<1> DEFINE tor == TorPlaces(host.platform)
           plain == FirefoxPlaces(host.platform)
<1> SUFFICES ASSUME host.override["firefox"] = None, Hits(tor, Found(host)) # {}
             PROVE  Binary("firefox", host) = First(tor, Found(host))
  BY DEF TorBrowserPreferred
<1>1. Binary("firefox", host) = First(tor \o plain, Found(host))
  BY DEF Binary, Places
<1>2. PICK S, T : tor \in Seq(S) /\ plain \in Seq(T)
  BY PlacesAreSequences
<1>3. tor \in Seq(S \union T) /\ plain \in Seq(S \union T)
  BY <1>2, SequencesOfBoth
<1> HIDE DEF tor, plain
<1> QED BY <1>1, <1>3, FirstOfConcat

\* Whatever the host, an engine that is wired without an override runs a browser
\* that is installed at one of its own places (host_runner.rs,
\* resolve_browser_binary: "The platform search only returns paths that exist").
THEOREM RunsInstalled ==
  ASSUME NEW host, NEW engine \in Engines
  PROVE  RunsAnInstalled(engine, host)
<1> DEFINE places == Places(engine, host.platform)
           files == Found(host)
<1> SUFFICES ASSUME host.override[engine] = None, Wired(engine, host)
             PROVE  /\ Binary(engine, host) \in files
                    /\ \E i \in DOMAIN places : places[i] = Binary(engine, host)
  BY DEF RunsAnInstalled
<1>1. Binary(engine, host) = First(places, files)
  BY DEF Binary
<1>2. Hits(places, files) # {}
  BY <1>1 DEF Wired, First
<1>3. \E S : places \in Seq(S)
  <2>1. PICK S, T, C : /\ TorPlaces(host.platform) \in Seq(S)
                       /\ FirefoxPlaces(host.platform) \in Seq(T)
                       /\ ChromiumPlaces(host.platform) \in Seq(C)
    BY PlacesAreSequences
  <2>2. TorPlaces(host.platform) \o FirefoxPlaces(host.platform) \in Seq(S \union T)
    BY <2>1, SequencesOfBoth
  <2> QED BY <2>1, <2>2 DEF Places
<1> HIDE DEF places, files
<1>4. PICK i \in Hits(places, files) : First(places, files) = places[i]
  BY <1>2, <1>3, FirstIsEarliest
<1> QED BY <1>1, <1>4 DEF Hits
-----------------------------------------------------------------------------
(* Where the clients find the daemon.                                        *)

\* What is dialled off unix carries a token or is refused.
LEMMA Endpoints ==
  ASSUME NEW ip, NEW port, NEW token, Endpoint(ip, port, token) # Rejected
  PROVE  /\ Endpoint(ip, port, token).ip = ip
         /\ Endpoint(ip, port, token).port = port
         /\ Endpoint(ip, port, token).token = token
BY DEF Endpoint

\* On unix both clients find a daemon on its default socket as they come, and
\* neither one whose configuration moves it (apps/cli/src/connect.rs, socket_path,
\* and src-tauri/src/ipc.rs, call); told the same socket they dial the same.
THEOREM OnUnixTheyMeet ==
  ASSUME NEW host, NEW config, NEW args, NEW free, NEW env
  PROVE  MetOnUnix(host, config, args, free, env)
BY DEF MetOnUnix, CliDials, ManagerDials, Listens, Socket, Or, Unset

\* Off unix no daemon is found by both clients while their endpoints are not set,
\* whatever port and token it was started with: their defaults differ.
THEOREM ElsewhereTheyPart ==
  ASSUME NEW host, NEW config, NEW args, NEW free, NEW file
  PROVE  StrangersElsewhere(host, config, args, free, file)
<1> DEFINE told == [Unset EXCEPT !.token_file = file]
           listening == Listens(host, config, args, free)
<1> SUFFICES ASSUME host.platform # "unix",
                    Meets(CliDials(host, told), listening),
                    Meets(ManagerDials(host, told), listening)
             PROVE  FALSE
  BY DEF StrangersElsewhere
<1>1. told.endpoint = None /\ told.token_file = file
  BY DEF Unset
<1>2. Or(told.endpoint, At(Local, 7690)) = At(Local, 7690)
      /\ Or(told.endpoint, At(Local, 7420)) = At(Local, 7420)
  BY <1>1 DEF Or
<1>3. CliDials(host, told) # Rejected /\ CliDials(host, told) = ManagerDials(host, told)
  BY DEF Meets
<1>4. CliDials(host, told).port = 7690
  BY <1>2, <1>3, Endpoints DEF CliDials, At
<1>5. ManagerDials(host, told).port = 7420
  BY <1>2, <1>3, Endpoints DEF ManagerDials, At
<1> QED BY <1>3, <1>4, <1>5

\* Told one endpoint of the loopback and one token file, both clients dial alike;
\* and although only the command line looks at the address, the manager too
\* meets the daemon only on the loopback and with the daemon's token.
THEOREM ToldAlikeTheyMeet ==
  ASSUME NEW host, NEW config, NEW args, NEW free, NEW env
  PROVE  FoundTogether(host, config, args, free, env)
<1> DEFINE listening == Listens(host, config, args, free)
<1>1. ASSUME env.endpoint \notin {None, Rejected}, env.token_file # None,
             env.endpoint.ip \in Loopback
      PROVE  CliDials(host, env) = ManagerDials(host, env)
  BY <1>1 DEF CliDials, ManagerDials, Or
<1>2. ASSUME host.platform # "unix", Meets(ManagerDials(host, env), listening)
      PROVE  /\ listening.ip = Local
             /\ listening.token = ReadToken(host, args.dev_token)
  <2>1. listening # Rejected
    BY <1>2 DEF Meets
  <2> QED BY <1>2, <2>1, Endpoints DEF Listens
<1> QED BY <1>1, <1>2 DEF FoundTogether
-----------------------------------------------------------------------------
(* The live policy.  A copy of it, in a command line or in the manager's     *)
(* switches, is a policy of its own, and everything it has relaxed was asked *)
(* for at some time: a stale copy may undo an edit of another client, but it *)
(* relaxes no flag that nobody ever asked for.                               *)

Relaxed(e) == {f \in Flags : e[f] # Secure[f]}
Earned(e) == e = [f \in Flags |-> e[f]] /\ Relaxed(e) \subseteq asked

IInv == /\ Earned(enforcement)
        /\ Earned(panel)
        /\ \A c \in Clients : Earned(client[c].copy)
        /\ client = [c \in Clients |-> client[c]]

LEMMA InitEarned ==
  ASSUME FirstPanel = {Secure}, Init
  PROVE  IInv
<1>1. PICK file \in ConfigFiles : /\ LoadConfig(file) # Rejected
                                  /\ enforcement = LoadConfig(file).enforcement
                                  /\ asked = IF file = None THEN {} ELSE Moved(file.flags)
  BY DEF Init
<1>2. Earned(Secure)
  BY DEF Earned, Relaxed, Secure
<1>3. Earned(enforcement)
  <2>1. CASE file = None
    BY <1>1, <1>2, <2>1, NoneIsNoWord DEF LoadConfig
  <2>2. CASE file # None
    <3>1. file # Rejected
      BY <1>1 DEF LoadConfig
    <3>2. enforcement = Completed(file.flags) /\ asked = Moved(file.flags)
      BY <1>1, <2>2, <3>1 DEF LoadConfig
    <3> QED BY <3>2 DEF Completed, Moved, Earned, Relaxed
  <2> QED BY <2>1, <2>2
<1> QED BY <1>2, <1>3 DEF Init, IInv, AtRest

LEMMA StepEarned ==
  ASSUME IInv, [Next]_vars
  PROVE  IInv'
<1> USE DEF IInv, Earned, Relaxed
<1>1. ASSUME NEW c \in Clients, GetEnforcement(c)
      PROVE  IInv'
  BY <1>1 DEF GetEnforcement, Live
<1>2. ASSUME NEW c \in Clients, SetEnforcement(c)
      PROVE  IInv'
  <2>1. PICK toggles \in Toggles :
          /\ enforcement' = Apply(client[c].copy, toggles)
          /\ asked' = asked \union Moved(toggles)
    BY <1>2 DEF SetEnforcement, Replace
  <2>2. Earned(enforcement)'
    BY <2>1 DEF Apply, Moved
  <2>3. panel' = panel /\ Earned(panel)'
    BY <1>2, <2>1 DEF SetEnforcement
  <2>4. /\ \A d \in Clients : Earned(client[d].copy)'
        /\ client' = [d \in Clients |-> client'[d]]
    <3>1. client' = [client EXCEPT ![c] = AtRest]
      BY <1>2 DEF SetEnforcement
    <3>2. Relaxed(Secure) = {} /\ AtRest.copy = Secure
      BY DEF AtRest, Relaxed
    <3>3. Secure = [f \in Flags |-> Secure[f]]
      BY DEF Secure
    <3> QED BY <2>1, <3>1, <3>2, <3>3
  <2> QED BY <2>2, <2>3, <2>4
<1>3. ASSUME ShowStatus
      PROVE  IInv'
  BY <1>3 DEF ShowStatus, StatusView, Status, Live
<1>4. ASSUME FlipSwitch
      PROVE  IInv'
  <2>1. PICK flag \in Flags :
          LET sent == [panel EXCEPT ![flag] = ~@] IN
          /\ enforcement' = sent
          /\ asked' = asked \union Moved([f \in {flag} |-> sent[f]])
          /\ panel' \in {sent, panel}
          /\ UNCHANGED <<client, stored, start>>
    BY <1>4 DEF FlipSwitch, Replace
  <2> DEFINE sent == [panel EXCEPT ![flag] = ~@]
  <2>2. /\ sent = [f \in Flags |-> sent[f]]
        /\ \A f \in Flags \ {flag} : sent[f] = panel[f]
    OBVIOUS
  <2> HIDE DEF sent
  <2>3. sent[flag] # Secure[flag] => flag \in Moved([f \in {flag} |-> sent[f]])
    BY DEF Moved
  <2>4. Relaxed(sent) \subseteq asked'
    BY <2>1, <2>2, <2>3 DEF sent
  <2>5. Earned(enforcement)' /\ Earned(panel)'
    BY <2>1, <2>2, <2>4 DEF sent
  <2>6. client' = client /\ asked \subseteq asked'
    BY <2>1
  <2> QED BY <2>5, <2>6
<1>5. ASSUME UNCHANGED policy
      PROVE  IInv'
  BY <1>5 DEF policy
<1>6. ASSUME \/ CreateProfile \/ ApplyPatch \/ GetProfile \/ Gate \/ Resolve \/ Render
             \/ WriteUserJs \/ LaunchBrowser \/ End
             \/ UNCHANGED vars
      PROVE  UNCHANGED policy
  BY <1>6 DEF CreateProfile, CreateByCli, CreateByManager, Create, ApplyPatch, GetProfile, Gate,
              Resolve, Render, WriteUserJs, LaunchBrowser, End, vars, policy
<1> HIDE DEF IInv, Earned, Relaxed
<1> QED BY <1>1, <1>2, <1>3, <1>4, <1>5, <1>6 DEF Next

\* However many command lines and however often the manager's switches are stale,
\* no flag of the live policy leaves its secure default unless somebody has asked
\* for that very flag at some time, in the file, on a command line or with a switch
\* (orchestrator.rs, set_enforcement): what a host start rests on below.  It does
\* not say that a flag stays as it was last set.  The switches have to show the
\* policy before they are first used.
THEOREM UnaskedNeverRelaxed ==
  ASSUME FirstPanel = {Secure}
  PROVE  Spec => []NothingRelaxedUnasked
<1>1. Init => IInv
  BY InitEarned
<1>2. IInv /\ [Next]_vars => IInv'
  BY StepEarned
<1>3. IInv => NothingRelaxedUnasked
  BY DEF IInv, Earned, Relaxed, NothingRelaxedUnasked
<1> QED BY <1>1, <1>2, <1>3, PTL DEF Spec
-----------------------------------------------------------------------------
(* From the stored profile to the process.                                   *)

SpecInv(spec) ==
  /\ spec = [name |-> spec.name, kind |-> spec.kind, network |-> spec.network,
             level |-> spec.level, isolation |-> spec.isolation, engine |-> spec.engine,
             override |-> spec.override, perms |-> spec.perms]
  /\ spec.perms \in [Features -> States]

\* What a browser is told for a spec and a proxy, whatever is stored by now.
Told(spec, proxy) ==
  LET req == [fp |-> Policy(spec.level), perms |-> spec.perms, proxy |-> proxy]
  IN  IF Engine(spec) = "firefox" THEN Firefox(req) ELSE Chromium(req)

Rendered == {"rendered", "written", "running"}

\* A start goes on with what it has read, and renders from nothing else.
StartInv ==
  /\ start = [pc |-> start.pc, spec |-> start.spec, wish |-> start.wish,
              proxy |-> start.proxy, told |-> start.told, process |-> start.process,
              shown |-> start.shown]
  /\ start.pc # "idle" => SpecInv(start.spec)
  /\ start.pc \in Rendered \union {"routed"} /\ ~OnHost(start.spec) =>
       start.proxy = GatewayEndpoint(start.spec.network)
  /\ start.pc \in Rendered => start.told = Told(start.spec, start.proxy)
  /\ start.pc = "running" => start.process = LaunchSpec(start.told)

PipelineInv == StartInv /\ (profile # None => SpecInv(profile))

\* What is created or patched is a whole spec.
LEMMA StoredIsWhole ==
  ASSUME PipelineInv,
         CreateProfile \/ ApplyPatch
  PROVE  PipelineInv'
<1>1. start' = start
  BY DEF CreateProfile, CreateByCli, CreateByManager, Create, ApplyPatch
<1>2. StartInv'
  BY <1>1 DEF PipelineInv, StartInv
<1>3. SecureDefault \in [Features -> States]
  BY DEF SecureDefault, Features, States
<1>4. ASSUME NEW args, CreateByCli(args) PROVE SpecInv(profile')
  <2>1. profile' = CliSpec(args) /\ CliSpec(args) # Rejected
    BY <1>4 DEF CreateByCli, Create
  <2>2. profile' = [name |-> args.name, kind |-> args.kind, network |-> CliNetwork(args),
                    level |-> args.protection, isolation |-> ToDomain(args.isolation),
                    engine |-> args.browser, override |-> None, perms |-> SecureDefault]
    BY <2>1 DEF CliSpec
  <2> QED BY <1>3, <2>2 DEF SpecInv
<1>5. ASSUME NEW form, CreateByManager(form) PROVE SpecInv(profile')
  <2>1. profile' = ToSpec(form) /\ ToSpec(form) # Rejected
    BY <1>5 DEF CreateByManager, Create
  <2>2. profile' = [name |-> Trim(form.name), kind |-> ProfileType(form),
                    network |-> NetworkConfig(form), level |-> ProtectionLevel(form),
                    isolation |-> IsolationOf(form), engine |-> BrowserBackend(form),
                    override |-> FingerprintOverride(form), perms |-> SecureDefault]
    BY <2>1 DEF ToSpec
  <2> QED BY <1>3, <2>2 DEF SpecInv
<1>6. ASSUME ApplyPatch PROVE SpecInv(profile')
  <2>1. SpecInv(profile)
    BY <1>6 DEF ApplyPatch, PipelineInv
  <2>2. CASE \E n \in Networks : profile' = [profile EXCEPT !.network = n]
    BY <2>1, <2>2 DEF SpecInv
  <2>3. CASE \E l \in Levels : profile' = [profile EXCEPT !.level = l]
    BY <2>1, <2>3 DEF SpecInv
  <2>4. CASE \E t \in Tables : profile' = [profile EXCEPT !.perms = t]
    BY <2>1, <2>4, TablesAssumption DEF SpecInv
  <2> QED BY <1>6, <2>2, <2>3, <2>4 DEF ApplyPatch
<1> QED BY <1>2, <1>4, <1>5, <1>6 DEF PipelineInv, CreateProfile

\* Each station of a start adds its part and keeps the others.
LEMMA StartIsWhole ==
  ASSUME PipelineInv,
         \/ GetProfile \/ Gate \/ Resolve \/ Render \/ WriteUserJs \/ LaunchBrowser \/ End
  PROVE  PipelineInv'
<1> USE DEF PipelineInv
<1>1. profile' = profile
  BY DEF GetProfile, Gate, Resolve, Render, WriteUserJs, LaunchBrowser, End, stored
<1>2. ASSUME start' = Idle PROVE StartInv'
  BY <1>2 DEF StartInv, Idle, Rendered
<1>3. CASE GetProfile
  BY <1>1, <1>3 DEF GetProfile, StartInv, Rendered
<1>4. CASE Gate
  BY <1>1, <1>2, <1>4 DEF Gate, StartInv, Rendered
<1>5. CASE Resolve
  <2>1. CASE start' = Idle
    BY <1>1, <1>2, <2>1
  <2>2. ASSUME NEW proxy, ~OnHost(start.spec) => proxy = GatewayEndpoint(start.spec.network),
               start' = [start EXCEPT !.pc = "routed", !.proxy = proxy]
        PROVE  PipelineInv'
    <3>1. start.pc = "gated"
      BY <1>5 DEF Resolve
    <3>2. start' = [pc |-> "routed", spec |-> start.spec, wish |-> start.wish,
                    proxy |-> proxy, told |-> start.told, process |-> start.process,
                    shown |-> start.shown]
      BY <2>2 DEF StartInv
    <3>3. SpecInv(start.spec)
      BY <3>1 DEF StartInv
    <3> QED BY <1>1, <2>2, <3>2, <3>3 DEF StartInv, Rendered
  <2> QED BY <1>5, <2>1, <2>2 DEF Resolve
<1>6. CASE Render
  <2>1. CASE start' = Idle
    BY <1>1, <1>2, <2>1
  <2>2. CASE start' = [start EXCEPT !.pc = "rendered", !.told = Told(start.spec, start.proxy)]
    <3>1. start.pc = "routed"
      BY <1>6 DEF Render
    <3>2. start' = [pc |-> "rendered", spec |-> start.spec, wish |-> start.wish,
                    proxy |-> start.proxy, told |-> Told(start.spec, start.proxy),
                    process |-> start.process, shown |-> start.shown]
      BY <2>2 DEF StartInv
    <3>3. /\ SpecInv(start.spec)
          /\ ~OnHost(start.spec) => start.proxy = GatewayEndpoint(start.spec.network)
      BY <3>1 DEF StartInv
    <3> QED BY <1>1, <3>2, <3>3 DEF StartInv
  <2> QED BY <1>6, <2>1, <2>2 DEF Render, Told, Request
<1>7. ASSUME NEW next \in {"written", "running"}, NEW process, start.pc \in Rendered,
             start' = [start EXCEPT !.pc = next, !.process = process],
             next = "running" => process = LaunchSpec(start.told)
      PROVE  StartInv'
  <2>1. start' = [pc |-> next, spec |-> start.spec, wish |-> start.wish,
                  proxy |-> start.proxy, told |-> start.told, process |-> process,
                  shown |-> start.shown]
    BY <1>7 DEF StartInv
  <2>2. start.pc # "idle" /\ next # "idle" /\ next \in Rendered
    BY <1>7 DEF Rendered
  <2> QED BY <1>7, <2>1, <2>2 DEF StartInv
<1>8. CASE WriteUserJs
  <2>1. CASE start' = [start EXCEPT !.pc = "written"]
    <3>1. start' = [start EXCEPT !.pc = "written", !.process = start.process]
      BY <2>1 DEF StartInv
    <3>2. start.pc \in Rendered /\ "written" # "running"
      BY <1>8 DEF WriteUserJs, Rendered
    <3> QED BY <1>1, <1>7, <3>1, <3>2
  <2> QED BY <1>1, <1>2, <1>8, <2>1 DEF WriteUserJs
<1>9. CASE LaunchBrowser
  <2>1. start.pc \in Rendered
    BY <1>9 DEF LaunchBrowser, Rendered
  <2>2. CASE start' = [start EXCEPT !.pc = "running", !.process = LaunchSpec(start.told)]
    <3> DEFINE process == LaunchSpec(start.told)
    <3>1. start' = [start EXCEPT !.pc = "running", !.process = process]
      BY <2>2
    <3>2. process = LaunchSpec(start.told)
      OBVIOUS
    <3> HIDE DEF process
    <3> QED BY <1>1, <1>7, <2>1, <3>1, <3>2
  <2> QED BY <1>1, <1>2, <1>9, <2>2 DEF LaunchBrowser
<1>10. CASE End
  BY <1>1, <1>2, <1>10 DEF End
<1> QED BY <1>3, <1>4, <1>5, <1>6, <1>8, <1>9, <1>10

\* Every step keeps the pipeline's invariant.
LEMMA StepWhole == PipelineInv /\ [Next]_vars => PipelineInv'
<1> SUFFICES ASSUME PipelineInv, [Next]_vars PROVE PipelineInv'
  OBVIOUS
<1>1. CASE /\ start' = start /\ profile' = profile
  BY <1>1 DEF PipelineInv, StartInv
<1>2. CASE \/ \E c \in Clients : GetEnforcement(c) \/ SetEnforcement(c)
           \/ ShowStatus \/ FlipSwitch
  BY <1>1, <1>2 DEF GetEnforcement, SetEnforcement, ShowStatus, FlipSwitch, stored
<1>3. CASE UNCHANGED vars
  BY <1>1, <1>3 DEF vars
<1> QED BY <1>2, <1>3, StoredIsWhole, StartIsWhole DEF Next

\* The invariant holds initially.
LEMMA InitWhole == Init => PipelineInv
BY DEF Init, PipelineInv, StartInv, Idle, Rendered

\* The command line and the preferences reach the process as they were rendered.
LEMMA ProcessIsTold ==
  ASSUME NEW bundle, NEW req,
         bundle = Firefox(req) \/ bundle = Chromium(req)
  PROVE  /\ LaunchSpec(bundle).engine = bundle.engine
         /\ LaunchSpec(bundle).proxy = bundle.proxy
         /\ LaunchSpec(bundle).prefs = bundle.prefs
         /\ LaunchSpec(bundle).flags = bundle.flags
BY DEF LaunchSpec, Firefox, Chromium

\* What is told for a spec and a proxy is rendered by one of the two backends.
LEMMA ProcessOf ==
  ASSUME NEW spec, NEW proxy
  PROVE  LET t == LaunchSpec(Told(spec, proxy))
         IN /\ t.engine = Told(spec, proxy).engine /\ t.proxy = Told(spec, proxy).proxy
            /\ t.prefs = Told(spec, proxy).prefs /\ t.flags = Told(spec, proxy).flags
<1> DEFINE req == [fp |-> Policy(spec.level), perms |-> spec.perms, proxy |-> proxy]
<1>1. Told(spec, proxy) = Firefox(req) \/ Told(spec, proxy) = Chromium(req)
  BY DEF Told
<1> QED BY <1>1, ProcessIsTold

\* What runs is what was told of its own start.
LEMMA RunsAsTold ==
  PipelineInv /\ Running =>
    /\ SpecInv(start.spec)
    /\ start.process = LaunchSpec(Told(start.spec, start.proxy))
    /\ ~OnHost(start.spec) => start.proxy = GatewayEndpoint(start.spec.network)
BY DEF PipelineInv, StartInv, Running, Rendered

\* Whatever profile, proxy and edits: a running browser has no WebGL, WebGPU,
\* sensors or USB that the policy of its own start's level closes, among those
\* the engine is given a switch or a preference for (chromium.rs, command_line;
\* firefox.rs, preferences).  Nothing is claimed of the permission table.
THEOREM NothingMoreExposed == Spec => []ExposesNoMore
<1>1. ASSUME NEW spec, NEW proxy, NEW t,
             t.engine = Told(spec, proxy).engine, t.prefs = Told(spec, proxy).prefs,
             t.flags = Told(spec, proxy).flags
      PROVE  LET fp == Policy(spec.level)
             IN /\ HasWebGl(t) => fp.webgl # "disabled"
                /\ HasWebGpu(t) => fp.webgpu_enabled
                /\ HasSensors(t) => ~fp.disable_sensor_apis
                /\ HasWebUsb(t) => ~fp.block_device_apis
  <2> DEFINE req == [fp |-> Policy(spec.level), perms |-> spec.perms, proxy |-> proxy]
  <2>1. CASE Engine(spec) = "firefox"
    <3>1. Told(spec, proxy) = Firefox(req)
      BY <2>1 DEF Told
    <3>2. t.engine = "firefox" /\ t.prefs = Preferences(req.fp)
      BY <1>1, <3>1 DEF Firefox
    <3>3. req.fp.disable_sensor_apis /\ req.fp.block_device_apis
      BY DEF Policy, Strict, Balanced
    <3>4. req.fp.webgl = "disabled" => "webgl.disabled" \in Preferences(req.fp)
      BY DEF Preferences
    <3>5. "device.sensors.enabled" \notin Preferences(req.fp)
          /\ "dom.webusb.enabled" \notin Preferences(req.fp)
      BY <3>3 DEF Preferences
    <3> QED BY <3>2, <3>4, <3>5 DEF HasWebGl, HasWebGpu, HasSensors, HasWebUsb
  <2>2. CASE Engine(spec) # "firefox"
    <3>1. Told(spec, proxy) = Chromium(req)
      BY <2>2 DEF Told
    <3>2. t.flags = ChromiumSwitches(req.fp) /\ t.prefs = {}
      BY <1>1, <3>1 DEF Chromium
    <3>3. /\ req.fp.webgl = "disabled" => "--disable-webgl" \in ChromiumSwitches(req.fp)
          /\ ~req.fp.webgpu_enabled => "--disable-webgpu" \in ChromiumSwitches(req.fp)
      BY DEF ChromiumSwitches
    <3> QED BY <3>2, <3>3 DEF HasWebGl, HasWebGpu, HasSensors, HasWebUsb
  <2> QED BY <2>1, <2>2
<1>2. PipelineInv => ExposesNoMore
  <2> SUFFICES ASSUME PipelineInv, Running
               PROVE  ExposesNoMore
    BY DEF ExposesNoMore
  <2>1. /\ start.process.engine = Told(start.spec, start.proxy).engine
        /\ start.process.prefs = Told(start.spec, start.proxy).prefs
        /\ start.process.flags = Told(start.spec, start.proxy).flags
    BY RunsAsTold, ProcessOf
  <2> QED BY <1>1, <2>1 DEF ExposesNoMore
<1> QED BY <1>2, InitWhole, StepWhole, PTL DEF Spec

\* A browser on the host is pointed at the proxy its own start resolved and
\* probed, and a full-VM browser at its gateway, whatever is edited meanwhile
\* (orchestrator.rs, drive_start_host and drive_start).
THEOREM ProbedIsUsed == Spec => []RoutedAsProbed
<1>1. ASSUME NEW spec, NEW proxy
      PROVE  /\ SocksEndpoint(Told(spec, proxy).proxy) = SocksEndpoint(proxy)
             /\ Told(spec, proxy).engine = "chromium" => Told(spec, proxy).proxy = proxy
             /\ ~OnHost(spec) => Told(spec, proxy).proxy = proxy
  BY DEF Told, Firefox, Chromium, SocksEndpoint, Engine
<1>2. PipelineInv => RoutedAsProbed
  <2> SUFFICES ASSUME PipelineInv, Running
               PROVE  RoutedAsProbed
    BY DEF RoutedAsProbed
  <2>1. /\ start.process.engine = Told(start.spec, start.proxy).engine
        /\ start.process.proxy = Told(start.spec, start.proxy).proxy
    BY RunsAsTold, ProcessOf
  <2>2. ~OnHost(start.spec) => start.proxy = GatewayEndpoint(start.spec.network)
    BY RunsAsTold
  <2> QED BY <1>1, <2>1, <2>2 DEF RoutedAsProbed
<1> QED BY <1>2, InitWhole, StepWhole, PTL DEF Spec
-----------------------------------------------------------------------------
(* From the words of the form to the process: a start carries what was asked *)
(* of the spec it has read, and what an edit asks it asks of the next start.  *)

Asks(w, spec) ==
  /\ w = WishOf(w.host, w.tunnel, w.at, w.strict)
  /\ OnHost(spec) => w.host
  /\ w.tunnel = Tunnel(spec.network) /\ w.at = Address(spec.network)
  /\ w.strict => spec.level = "strict"

\* Past the gate a host start has been allowed, by an edit that somebody made.
WishInv ==
  /\ profile # None => Asks(wish, profile)
  /\ start.pc # "idle" => Asks(start.wish, start.spec)
  /\ start.pc \notin {"idle", "read"} /\ OnHost(start.spec) =>
       "allow_host_browser" \in asked
  /\ start.pc \in Rendered \union {"routed"} /\ OnHost(start.spec) =>
       /\ start.proxy = HostProxyEndpoint(start.spec.network)
       /\ start.proxy # Rejected

AskedInv == IInv /\ PipelineInv /\ WishInv

\* Both clients make of a form a spec that is what the form asked for.
LEMMA FormsAsk ==
  /\ \A args \in CliForms : CliSpec(args) # Rejected => Asks(CliWish(args), CliSpec(args))
  /\ \A form : ToSpec(form) # Rejected => Asks(ManagerWish(form), ToSpec(form))
<1>1. ASSUME NEW args \in CliForms, CliSpec(args) # Rejected
      PROVE  Asks(CliWish(args), CliSpec(args))
  <2> DEFINE spec == CliSpec(args)
  <2>1. Parsed(args)
    BY CliFormsAssumption
  <2>2. /\ spec.network = CliNetwork(args) /\ CliNetwork(args) # Rejected
        /\ spec.level = args.protection /\ spec.isolation = ToDomain(args.isolation)
    BY <1>1 DEF CliSpec
  <2>3. OnHost(spec) => args.isolation = "host"
    BY <2>1, <2>2 DEF OnHost, ToDomain, Parsed
  <2>4. /\ Tunnel(CliNetwork(args)) = args.net
        /\ Address(CliNetwork(args)) =
             IF args.net = "proxy" THEN <<args.proxy_host, args.proxy_port>> ELSE None
    <3>1. CASE args.net = "tor"
      BY <3>1 DEF CliNetwork, TorNetwork, FromMode, Tunnel, Address
    <3>2. CASE args.net = "vpn"
      BY <2>2, <3>2 DEF CliNetwork, VpnNetwork, FromMode, Tunnel, Address
    <3>3. CASE args.net = "proxy"
      <4>1. CliNetwork(args) = ProxyNetwork(ToDomain(args.proxy_kind), args.proxy_host,
                                            args.proxy_port, None)
        BY <2>2, <3>3 DEF CliNetwork
      <4>2. ToDomain(args.proxy_kind) \in {"socks5", "http-connect"}
        BY <2>1 DEF ToDomain, Parsed
      <4> QED BY <3>3, <4>1, <4>2 DEF ProxyNetwork, FromMode, Tunnel, Address
    <3> QED BY <2>1, <3>1, <3>2, <3>3 DEF Parsed
  <2> HIDE DEF spec
  <2> QED BY <2>2, <2>3, <2>4 DEF Asks, CliWish, WishOf, spec
<1>2. ASSUME NEW form, ToSpec(form) # Rejected
      PROVE  Asks(ManagerWish(form), ToSpec(form))
  <2> DEFINE spec == ToSpec(form)
  <2>1. /\ spec.network = NetworkConfig(form) /\ NetworkConfig(form) # Rejected
        /\ spec.level = ProtectionLevel(form) /\ spec.isolation = IsolationOf(form)
    BY <1>2 DEF ToSpec
  <2>2. OnHost(spec) => form.isolation \in {"host", "host-process"}
    BY <2>1 DEF OnHost, IsolationOf
  <2>3. form.protection = "strict" => spec.level = "strict"
    BY <2>1 DEF ProtectionLevel
  <2>4. CASE form.network_mode \in {None, "tor"}
    <3>1. NetworkConfig(form) = TorNetwork(BridgeLines(form))
      BY <2>4, NoneIsNoWord DEF NetworkConfig
    <3>2. /\ Tunnel(NetworkConfig(form)) = "tor"
          /\ Address(NetworkConfig(form)) = None
      BY <3>1 DEF TorNetwork, FromMode, Tunnel, Address
    <3> HIDE DEF spec
    <3> QED BY <2>1, <2>2, <2>3, <2>4, <3>2 DEF Asks, ManagerWish, WishOf, spec
  <2>5. CASE form.network_mode \notin {None, "tor"}
    <3>1. \E protocol \in {"socks5", "http-connect"} :
            NetworkConfig(form) = ProxyConfig(form, protocol)
      BY <2>1, <2>5 DEF NetworkConfig
    <3>2. PICK protocol \in {"socks5", "http-connect"} :
            NetworkConfig(form) = ProxyNetwork(protocol, Trim(form.proxy_host),
                                               form.proxy_port, form.proxy_user)
      BY <2>1, <3>1 DEF ProxyConfig
    <3>3. /\ Tunnel(NetworkConfig(form)) = "proxy"
          /\ Address(NetworkConfig(form)) = <<Trim(form.proxy_host), form.proxy_port>>
      BY <3>2 DEF ProxyNetwork, FromMode, Tunnel, Address
    <3> HIDE DEF spec
    <3> QED BY <2>1, <2>2, <2>3, <2>5, <3>3 DEF Asks, ManagerWish, WishOf, spec
  <2> QED BY <2>4, <2>5
<1> QED BY <1>1, <1>2

\* An edit of the stored profile changes what is asked of it and of no start.
LEMMA EditsAsk ==
  ASSUME AskedInv,
         CreateProfile \/ ApplyPatch
  PROVE  WishInv'
<1>1. start' = start /\ asked' = asked
  BY DEF CreateProfile, CreateByCli, CreateByManager, Create, ApplyPatch, policy
<1>2. ASSUME NEW args \in CliForms, CreateByCli(args)
      PROVE  Asks(wish', profile')
  BY <1>2, FormsAsk DEF CreateByCli, Create
<1>3. ASSUME NEW form, CreateByManager(form)
      PROVE  Asks(wish', profile')
  BY <1>3, FormsAsk DEF CreateByManager, Create
<1>4. ASSUME ApplyPatch PROVE Asks(wish', profile')
  <2>1. SpecInv(profile) /\ Asks(wish, profile)
    BY <1>4 DEF ApplyPatch, AskedInv, PipelineInv, WishInv
  <2>2. ASSUME NEW n \in Networks, profile' = [profile EXCEPT !.network = n],
               wish' = [wish EXCEPT !.tunnel = Tunnel(n), !.at = Address(n)]
        PROVE  Asks(wish', profile')
    <3>1. /\ profile'.network = n /\ profile'.isolation = profile.isolation
          /\ profile'.level = profile.level
      BY <2>1, <2>2 DEF SpecInv
    <3>2. wish' = [host |-> wish.host, tunnel |-> Tunnel(n), at |-> Address(n),
                   strict |-> wish.strict]
      BY <2>1, <2>2 DEF Asks, WishOf
    <3> QED BY <2>1, <3>1, <3>2 DEF Asks, WishOf, OnHost
  <2>3. ASSUME NEW l \in Levels, profile' = [profile EXCEPT !.level = l],
               wish' = [wish EXCEPT !.strict = (l = "strict")]
        PROVE  Asks(wish', profile')
    <3>1. /\ profile'.network = profile.network
          /\ profile'.isolation = profile.isolation /\ profile'.level = l
      BY <2>1, <2>3 DEF SpecInv
    <3>2. wish' = [host |-> wish.host, tunnel |-> wish.tunnel, at |-> wish.at,
                   strict |-> (l = "strict")]
      BY <2>1, <2>3 DEF Asks, WishOf
    <3> QED BY <2>1, <3>1, <3>2 DEF Asks, WishOf, OnHost
  <2>4. ASSUME NEW t \in Tables, profile' = [profile EXCEPT !.perms = t], wish' = wish
        PROVE  Asks(wish', profile')
    BY <2>1, <2>4 DEF SpecInv, Asks, OnHost
  <2> QED BY <1>4, <2>2, <2>3, <2>4 DEF ApplyPatch
<1>5. Asks(wish', profile')
  BY <1>2, <1>3, <1>4 DEF CreateProfile
<1> QED BY <1>1, <1>5 DEF AskedInv, WishInv

\* A start is asked what the profile it has read was; the gate lets a host start
\* pass only when the flag is set, and whoever set it asked for it.
LEMMA StartsAsk ==
  ASSUME AskedInv,
         \/ GetProfile \/ Gate \/ Resolve \/ Render \/ WriteUserJs \/ LaunchBrowser \/ End
  PROVE  WishInv'
<1> USE DEF AskedInv
<1>1. profile' = profile /\ wish' = wish /\ asked' = asked
  BY DEF GetProfile, Gate, Resolve, Render, WriteUserJs, LaunchBrowser, End, stored, policy
<1>2. start = [pc |-> start.pc, spec |-> start.spec, wish |-> start.wish,
               proxy |-> start.proxy, told |-> start.told, process |-> start.process,
               shown |-> start.shown]
  BY DEF PipelineInv, StartInv
<1>3. ASSUME start' = Idle PROVE WishInv'
  BY <1>1, <1>3 DEF WishInv, Idle, Rendered
<1>4. CASE GetProfile
  BY <1>1, <1>2, <1>4 DEF GetProfile, WishInv, Rendered
<1>5. CASE Gate
  <2>1. ASSUME MayStart(start.spec), OnHost(start.spec)
        PROVE  "allow_host_browser" \in asked
    <3>1. enforcement["allow_host_browser"]
      BY <2>1 DEF MayStart, Live
    <3>2. "allow_host_browser" \in Flags /\ Secure["allow_host_browser"] = FALSE
      BY DEF Secure, Flags
    <3>3. "allow_host_browser" \in Relaxed(enforcement)
      BY <3>1, <3>2 DEF Relaxed
    <3> QED BY <3>3 DEF IInv, Earned
  <2>2. start.pc = "read"
    BY <1>5 DEF Gate
  <2>3. CASE start' = Idle
    BY <1>3, <2>3
  <2>4. ASSUME MayStart(start.spec),
               start' = [start EXCEPT !.pc = "gated", !.shown = Status.isolation]
        PROVE  WishInv'
    <3>1. start'.pc = "gated" /\ start'.spec = start.spec /\ start'.wish = start.wish
      BY <1>2, <2>4
    <3> QED BY <1>1, <2>1, <2>2, <2>4, <3>1 DEF WishInv, Rendered
  <2> QED BY <1>5, <2>3, <2>4 DEF Gate
<1>6. CASE Resolve
  <2>1. CASE start' = Idle
    BY <1>3, <2>1
  <2>2. ASSUME NEW proxy, proxy # Rejected,
               OnHost(start.spec) => proxy = HostProxyEndpoint(start.spec.network),
               start' = [start EXCEPT !.pc = "routed", !.proxy = proxy]
        PROVE  WishInv'
    <3>1. start.pc = "gated"
      BY <1>6 DEF Resolve
    <3>2. /\ start'.pc = "routed" /\ start'.spec = start.spec
          /\ start'.wish = start.wish /\ start'.proxy = proxy
      BY <1>2, <2>2
    <3> QED BY <1>1, <2>2, <3>1, <3>2 DEF WishInv
  <2> QED BY <1>6, <2>1, <2>2 DEF Resolve
<1>7. ASSUME start'.pc \in Rendered, start.pc \in Rendered \union {"routed"},
             start'.spec = start.spec, start'.wish = start.wish,
             start'.proxy = start.proxy
      PROVE  WishInv'
  BY <1>1, <1>7 DEF WishInv, Rendered
<1>8. CASE Render
  <2>1. ASSUME NEW told, start' = [start EXCEPT !.pc = "rendered", !.told = told]
        PROVE  WishInv'
    <3>1. start.pc = "routed"
      BY <1>8 DEF Render
    <3> QED BY <1>2, <1>7, <2>1, <3>1 DEF Rendered
  <2> QED BY <1>3, <1>8, <2>1 DEF Render
<1>9. ASSUME NEW next \in Rendered, NEW process, start.pc \in Rendered,
             start' = [start EXCEPT !.pc = next, !.process = process]
      PROVE  WishInv'
  <2>1. /\ start'.pc = next /\ start'.spec = start.spec
        /\ start'.wish = start.wish /\ start'.proxy = start.proxy
    BY <1>2, <1>9
  <2> QED BY <1>7, <1>9, <2>1
<1>10. CASE WriteUserJs
  <2>1. CASE start' = [start EXCEPT !.pc = "written"]
    <3>1. start' = [start EXCEPT !.pc = "written", !.process = start.process]
      BY <1>2, <2>1
    <3>2. start.pc \in Rendered /\ "written" \in Rendered
      BY <1>10 DEF WriteUserJs, Rendered
    <3> QED BY <1>9, <3>1, <3>2
  <2> QED BY <1>3, <1>10, <2>1 DEF WriteUserJs
<1>11. CASE LaunchBrowser
  <2>1. start.pc \in Rendered /\ "running" \in Rendered
    BY <1>11 DEF LaunchBrowser, Rendered
  <2>2. CASE start' = [start EXCEPT !.pc = "running", !.process = LaunchSpec(start.told)]
    <3> DEFINE process == LaunchSpec(start.told)
    <3>1. start' = [start EXCEPT !.pc = "running", !.process = process]
      BY <2>2
    <3> HIDE DEF process
    <3> QED BY <1>9, <2>1, <3>1
  <2> QED BY <1>3, <1>11, <2>2 DEF LaunchBrowser
<1>12. CASE End
  BY <1>3, <1>12 DEF End
<1> QED BY <1>4, <1>5, <1>6, <1>8, <1>10, <1>11, <1>12

LEMMA StepAsked == AskedInv /\ [Next]_vars => AskedInv'
<1> SUFFICES ASSUME AskedInv, [Next]_vars PROVE AskedInv'
  OBVIOUS
<1>1. IInv' /\ PipelineInv'
  BY StepEarned, StepWhole DEF AskedInv
<1>2. ASSUME start' = start, profile' = profile, wish' = wish, asked \subseteq asked'
      PROVE  WishInv'
  BY <1>2 DEF AskedInv, WishInv
<1>3. ASSUME \/ \E c \in Clients : GetEnforcement(c) \/ SetEnforcement(c)
             \/ ShowStatus \/ FlipSwitch
      PROVE  WishInv'
  BY <1>2, <1>3 DEF GetEnforcement, SetEnforcement, ShowStatus, FlipSwitch, stored
<1>4. ASSUME UNCHANGED vars
      PROVE  WishInv'
  BY <1>2, <1>4 DEF vars
<1>5. WishInv'
  BY <1>3, <1>4, EditsAsk, StartsAsk DEF Next
<1> QED BY <1>1, <1>5 DEF AskedInv

\* Whatever forms, edits and stale switches: what runs on the host was asked to
\* run there by its profile and by an edit of the policy, its proxy is the one
\* that was asked for, and a strict profile runs without WebGL and WebGPU
\* (dto.rs, isolation_level; orchestrator.rs, host_backend_for and
\* host_proxy_endpoint).  The switches have to show the policy before they are
\* first used.
THEOREM RunsAsAsked ==
  ASSUME FirstPanel = {Secure}
  PROVE  Spec => []AsAsked
<1>1. Init => AskedInv
  BY InitEarned, InitWhole DEF AskedInv, WishInv, Init, Idle, Rendered
<1>2. AskedInv => AsAsked
  <2> SUFFICES ASSUME AskedInv, Running PROVE AsAsked
    BY DEF AsAsked
  <2> DEFINE w == start.wish
             t == start.process
             told == Told(start.spec, start.proxy)
             req == [fp |-> Policy(start.spec.level), perms |-> start.spec.perms,
                     proxy |-> start.proxy]
  <2>1. /\ Asks(w, start.spec)
        /\ t = LaunchSpec(told)
        /\ ~OnHost(start.spec) => start.proxy = GatewayEndpoint(start.spec.network)
        /\ OnHost(start.spec) => /\ "allow_host_browser" \in asked
                                 /\ start.proxy = HostProxyEndpoint(start.spec.network)
                                 /\ start.proxy # Rejected
    BY DEF AskedInv, PipelineInv, StartInv, WishInv, Running, Rendered
  <2>2. told = Firefox(req) \/ told = Chromium(req)
    BY DEF Told
  <2>3. /\ t.engine = told.engine /\ t.proxy = told.proxy
        /\ t.prefs = told.prefs /\ t.flags = told.flags
    BY <2>1, ProcessOf
  <2>4. {"host", "port"} \subseteq DOMAIN start.proxy
        => t.proxy.host = start.proxy.host /\ t.proxy.port = start.proxy.port
    BY <2>2, <2>3 DEF Firefox, Chromium, SocksEndpoint
  <2>5. w.strict => ~HasWebGl(t) /\ ~HasWebGpu(t)
    <3> SUFFICES ASSUME w.strict PROVE ~HasWebGl(t) /\ ~HasWebGpu(t)
      OBVIOUS
    <3>1. req.fp.webgl = "disabled" /\ ~req.fp.webgpu_enabled
      BY <2>1 DEF Asks, Policy, Strict
    <3>2. CASE told = Firefox(req)
      BY <2>3, <3>1, <3>2 DEF Firefox, Preferences, HasWebGl, HasWebGpu
    <3>3. CASE told = Chromium(req)
      BY <2>3, <3>1, <3>3 DEF Chromium, ChromiumSwitches, HasWebGl, HasWebGpu
    <3> QED BY <2>2, <3>2, <3>3
  <2>6. CASE ~OnHost(start.spec)
    <3>1. start.proxy.host = "gateway" /\ {"host", "port"} \subseteq DOMAIN start.proxy
      BY <2>1, <2>6 DEF GatewayEndpoint
    <3> HIDE DEF t, w
    <3> QED BY <2>4, <2>5, <3>1 DEF AsAsked, t, w
  <2>7. CASE OnHost(start.spec)
    <3>1. /\ w.host /\ w.tunnel = Tunnel(start.spec.network)
          /\ w.at = Address(start.spec.network)
      BY <2>1, <2>7 DEF Asks
    <3>2. CASE w.tunnel = "tor"
      <4>1. start.proxy = TorEndpoint(Host) /\ TorEndpoint(Host) # Rejected
        BY <2>1, <2>7, <3>1, <3>2 DEF HostProxyEndpoint
      <4>2. {"host", "port"} \subseteq DOMAIN start.proxy
        BY <4>1, HostAssumption DEF TorEndpoint, HostProxyParse, TorDefault
      <4>3. t.proxy.host = TorEndpoint(Host).host
        BY <2>4, <4>1, <4>2
      <4> HIDE DEF t, w
      <4> QED BY <2>1, <2>5, <2>7, <3>1, <3>2, <4>3 DEF AsAsked, t, w
    <3>3. CASE w.tunnel = "proxy"
      <4>1. /\ start.proxy.host = start.spec.network.host
            /\ start.proxy.port = start.spec.network.port
            /\ {"host", "port"} \subseteq DOMAIN start.proxy
        BY <2>1, <2>7, <3>1, <3>3 DEF HostProxyEndpoint, HostProxyParse
      <4>2. <<t.proxy.host, t.proxy.port>> = w.at
        BY <2>4, <3>1, <3>3, <4>1 DEF Address
      <4> HIDE DEF t, w
      <4> QED BY <2>1, <2>5, <2>7, <3>1, <3>3, <4>2 DEF AsAsked, t, w
    <3>4. CASE w.tunnel \notin {"tor", "proxy"}
      <4> HIDE DEF t, w
      <4> QED BY <2>1, <2>5, <2>7, <3>1, <3>4 DEF AsAsked, t, w
    <3> QED BY <3>2, <3>3, <3>4
  <2> QED BY <2>6, <2>7
<1> QED BY <1>1, <1>2, StepAsked, PTL DEF Spec
=============================================================================
