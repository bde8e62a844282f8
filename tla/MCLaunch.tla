------------------------------ MODULE MCLaunch ------------------------------
(* Texts, forms and permission tables for model-checking module Launch.     *)
EXTENDS Launch

\* A text is a word, or a word with a space before it.
MCTrim(text) == CASE text = " "     -> ""
                  [] text = " proxy" -> "proxy"
                  [] OTHER          -> text

OneOrTwo == {{"require_gateway"}, {"require_vm_isolation", "allow_host_browser"}}
OnSecure == {Secure}
OnBlank == {Secure, [f \in Flags |-> FALSE]}

\* A host with both engines, and a file that allows host browsers.
NoOverride == [e \in Engines |-> None]
MCHost == [platform |-> "unix", vars |-> {"PATH"}, override |-> NoOverride,
           files |-> {Place("PATH", "chromium"), Place("PATH", "firefox")},
           proxy |-> None, tokens |-> <<>>]
MCConfigs == {None, Rejected,
              [flags |-> [f \in {"allow_host_browser"} |-> TRUE], key |-> None,
               socket |-> "other.sock"]}

\* Hosts of both platforms with any two of the files that are looked for.
AllPlaces(platform) ==
  UNION {{Places(e, platform)[i] : i \in DOMAIN Places(e, platform)} : e \in Engines}
AllVars(platform) == {VariableOf(place.root) : place \in AllPlaces(platform)}
HostsOf(platform) ==
  [platform : {platform}, vars : {AllVars(platform) \ {v} : v \in AllVars(platform)},
   override : {NoOverride, [NoOverride EXCEPT !["firefox"] = "given"]},
   files : {{a, b} : a, b \in AllPlaces(platform)},
   proxy : {None, TorDefault, [TorDefault EXCEPT !.port = None]},
   tokens : {<<>>}]

\* Two daemons and two clients that may be told sockets, endpoints and tokens.
Tokens == [file \in {"ipc.token", "given"} |-> IF file = "given" THEN " proxy" ELSE " "]
Meetings ==
  [host : {[MCHost EXCEPT !.platform = p, !.tokens = Tokens] : p \in Platforms},
   config : {LoadConfig(file) : file \in MCConfigs \ {Rejected}},
   args : [dev_port : {0, 7420, 7690}, dev_token : {None, "ipc.token", "given"}],
   free : {1, 7690},
   env : [socket : {None, DefaultSocket, "other.sock"},
          endpoint : {None, Rejected, At(Local, 1), At("::1", 1), At("far", 1)},
          token_file : {None, "ipc.token", "given"}]]

\* A table with another state for every feature than the default has.
Mixed == [f \in Features |->
            CASE f \in {"camera", "device"}           -> "allow"
              [] f = "microphone"                      -> "limited"
              [] f = "notifications"                   -> "confined-to-vm"
              [] f = "location"                       -> "quarantine"
              [] OTHER                                -> "ask"]
MCTables == {Mixed}
MCNetworks == {ProxyNetwork("http-connect", "other", 2, None)}

Args(net, host, port) ==
  [name : {"p"}, kind : {"ephemeral"}, net : {net},
   protection : Levels, isolation : {"vm", "host"},
   browser : {"chromium", "firefox"}, proxy_kind : {"socks5"},
   proxy_host : host, proxy_port : port, tor_bridge : {{}}]
MCCliForms == Args("tor", {None}, {None})
AllCliForms == UNION {Args("tor", {None}, {None}), Args("vpn", {None}, {None}),
                      Args("proxy", {None, " ", "proxy"}, {None, 0, 1})}

\* The words of the manager's form; "hots" stands for one it does not know.
Form(fingerprints) ==
  [name : {"p"}, kind : {"ephemeral"}, isolation : {"hots", "host"},
   network_mode : {"socks5"}, bridges : {None}, proxy_host : {" proxy"},
   proxy_port : {1}, proxy_user : {None}, protection : {None},
   browser : {"tor-browser"}, fingerprint : fingerprints]
MCManagerForms == Form({None})

\* What the "Advanced" panel always sends: a value of every field.
Advanced(webgls, gpus, boxes) ==
  [webgl : webgls, webgpu_enabled : gpus, canvas : {"passthrough"},
   letterbox : boxes, hardware_concurrency : {0, 4}]
AllManagerForms == Form(Advanced(DOMAIN WebGlTokens, BOOLEAN, BOOLEAN))

CardForms(card) == {[form EXCEPT !.protection = PresetLevel(card),
                                 !.fingerprint = Seed(card)] : form \in MCManagerForms}

\* What is proved for every form in LaunchProofs, on these.
ASSUME FormsHold == /\ \A args \in AllCliForms : ClientsAgree(args)
                    /\ \A form \in AllManagerForms : FormIsFailClosed(form)
                    /\ \A card \in DOMAIN Preset :
                         (\A form \in CardForms(card) : CardIsPreset(form, card))
                           <=> card # "compatibility"
ASSUME HostsHold ==
  \A platform \in Platforms : \A host \in HostsOf(platform) :
    /\ TorBrowserPreferred(host)
    /\ \A engine \in Engines : RunsAnInstalled(engine, host)
ASSUME MeetingsHold ==
  \A m \in Meetings :
    /\ MetOnUnix(m.host, m.config, m.args, m.free, m.env)
    /\ StrangersElsewhere(m.host, m.config, m.args, m.free, m.env.token_file)
    /\ FoundTogether(m.host, m.config, m.args, m.free, m.env)
=============================================================================
