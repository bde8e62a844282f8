------------------------------- MODULE Wiring -------------------------------
(***************************************************************************)
(* What the daemon takes from its host when it starts and keeps until it   *)
(* ends: the browser it will run for each engine, the proxy that stands    *)
(* for Tor on the host, its configuration file, the update client and the  *)
(* address it listens on; and the address each client dials.               *)
(*                                                                         *)
(* A host is a record: its platform, the environment variables that are    *)
(* set and not blank, the overrides among them, and the files there are.   *)
(* A place a browser may be installed at is a root and an application; a   *)
(* root is a directory under the value of an environment variable, or PATH,*)
(* where any of its directories will do.                                   *)
(***************************************************************************)
EXTENDS Profiles, Sequences

Engines == {"chromium", "firefox"}
Platforms == {"windows", "unix"}

\* The variable a root hangs on; HOME is USERPROFILE on Windows.
VariableOf(root) ==
  IF root \in {"Desktop", "Home", "Downloads", "torbrowser"} THEN "HOME" ELSE root

Place(root, app) == [root |-> root, app |-> app]
Found(host) ==
  {place \in host.files : VariableOf(place.root) \in host.vars}

\* Every application under the first root, then under the next.
Under(roots, apps) ==
  [i \in 1 .. Len(roots) * Len(apps) |->
     Place(roots[1 + (i - 1) \div Len(apps)], apps[1 + ((i - 1) % Len(apps))])]

ProgramRoots == <<"ProgramFiles", "ProgramFiles(x86)", "LOCALAPPDATA">>
Path == <<"PATH">>

ChromiumPlaces(platform) ==
  IF platform = "windows"
  THEN Under(ProgramRoots, <<"chrome", "chromium">>)
         \o Under(ProgramRoots, <<"edge">>) \o Under(Path, <<"chrome", "edge">>)
  ELSE Under(Path, <<"chromium", "chromium-browser", "google-chrome",
                     "google-chrome-stable", "brave-browser">>)

TorPlaces(platform) ==
  IF platform = "windows"
  THEN Under(<<"Desktop", "Home", "Downloads">> \o ProgramRoots, <<"tor">>)
  ELSE Under(<<"Home", "Desktop", "Downloads", "torbrowser">>, <<"tor">>)
         \o Under(Path, <<"tor-browser">>)

FirefoxPlaces(platform) ==
  IF platform = "windows"
  THEN Under(ProgramRoots, <<"firefox">>) \o Under(Path, <<"firefox">>)
  ELSE Under(Path, <<"firefox", "firefox-esr", "firefox-bin">>)

Places(engine, platform) ==
  IF engine = "chromium" THEN ChromiumPlaces(platform)
  ELSE TorPlaces(platform) \o FirefoxPlaces(platform)

\* The first of the places that there is.
Hits(places, files) == {i \in DOMAIN places : places[i] \in files}
First(places, files) ==
  IF Hits(places, files) = {} THEN None
  ELSE places[CHOOSE i \in Hits(places, files) :
                \A j \in Hits(places, files) : i <= j]

\* resolve_browser_binary and resolve_firefox_binary: an override is taken as it
\* is, whether there is such a file or not.
Binary(engine, host) ==
  IF host.override[engine] # None THEN host.override[engine]
  ELSE First(Places(engine, host.platform), Found(host))

\* Each engine is wired or unavailable for good, whatever the other is.
Wired(engine, host) == Binary(engine, host) # None

\* HostProxy::parse, of an endpoint whose host and port were split.
HostProxyParse(endpoint) ==
  IF endpoint.host = Blank \/ endpoint.port = None THEN Rejected ELSE endpoint

TorDefault == [kind |-> "socks5h", host |-> "localhost", port |-> 9050]
TorEndpoint(host) ==
  HostProxyParse(IF host.proxy = None THEN TorDefault ELSE host.proxy)
-----------------------------------------------------------------------------
(* The configuration file: None when there is none, Rejected when it cannot *)
(* be read or parsed, else what it says.  The daemon does not start past a  *)
(* file it cannot read.                                                     *)

Flags == {"require_vm_isolation", "require_gateway", "allow_host_browser"}
Secure == [f \in Flags |-> f # "allow_host_browser"]

\* A file gives some flags; the others keep their secure defaults.
Completed(flags) ==
  [f \in Flags |-> IF f \in DOMAIN flags THEN flags[f] ELSE Secure[f]]

DefaultSocket == "daemon.sock"

LoadConfig(file) ==
  CASE file = None     -> [enforcement |-> Secure, key |-> None, socket |-> DefaultSocket]
    [] file = Rejected -> Rejected
    [] OTHER -> [enforcement |-> Completed(file.flags), key |-> file.key,
                 socket |-> file.socket]

\* The update client of module Updates, or one that refuses every call.
UpdateClient(config) ==
  IF config.key \in {None, Rejected} THEN "disabled" ELSE "signed"
-----------------------------------------------------------------------------
(* Where the daemon listens and where the clients dial: on unix a socket,    *)
(* elsewhere a port of the loopback and a token read from a file.  The       *)
(* host's tokens are the files that are short enough to hold one.            *)

Local == "127.0.0.1"
Loopback == {Local, "::1"}

ReadToken(host, file) ==
  IF file = None \/ file \notin DOMAIN host.tokens \/ Trim(host.tokens[file]) = Blank
  THEN Rejected ELSE Trim(host.tokens[file])

Socket(path) == [socket |-> path]
Endpoint(ip, port, token) ==
  IF token = Rejected THEN Rejected ELSE [ip |-> ip, port |-> port, token |-> token]

\* run_server: without a token the daemon does not start; port 0 is any free one.
Listens(host, config, args, free) ==
  IF host.platform = "unix" THEN Socket(config.socket)
  ELSE Endpoint(Local, IF args.dev_port = 0 THEN free ELSE args.dev_port,
                ReadToken(host, args.dev_token))

\* A client's variables: its socket, its endpoint (Rejected when it cannot be
\* parsed) and its token file.
Unset == [socket |-> None, endpoint |-> None, token_file |-> None]
At(ip, port) == [ip |-> ip, port |-> port]

\* connect.rs
CliDials(host, env) ==
  LET at == Or(env.endpoint, At(Local, 7690)) IN
  IF host.platform = "unix" THEN Socket(Or(env.socket, DefaultSocket))
  ELSE IF at = Rejected \/ at.ip \notin Loopback THEN Rejected
  ELSE Endpoint(at.ip, at.port, ReadToken(host, Or(env.token_file, "ipc.token")))

\* The manager's call().
ManagerDials(host, env) ==
  LET at == Or(env.endpoint, At(Local, 7420)) IN
  IF host.platform = "unix" THEN Socket(Or(env.socket, DefaultSocket))
  ELSE IF at = Rejected THEN Rejected
  ELSE Endpoint(at.ip, at.port, ReadToken(host, env.token_file))

\* The connection is made, and off unix the tokens match.
Meets(dialled, listening) == dialled # Rejected /\ dialled = listening
-----------------------------------------------------------------------------
(* What holds of every host, here for one; proved in LaunchProofs.          *)

\* On unix the clients find the daemon as they come if and only if it listens
\* where it listens by default (cli.rs:31 says "the daemon's configured socket
\* path"); and two clients that are told the same dial the same.
MetOnUnix(host, config, args, free, env) ==
  host.platform = "unix" =>
    /\ CliDials(host, Unset) = Listens(host, config, args, free)
          <=> config.socket = DefaultSocket
    /\ CliDials(host, env) = ManagerDials(host, env)

\* Elsewhere no daemon can be found by both clients as they come, even when both
\* are told the token; told one endpoint of the loopback as well, they dial the
\* same, and whoever meets the daemon dialled the loopback with its token.
StrangersElsewhere(host, config, args, free, file) ==
  host.platform # "unix" =>
    LET listening == Listens(host, config, args, free)
        told == [Unset EXCEPT !.token_file = file]
    IN ~ (Meets(CliDials(host, told), listening) /\ Meets(ManagerDials(host, told), listening))

FoundTogether(host, config, args, free, env) ==
  LET listening == Listens(host, config, args, free) IN
  /\ env.endpoint \notin {None, Rejected} /\ env.token_file # None
       /\ env.endpoint.ip \in Loopback
       => CliDials(host, env) = ManagerDials(host, env)
  /\ host.platform # "unix" /\ Meets(ManagerDials(host, env), listening) =>
       /\ listening.ip = Local
       /\ listening.token = ReadToken(host, args.dev_token)

\* Unless the user names a binary, an engine only ever runs a browser of its
\* own family that is installed, and never one while it reports none.
RunsAnInstalled(engine, host) ==
  host.override[engine] = None /\ Wired(engine, host) =>
    /\ Binary(engine, host) \in Found(host)
    /\ \E i \in DOMAIN Places(engine, host.platform) :
         Places(engine, host.platform)[i] = Binary(engine, host)

\* A plain Firefox runs only where no place of Tor Browser holds one.
TorBrowserPreferred(host) ==
  LET tor == TorPlaces(host.platform) IN
  host.override["firefox"] = None /\ Hits(tor, Found(host)) # {} =>
    Binary("firefox", host) = First(tor, Found(host))
=============================================================================
