# Aegis Private Browser in TLA+

This directory models the daemon of Aegis (`src/crates`): the program that
starts a browsing session for a profile in a pair of virtual machines (or, in
the reduced mode, in a process on the host), lets it reach the network only
through a gateway with a kill switch, and takes it apart again; and its two clients
(`src/apps`), the command line and the desktop manager. Paths below are relative to
`src/crates/` unless they start with `src/` or `apps/`.

Run a model with `tlc -config X.cfg M` and the proofs with `tlapm M.tla`, both in
this directory. `PROJECT.json` lists the runs, the source lines of every
definition, the faults (mutants) each property is known to detect, the hazards
and the theorems.

## 1. The system

| Component | Source | State it keeps | Operations | Talks to |
|---|---|---|---|---|
| Session states | `aegis-core/src/session.rs` | none | `allowed_next`, `can_transition_to` | used by the orchestrator |
| Orchestrator | `aegis-daemon/src/orchestrator.rs` | session table behind a mutex (state, mode, VM ids, browser handle, protection, lease, RAM key); enforcement settings | `start_session`, `stop_session`, `list`/`get` views, `fail_closed`, `teardown` | all capabilities below, by awaited calls |
| VM controller | `vm-controller/src/lib.rs` | entries behind a mutex (id, state, overlay) | `provision`, `start`, `shutdown`, `destroy`, `state`, `list` | `virsh`, `qemu-img`, `shred`, overlay files |
| Gateway controller | `gateway-controller/src/lib.rs`, `aegis-core/src/gateway.rs` | record behind a mutex: configuration, policy, applied flag, kill switch | `configure`, `apply_firewall`, `engage_killswitch`, `release_killswitch`, `tunnel_status`, `health` | `nft`, `systemctl`, probes |
| Profile store | `profile-store/src/store.rs`, `shred.rs` | per profile a directory with `profile.json` and `profile.lock`; an in-process `write_guard` | `create`, `get`, `list`, `update`, `touch_launch`, `delete`, `acquire_lock`, `release_lock` | the file system |
| Update client | `update-client/src/lib.rs` | none in memory; installed files, `.aegis-bak`, `.aegis-tmp` | `check`, `verify`, `apply` with rollback | a transport, the file system |
| Browser launcher | `browser-launcher/src` | `HostRunner`: a table of child processes | `render_policy`, `launch`, `is_running`, `terminate` | guest channel, host processes |
| Network auditor, preflight checklist | `network-audit/src`, `aegis-core/src/preflight.rs` | none | `run_preflight`, aggregation of reports | probes |
| IPC | `aegis-ipc/src` | none beyond a connection's buffer | framing, `serve`, client `request` | pipes, sockets |
| Request handler, daemon main, configuration | `aegis-daemon/src` | configuration; the enforcement policy; what was wired at start-up | dispatch of requests; start-up; exit on a signal | everything above |
| Rendering of rules, domain XML and browser settings | `gateway-controller/src/render.rs`, `vm-controller/src/xml.rs`, `browser-launcher/src/chromium.rs`, `firefox.rs` | none | pure functions | used by their controllers |
| Profiles, policies, permissions | `aegis-core/src` | none | constructors, presets, validation | used everywhere |
| Command line and desktop manager | `apps/cli`, `apps/manager-ui` | the manager's form and switches | one request, one reply; two requests to change an enforcement flag or to update; building a profile; showing a status | IPC |
| Audit sink, secure storage | `aegis-daemon/src/audit.rs`, `secure-storage` | append-only log; none | append; seal, open, `generate_key` | - |

How they interact, and what is hard about it:

* **Concurrency.** `aegis-ipc/src/server.rs` runs each connection as a task of
  its own over one shared orchestrator, and a handler is not cancelled when its
  client goes away. `start_session` holds no mutex across an await, so any
  number of stops, other starts, updates and deletes run between its steps; a
  session can be stopped by anyone who reads its id in the session list while it
  is still starting.
* **One gateway for all sessions.** Every session configures, arms and cuts the
  same `NftGatewayController`.
* **Partial failure.** Each external command may fail; releases are best
  effort and only logged.
* **Crashes.** The daemon exits on a signal without teardown (`main.rs`); the
  session table is lost, the profile's files, locks and half-applied updates stay.
* **Stale copies.** Diagnostics are put together from several reads, a start works
  on the profile as it was when it was requested, each client sends back an
  enforcement policy it has read before, what is published may change between a
  check for an update and its application, and a pid outlives its process.
* **Two clients, one meaning.** Both clients translate what a user chose into the
  same request, show the same session, and look for the same daemon, in code of
  their own.
* **No timeouts or retries** that change state: the client gives up or waits, the
  handler carries on, and there is no message queue, so a late answer or a repeated
  delivery does not occur here.

What has to hold, by component (names of the properties in the modules):

* Orchestrator: a Browsing session is whole and nobody is taking it apart
  (`BrowsingIsIntact`); no browser without its preflight
  (`BrowserOnlyAfterPreflight`); an ended session leaves nothing
  (`EndedIsClean`); one live browser per profile (`OneBrowserPerProfile`); a lock
  has somebody who will free it, unless its token could not be written or its file not
  be removed (`LockHasOwner`); the table and the locks follow the life cycle
  (`KeepsPromise`); starts return, stopped sessions stay down (`StartReturns`,
  `StoppedStaysDown`). That traffic stays cut after a containment failure
  (`CutWhileGatewayRuns`) is not so where sessions share the gateway (SessionsRearm).
* Gateway: record and kernel agree as long as calls do not overlap
  (`RecordTellsKernel`); errors engage the switch (`ErrorEngages`); only validated
  rules are ever loaded (`OnlySoundRules`), and they let the browser into the tunnel
  and neither its UDP nor its IPv6 out nor a stranger in (`OnlyTunnelPaths`).
* Store: a lease is what the lock file says (`HeldMeansLocked`); no lost edit, no
  torn metadata, no resurrected profile (`NoLostEdit`, `MetaIsWhole`,
  `DeletedStaysGone`).
* Updates: `PreviousRetained`, `RolledBackIsPrevious`, `AppliedIsWhole`,
  `OnlySignedInstalled`.
* VM controller: a destroy's report is true (`ReportIsTrue`); no guest that can run
  has a way to the host's devices or a second network (`DomainIsConfined`); what
  `provision` answers is so, also when it fails half-way (`ProvisionAnswersTrue`).
* Preflight and diagnostics: nothing is called active, and no browser runs, on what
  was not measured (`ActiveIsMeasured`, `RunsBehindGate`); an answer does not
  contradict itself and shows no green it has not earned (`AnswerAgrees`,
  `GreenIsEarned`), and neither do the rows, panels and verdicts that the clients make
  of it (`SafeIsEarned`).
* IPC: nothing is carried out twice and a reply belongs to its call (`AtMostOnce`,
  `ReplyIsToThisCall`); calls return, connections are served (`CallsReturn`,
  `UnixServesEverybody`).
* Host runner: no browser gets out of reach, and a stopped one is dead (`NoOrphan`,
  `StoppedIsDead`).
* Launch: the process has the command line, preferences and proxy of its own start
  (`ExposesNoMore`, `RoutedAsProbed`), and what was asked for in a form (`AsAsked`). The
  managed policies, which carry the permission table, do not reach it (LaunchPolicies).
* Clients: both mean the same by the same choices, an unknown word never selects the
  weaker alternative, both understand every reply, and they find the daemon that was
  told the same (theorems of `LaunchProofs` and `AnswerProofs`, section 4).

## 2. Modules

### SessionStates, SessionLifecycle, Sessions (orchestrator)

`SessionStates` is the lifecycle graph of `session.rs` (`AllowedNext`).
`SessionLifecycle` is the abstract promise: claim the profile's lock, enter the
table, move along edges, climb only while owning the lock, never give the lock
up while browsing, never leave `destroyed`. `Sessions` is the code, and the run
SessionsOrderly checks that it implements the promise under `phase <- state,
owner <- Holder`, the session whose token is in the lock file (`KeepsPromise`).

In `Sessions` a task is a program counter. A start is the task named after its
session; a stopper is a connection that stops sessions again and again. One
action is the code between two awaits, with the effect of the awaited call that
ends it:

| Code | Actions |
|---|---|
| `start_session` 490-574 | `Begin`, `Refuse`, `AcquireLock`, `KeyFails`, `Unlock`, `Register` |
| `transition` 324-341 | `Transition`, taken by `ClimbTo` at each station |
| `drive_start` 579-703 | `Provision` (each role), `Configure`, `ApplyFirewall`, `StartVm`, `RunPreflight`, `Launch`, `CheckAlive`, `Touch` |
| `drive_start_host` 745-893 | `ResolveEndpoint`, `ProbeProxy`, then as above |
| `fail_closed` 361-399 | `FailClosed` |
| `stop_session` 958-975 | `BeginStop` (the move to Closing whose refusal is ignored) |
| `teardown` 982-1094 | `Snapshot`, `TerminateBrowser`, `RemoveDir`, `DestroyVm`, `ReleaseLease`, `Finish` |
| the browser process | `BrowserExits` |

State: `state`, `refs`, `protection` are the table entry (`refs` is the set of
what the entry refers to; the entry keeps its lease throughout, so the lease is
not in it); `lock`, `vm`, `browser`, `dirs`, `killswitch` the world; `held` the
snapshot a teardown works from; `err` whether the start's error requires the
kill switch; `botched` the releases that failed, and the writes of a token.

`acquire_lock` creates the lock file and then writes the lease's token into it. If that
write fails (`store.rs:350-351`), `start_session` returns the error at once
(`orchestrator.rs:522`) and the file stays: the lock is then `Blank`, nobody has a lease to
free it with, and the profile is Busy for good. `LockHasOwner` names this as the one
exception next to a failed removal.

Abstractions. A call fails with an error that needs the kill switch ("cut") or
one that does not ("plain"); both are always possible. The gateway's three calls
and a VM's start or destruction are single steps here; `Gateway` and
`VmController` take them apart. `engage_killswitch` and the controller's own
fail-closed path always record the switch as engaged (they do in the code even
if nft fails). A poisoned mutex is left out: nothing panics while holding it.
The token comparison of `release_lock` and its removal are one step; `ProfileStore`
takes them apart. `touch_launch` has no effect on anything here. Proxy mode, engine
and user-data path are data.

### Gateway

One controller, callers that make its calls in an order the configuration of the
model allows (`MayFollow`): any order, or the daemon's own (configure, apply,
engage). A method reads the record, runs nft, and writes the record in separate
steps, as the mutex is not held across an await. `kernel` is the loaded table:
`Absent`, the total `Block`, or the rules of a policy, identified by the mode it
came from and whether `validate()` accepts it. `missed` remembers that nft could
not load the block the last time it was tried, the one excuse `EngagedIsCut` allows.
`ret` is what a method owes its caller: `fail_closed` cuts first and returns its error
afterwards, `tunnel_status` on a failed tunnel cuts and still answers with the status, and
`release_killswitch` validates the stored policy again before it loads it.
`health()` and `killswitch_state()` only read.

### Firewall

What `render_nftables` and `render_killswitch` write, for any policy. A packet is who
sends it, where it goes, its address family, protocol, port and whether its connection is
known; a rule is the set of packets it matches with a verdict, a chain a sequence of rules
of which the first match decides; `Fate` takes a packet through the redirects and then
through the chain that is hooked where it goes. Addresses and interface names are cut down
to the places the rules tell apart. `Gateway`'s `OnlyTunnelPaths` asks it what the table
that is loaded lets through, so that TLC evaluates the chains for every policy the
controller can come to load.

### ProfileStore

One profile: directory, `profile.json`, `profile.lock`, and the tasks that use
them, by file operation, with crashes. Metadata is the set of edits it contains.
Tokens are fresh, so a lock file is identified by its creator. `write_guard` is
modelled as held from the first to the last step of update, touch_launch and delete.

### Updates

`CheckUpdate` and `ApplyUpdate`. A command line checks what is published and sends it back
in a second request; other clients send a manifest of their own. The handler verifies it,
then `apply` installs artifact by artifact. File contents are `<<manifest, artifact>>`
pairs, `Torn` or `None`. Every fetch may return other bytes than the last. Each file
operation is a step and may fail if `Faults` says so, the rollback's own included, which
are at most logged; `left` is history, the paths on which the rollback has failed. A crash
loses the requests under way and keeps the files. The daemon sets no install directory, so an
artifact goes to a path relative to the directory the daemon was started in; a path is a model value here.

### VmController, Domain

One VM: the controller's entry, libvirt's domain (defined, running, both, or
running without a definition), the overlay. Each command is a step between two
accesses to the entry, and may fail if `MayFail` says so; "stat" stands for the look whether
the overlay exists, whose failure the code takes for its absence (`lib.rs:376, 395`).
`provision` takes any request: what it validates, the overlay it creates or reuses, and the domain it defines are in `Domain`, where a request is hardened or
lacks one guarantee and the XML is reduced to its interfaces, the mode of its root disk and
the kinds of its devices.

### Preflight

One session, from its preflight on, with the network around it. A guarantee (six of
them; the public IP counts for two) holds or not and may change at any time. The
auditor measures the checks one after the other in the order of `run_preflight`; a
probe tells the truth about the moment it runs or cannot run. `held` remembers what
held when it was measured, which is all a measurement can show: that the guarantees
hold *together* at one moment is more than six probes in a row can establish, and is
not claimed. The orchestrator's record of the result, the gate, the launch, a stop and
the five reads of `GetDiagnostics` are steps of their own. In this build the probe
behind the auditor returns `Unsupported` for every measurement, so of the behaviours
modelled a daemon built from this commit shows those in which each full-VM preflight
fails; the model keeps the probe open, as the trait does. The `health()` call between
two reads, and the firewall item taken from it, are left out.

A reader asks for diagnostics, and also for the lists of profiles and sessions; what it shows
of the replies is in `Views`.

### Views

The protocol, as far as somebody relies on it: the kind of reply each request gets, the
requests each command of the command line and each screen of the manager makes and the
kinds of reply each of them accepts (`CliRequests`, `CliReads`, `ManagerRequests`,
`ManagerReads`); the checklist with its aggregate; and the rows, badges, verdicts and exit
codes that the clients make of a session. The manager works the aggregate out again from
the reports it is sent, and drops the evidence; `SafeIsEarned` is about what is left.

### Ipc

One accept loop, connections made by `IpcClient` and by anybody else, on the Unix
listener (which authorizes from the peer's uid) or the TCP one (which waits for a
handshake inside the loop). A frame is two pieces of length and one of body, so that a
stream can end inside a header, between header and body, or between frames; a body has
a length and decodes or not. Each accepted connection has a task: `ReadHeader`,
`ReadBody`, `Handle`, `WriteReply`. Any peer may leave at any time, and the daemon may
end at any time. What the handler does is in the other modules; here `handled` is the
list of calls it has carried out. The initial state, next-state relation and type
invariant are called `ChannelInit`, `ChannelNext` and `ChannelTypeOK`, so that `AnswerProofs`
can speak of the channel and of `Preflight`, whose answers it carries.

### HostRunner

The runner's map of child processes, keyed by pid. `spawn` and the insertion into the
map are separate steps, as are removal from the map, `try_wait` and `kill` in `stop`,
because the mutex is released in between. A process is live, exited or reaped; the system
may use the pid of a reaped one again, while its entry stays in the map.

### Launch

How the choices of a user become a running browser's settings. A profile is created by
either client (`Forms`), patched, and started; a start reads it, is gated by the live
enforcement policy, resolves its route, renders the launch for Chromium or Firefox (whose
`user.js` is written before it starts) and launches; meanwhile the policy is edited, by the
command line in two requests, by the manager with the three switches as its page shows them.
`wish` and `asked` are history: what the owner last asked of the profile, and the flags
somebody has moved. The rendering is `ChromiumSwitches`, `ManagedPolicies` and
`Preferences`, cut down to the settings a policy decides. What a start has rendered and
vetted (`told`) is not what the process gets (`process`): `LaunchSpec` passes the command line
and the environment, Firefox finds its preferences in `user.js`, and Chromium's managed
policies go no further. The properties are about `process`. `SiteSettings` is what a site
gets from it: Firefox and a host Chromium ask, and Chromium in a guest has the fixed file
that the image's first boot installs, always the strict one, as nothing writes the
`session.env` it reads the level from. Fingerprint fields that no backend
renders (canvas, timer precision, hardware_concurrency) are left out of it, although the
preview shows them.

### Profiles, Forms

`Profiles` holds the values: fingerprint policies and the four presets with their
validation, permission tables, network configurations, and the `ProfileSpec` with what makes
it acceptable. A name or a host is a text of which only trimming and emptiness matter.
`Forms` is `build_spec` of the command line (`CliSpec`) and `to_spec` of the manager
(`ToSpec`). The two differ where a text is padded or blank (the manager trims a host and a
bridge line, the command line only asks whether the host is blank), and only the manager
refuses a VPN and the port 0. `ClientsAgree` says that everything else means the same. The
card "Compatibility" is the one that does not send the preset it is named after: its timer
precision is not among the fields of the form, so the profile gets 100 microseconds instead
of 20.

### Wiring

What a daemon takes from its host when it starts: its configuration file with defaults
(`LoadConfig`; a file that cannot be read is an error, although the comment at
`aegis-daemon/src/config.rs:4` says that defaults are used), the first browser binary for
each engine (`Binary`: on Windows every application is looked for under one root before the
next root, on unix every name in `PATH`), the proxy that stands for Tor, whether the update
client is configured, and the address it listens on. `CliDials` and `ManagerDials` are the
addresses the clients try, and `Meets` says whether a client that dials one finds a daemon
that listens on the other. The clients' defaults off unix differ (port 7690 and port 7420),
a host name as the endpoint is resolved by the command line only, and the "daemon's
configured socket path" of `apps/cli/src/cli.rs:31` is a fixed default: a daemon whose
configuration names another socket is found only by a client that is told so.

The modules `MCSessions`, `MCGateway`, `MCUpdates`, `MCIpc` and `MCLaunch` give the
constants their values; `ProfileStore`, `VmController`, `Preflight` and `HostRunner` are
checked directly. `MCLaunch` also has TLC evaluate, as assumptions, the statements about
pure functions that `LaunchProofs` proves for every input: `FormsHold`, `HostsHold`,
`MeetingsHold`.

How the modules fit together: `Sessions` uses the others' operations as single steps
that succeed or fail, and the other modules take one of these steps apart: `Gateway`
(with `Firewall`) the three gateway calls, `VmController` (with `Domain`) provision, start
and destroy, `ProfileStore` the lock, `Preflight` (with `Views`) the step `RunPreflight`,
`HostRunner` `Launch`, `CheckAlive` and `TerminateBrowser` of host sessions, `Launch` (with
`Profiles`, `Forms`, `Wiring`) what is launched. `Ipc` shows that a
request reaches the handler at most once, which is why a start is one task in
`Sessions`.

Operators whose names end in `_<Fault>` (for instance `KeyFails_KeepsLock`) are
faulty versions of the definition they are named after. They belong to no
next-state relation: each is what a plausible mistake in that code would look
like, and `PROJECT.json` pairs it with the property that detects it.

## 3. What the runs show

Runs that must pass:

| Run | Instance | Shows |
|---|---|---|
| SessionsRace | one full-VM session, two stoppers that may stop it while it starts, two failed calls, fairness; 92 thousand states | `BrowsingIsIntact`, `BrowserOnlyAfterPreflight`, `LockHasOwner`, `StartReturns`, `StoppedStaysDown` hold however stops race the start |
| SessionsOrderly | one full-VM session and two host sessions of a second profile, one stopper, stops after the start has returned, one failed call; 3.4 million states | `BrowsingIsIntact`, `LockHasOwner` of sessions that compete for a lock, `EndedIsClean`, `OneBrowserPerProfile`, `KeepsPromise` |
| GatewaySerial | one caller, two modes, any order of calls, sound and unsound policies, all failures | `RecordTellsKernel`, `ErrorEngages`, `OnlySoundRules`, `OnlyTunnelPaths` |
| StoreCalls | three sessions, one releaser, one editor, one delete, one lister, one crash; 3.0 million states | `HeldMeansLocked`, `NoLostEdit`, `MetaIsWhole`, `DeletedStaysGone` |
| UpdateSerial | a request of any client and a command line's check and apply, one after the other; three artifacts; an older, a newer and an unsigned release; every disk failure but that of looking whether a file exists, those of the rollback included; one crash | `PreviousRetained`, `RolledBackIsPrevious`, `AppliedIsWhole`, `OnlySignedInstalled` |
| VmRace | two callers whose calls overlap, every request, every command may fail (but not the look at the overlay) | `ReportIsTrue`, `DomainIsConfined`, `ProvisionAnswersTrue` |
| PreflightGate | one session of either kind, two changes of the network, one stop, one reader of diagnostics, profiles and sessions; 4.6 million states | `ActiveIsMeasured`, `RunsBehindGate`, `AnswerAgrees`, `GreenIsEarned`, `SafeIsEarned` |
| IpcChannel | one client with two calls, one other peer, both listeners, fairness | `AtMostOnce`, `ReplyIsToThisCall`, `CallsReturn`, `UnixServesEverybody` |
| HostChildren | three sessions, two pids that are used again | `NoOrphan`, `StoppedIsDead` |
| LaunchSettings | a profile of either client, each isolation, level and engine, patches of network, level and table, a command line and the manager editing the policy at once; 1.0 million states | `ExposesNoMore`, `RoutedAsProbed`, `AsAsked` |

SessionsRace also checks the type invariant of `Sessions`; those of `Gateway`,
`ProfileStore` and `Preflight` are proved (section 4).

Two runs end in a counterexample, against statements the repository makes (quoted in
`PROJECT.json` under "findings"):

| Run | Refuted | What happens |
|---|---|---|
| SessionsEagerLeak | `DestroyedLeavesNoVm` | A stop snapshots the entry of a full-VM session while its start is under way. The VM that the start provisions and records afterwards is cleared from the entry by the teardown's last step without being destroyed, and the session is Destroyed. |
| LaunchPolicies | `PoliciesAreApplied` | A host Chromium is started with its command line; the managed policies of the same bundle (location, capture, notifications, devices) are delivered by nothing, although `src/docs/architecture.md:438-439`, `aegis-core/src/browser.rs:75` and `src/browser/policies/README.md:111` say they are applied. |

Further configurations are kept for the reader and run by hand. Each refutes the
property it names, or, where it lists several, whichever one is not commented out:

| Configuration (module) | Refuted | What happens |
|---|---|---|
| SessionsDoubleStop (MCSessions) | `OneBrowserPerProfile` | the second of two stops finds no handle, releases the lease while the first still waits for the browser's end, and the profile starts again |
| SessionsEagerFinal (MCSessions) | `DestroyedIsFinal` | a start that fails after a stop has finished turns Destroyed into Failed (1088 bypasses `transition`) |
| SessionsRearm (MCSessions) | `CutWhileGatewayRuns` | a second session's `apply_firewall` re-arms the switch the first one's failure engaged; `src/firewall/README.md:107-109` says of it "Never released implicitly" |
| SessionsHostOpen (MCSessions) | `DirStaysUnderBrowser` | a stop of a session that was stopped before removes the dir the profile's next session is using |
| | `BrowsingIsActive` | host mode reaches Browsing with protection Partial; `src/docs/data-flow.md` says only Active permits browsing |
| GatewayRace (MCGateway) | `EngagedIsCut` | one session's block is loaded, another's rules are loaded over it, then both records are written, "engaged" last |
| GatewayRoute (MCGateway) | `RouteIsTheProfiles` | two profiles with different modes: the last `configure` wins for both |
| GatewayOpen (MCGateway) | `NothingForwarded` | the forward chain accepts the browser subnet's ICMP, its TCP outside Tor mode and, in Tor mode, its TCP packets without SYN, whichever interface they leave by; `render.rs:105` says only the way toward the tunnel is permitted |
| GatewayUnwatched (MCGateway) | `FailedTunnelIsCut` | nothing calls `tunnel_status` after a start, so a tunnel that fails later is not cut by the daemon |
| StoreOpen (ProfileStore) | `NoTheft` | two releases of one lease: the second removes the next holder's lock |
| | `LockedMeansHeld` | a lock file survives the daemon |
| | `LeaseIsLock` | `delete` does not look at the lock |
| | `ListSurvives` | corrupt metadata fails the whole listing, although a comment says it is skipped |
| UpdateOlder (MCUpdates) | `NeverOlder` | two command lines have both checked what they apply, and the older release is applied last: neither the check (against the version the client was built as) nor the apply (against 0.0.0, `handler.rs:213`) compares with what is installed |
| UpdateOpen (MCUpdates) | `AppliedIsWhole` | two overlapping requests use the same backup and temporary names |
| | `StillInstalled` | a crash between the two renames leaves a file missing |
| VmOpen (VmController) | `DestroyedIsOff` | a destroyed VM's power-off failed without being reported; with overlapping calls and no failure, a start slips in between power-off and undefine |
| | `NoOrphanOverlay` | `provision` forgets the overlay when `virsh define` fails |
| | `ReportIsTrue` | with "stat" among `MayFail`: a look at the overlay that fails counts as "shredded", and the file is still there |
| PreflightOpen (Preflight) | `EndedShowsNone` | teardown leaves the record of the preflight (`orchestrator.rs:1086-1093`), although `preflight.rs:157` says of None that there is no gateway and no tunnel |
| | `AllSixMeasured` | whether the WebRTC policy is installed is a constant (`orchestrator.rs:619`), so "all six guarantees were positively measured" (`network-audit/src/lib.rs:26-28`) holds of five |
| | `BadgesAgree` | the manager drops the aggregate recorded for a host session and shows "none" where the command line shows "partial" |
| | `NoAddressAtRest` | an ended session stays listed with its public IP, and its profile's row shows it although `dto.rs:50` says there is none at rest |
| | `DoctorMeasures` | the self-test looks at constants only, and passes with exit code 0 |
| IpcOpen (MCIpc) | `ClosedIsClean` | a stream that ends inside a header is reported as closed at a frame boundary (`frame.rs:104`) |
| | `EverybodyServed` | a peer that never completes the TCP handshake holds up the accept loop (`transport.rs:328`, against `server.rs:83-84`) |
| HostPidReuse (HostRunner) | `OwnBrowserOnly` | the entry of a reaped child stays in the map and its pid is used again: the old session's stop takes the new session's browser |
| LaunchOpen (MCLaunch) | `RunsAsPreviewed` | a launch takes the protection level's policy, not the profile's resolved one that the preview shows (`orchestrator.rs:850`, `profile.rs:98`); a full-VM session always runs Chromium |
| | `FirefoxObeysTable` | Firefox's preferences do not read the permission table, although `firefox.rs:20` says they derive from it |
| | `SpeaksProxysProtocol` | an HTTP proxy is configured in Firefox as SOCKS 5 |
| | `StatusIsTrue` | the level the status shows for the policy (`config.rs:136`) is not what a profile's session gets |
| | `NoVpnWithoutEndpoint` | a VPN profile without an endpoint runs, although `apps/cli/src/main.rs` says the daemon answers with an error |
| | `NothingRelaxedUnasked` | with `FirstPanel <- OnBlank`: switches that were never loaded are sent as they stand |
| | `UntouchedFlagsStay` | a command line sends back a copy it has read before, and undoes what another client has changed since; `apps/cli/src/main.rs:581-582` says "it never blindly overwrites flags the user did not touch" |
| | `OneFlagAtATime` | flipping one of the manager's switches also sends its stale copies of the others |
| | `ReductionIsWarned` | the command line compares the reply with the copy it has read, not with the policy it has replaced |

### Bounds

* Two sessions of a profile are the least that compete for a lock, and SessionsOrderly
  has them, with a third of another profile, because the only things sessions of
  different profiles share are the gateway and the bound on failures. Sessions started for
  one profile are interchangeable, hence the symmetry. SessionsRace has one session, and two
  stoppers, since what a stop can overtake is its own session's start and another stop; that
  this changes nothing for other sessions is what `BrowsingSafe`, `BrowsersAreCleared` and
  `LocksAreOwned` prove for any number of them.
* One stopper suffices in SessionsOrderly, where a second would break `OneBrowserPerProfile`
  (SessionsDoubleStop); a stopper starts over when it is done.
* `MaxBotched` bounds how many releases and writes of a token fail. Properties that such a
  failure breaks by design name it (`LostTrackOf`), so one failure next to otherwise working
  calls is the case that matters.
* `EagerStop` separates clients that wait for the reply to a start from clients
  that act on the session list. `EndedIsClean` is checked for the former; for the
  latter SessionsEagerLeak refutes it.
* Two callers of the gateway and of the VM controller, three sessions and one
  crash in the store, two requests and one crash in the updater: everything these
  modules do is between two actors and one interruption. Three artifacts allow a
  failure before, at and after an artifact, including one that was not installed
  before.
* UpdateSerial leaves out two things on purpose: a failing look whether a file exists (which
  the code treats as "no such file", so that it keeps no backup) and overlapping requests; with
  either the rollback's promise is gone, and UpdateOpen shows the second. Its three signed versions
  stand on either side of what is installed and of what the command line was built as.
* Preflight follows one session, since sessions share nothing of the gate; two changes
  of the network are enough to make a guarantee fail after it was measured and recover,
  or fail before and recover after. More readers only repeat the first.
* IpcChannel: connections share only the accept loop, so one client and one other peer
  show every way in which a peer can stand in another's way; two calls show that the
  second exchange does not see the first, `MaxFrame` 1 that a frame at the limit passes
  and one above it does not.
* HostChildren has more sessions than pids, so that a pid must be used again.
* LaunchSettings: one session at a time, since two starts share no more of this pipeline
  than a profile that others edit; the table a patch may set differs in each feature from
  the default. `Given` has command lines with one flag and with two; one command line and
  the manager are two stale copies of one policy. `FirstPanel` starts the manager's switches
  from a fetched status. `Host` has a binary of each engine and `ConfigFiles` a missing, a
  broken and a relaxing file, because what a richer host changes is settled by the
  assumptions `HostsHold` and `MeetingsHold`, over hosts with any two of the files that are
  looked for and over daemons and clients that are told different sockets, ports and tokens.

A behaviour may end: when every request has been made and answered nothing more
need happen. Configurations of models where this can occur therefore switch the
deadlock check off, and so do those of `VmController`, whose system stops when `provision`
refuses or fails; the gateway and launch configurations keep it.

### Fairness

SessionsRace, IpcChannel, GatewayUnwatched and IpcOpen use fairness. In `Sessions` it is
weak fairness of `StartStep(s)` and `Teardown(t)`: once a request was taken up, tokio
polls its task as long as it can run, and every awaited call returns (external commands
end, with or without an error). No fairness is assumed of clients (`Begin`, `BeginStop`)
nor of the browser, nor that a call succeeds rather than fails. In `Gateway` likewise for
the steps of a call that was made. In `Ipc` the accept loop and the connections' tasks
are fair for the same reason, and `IpcClient::call` goes on once it has begun unless its
process ends; nothing is assumed of other peers, of when a client makes a call, or of
the daemon staying up.

## 4. What is proved

Eight modules of proofs are checked by TLAPS. A theorem holds for every value of the
constants that satisfies the named assumptions of its module (`SessionsAssumption`,
`GatewayAssumption`, `MovesAssumption`, `RunnerAssumption`, `StoreAssumption`,
`UpdatesAssumption`, `VmAssumption`, `TablesAssumption` and the like), which say that
different things have different names and that sets and functions are of their kinds, and
under the conditions given below.

**Sessions.** For any number of sessions, profiles, stoppers and failed releases, eager or
not:

* `SessionsType` (`TypeOK`: only a teardown holds resources, and a stopper has a session
  exactly while it takes it apart), `BrowsingSafe` (`BrowsingIsIntact`), `BrowsersAreCleared`
  (`BrowserOnlyAfterPreflight`), `LocksAreOwned` (`LockHasOwner`).
* `DownForGood`: an ended session has given its lock back, and once a session is `Down`
  (ended or being torn down, without its profile's lock) it stays down, however late its start
  comes home and whoever stops it again. This is the safety half of `StoppedStaysDown`; by
  `DownOnceIsEnough`, what is left of that property is that a stop gets there once.
* Where clients stop a session only once its start has returned (`~EagerStop`;
  SessionsEagerLeak shows why): `ImplementsLifecycle` (`KeepsPromise`, the refinement of
  `SessionLifecycle`) and `EndedLeavesNothing` (`EndedIsClean`); with one stopper
  (SessionsDoubleStop shows why) also `SoleBrowser` (`OneBrowserPerProfile`).

`BrowsingIsIntact` is not inductive: what a Browsing session has was acquired at
earlier stations of its start, and it still has it only because no teardown has begun
in between. The inductive invariant `IInv` is `TypeOK`, `StopperInv` and `SessionInv(s)`
for every session. `StopperInv` says that a session a stopper works on is in closing,
destroyed or failed; none of them has an edge up, so the start that was overtaken fails
at its next `transition`. A session is `Undisturbed` as long as it is in none of these
states and its own start has not failed. `StationInv` ties the start's station to the
table entry (no entry before `Register`; Browsing only past the last transition).
`LockInv` says that the lock belongs to an undisturbed session from `AcquireLock` on.
`ResourceInv` says that an undisturbed session still has everything its start had
acquired by the station it has reached. That a teardown disturbs no other session's lock is
where the token comparison of `release_lock` is used.

The other theorems add to it. `LaunchInv` and `HeldInv`, inductive without the rest, follow
the start's stations whatever a stop does to the entry: a preflight precedes a launch and the
gateway's VM the preflight, and only what was launched can be terminated. `OwnerInv` says that
the lock is free, or `Blank` because a token could not be written, or its release has failed,
wherever nobody is left to release it;
`EndedInv` that this is so of every ended session, whose start, if it is still on its way,
is past `acquire_lock` and finds no edge up.
`OrderlyInv` says that a stop and its start never overlap; with it every step is a step of
the abstract life cycle or changes neither state nor lock. `TrackInv` says that what a session
has is in its entry or in the hands of a teardown, or was released, or its release has failed:
this is what breaks when a stop takes its snapshot while a start still records. `SoleInv` says
that the session of a live browser holds its profile's lock: the one teardown that releases
the lock has, by `TrackInv`, nothing left in its hands. In every proof an action has a lemma or
a step of its own, and under it one step for each conjunct that the action can disturb.

**Gateway.** For any callers, overlapping in any way, in any order of calls: `GatewayType`,
`GatewaySound` (`OnlySoundRules`), `ErrorsEngage` (`ErrorEngages`). For one caller at a time:
`RecordIsTrue` (`RecordTellsKernel`; GatewayRace shows why). They rest on the fact that
whatever a caller carries to nft or the record stores has passed `validate()`, and that a
configuration, once stored, is never unset; `RecordIsTrue` also on `CallInv`, which says at
each station of a call how far record and kernel are apart.

`TunnelPathsOnly` (`OnlyTunnelPaths`), for any callers, follows from the first of these and
from `SoundRulesTunnel`, a statement about the renderer alone: what the table of any sound
policy does with any packet. It is proved from the shape of the chains, not by enumeration. A
verdict is that of the first rule whose fields match (`FirstMatchDecides`, by the
well-foundedness of the natural numbers), and `VerdictRule`, `IfVerdict` and `ConcatVerdict`
give it for one rule, a group of rules that a policy may leave out, and two groups after one
another; with them `PreroutingVerdict`, `InputVerdict` and `ForwardVerdict` turn each chain
into one condition on the packet, and `SoundFate` sends a packet through the redirect and
then through the chain of where it leads to.

**Ipc** (in `AnswerProofs`). For any number of clients and strays, any limit on a frame and
any number of calls: `ChannelType`, `CarriedOutOnce` (`AtMostOnce`), `OwnReply`
(`ReplyIsToThisCall`), and two properties that no run repeats, `WholeRequests`
(`OnlyWholeRequests`) and `WriterFits` (`WriterFitsReader`). Neither of the first two is
inductive: that a request is not carried out again depends on every piece between the peer
and the handler. `ChannelInv` says of each peer:

* `HelloInv`: before a connection is served nothing was read of it, and over TCP nothing
  was sent but the handshake.
* `FlowInv`: from the piece the server has read last, over those on their way, to the one
  the peer is about to write, each piece is the next part of the same frame, or the first of
  a later call's (`Follows`). A reader is therefore always at the part it expects, although a
  connection may end between any two.
* `HandledInv` and `GotInv`: what has been carried out is older than the request at hand,
  every reply on its way belongs to it, and what a client has received is older than its call.
* `ExchangeInv`, of clients only: one exchange at a time lies between client and server, its
  pieces counted (`sent` and `replied` say which are where). A stray, which does not wait for
  replies, does not keep it.
* `WholeInv`: past its header a frame is known to fit, past its body to decode, and those of
  an `IpcClient` do from the start.

**ProfileStore.** For any tasks and any number of crashes: `StoreType`, `NoEditLost`
(`NoLostEdit`), `MetaStaysWhole` (`MetaIsWhole`), `DeletedForGood` (`DeletedStaysGone`). For
releases made one at a time, as long as nobody deletes the profile: `LeaseIsExclusive`
(`HeldMeansLocked`, and that no two sessions hold the lease; StoreOpen's `NoTheft` shows
why). `StationInv` gives `write_guard` to exactly the task between its first and last step;
`EditInv` says that an edit that has the guard works on what the metadata still is; `DirInv`
that a directory, once gone, has nobody left who would write into it; `LeaseInv` that the
session about to write its token, the holder and the one whose lease is being returned are
the one whose file it is.

**Updates.** `OnlySigned` (`OnlySignedInstalled`) for requests that do not overlap, whatever
fails; `PreviousKept`, `RollbackIsExact` and `ApplyIsWhole` (`PreviousRetained`,
`RolledBackIsPrevious`, `AppliedIsWhole`) under `Serial`, `OwnPaths` (no two artifacts of a
manifest share an install path) and `SureDisk` (looking whether a file exists does not fail;
everything else may), for any manifests and any number of requests and crashes. The invariant
says of every path of an apply under way that it holds what was there (`Kept`), that it
has not been reached (`Untouched`), or that it holds the new content with the old in its
backup (`Written`), or that the rollback has failed on it and it is one of `left`, with the
old content in its backup; a rollback goes through the records backwards and turns one into
another.

**VmController.** `ReportsAreTrue` (`ReportIsTrue`), `DomainsAreConfined` (`DomainIsConfined`),
`ProvisionIsHonest` (`ProvisionAnswersTrue`), for any callers and failures, calls overlapping;
the first where the look at the overlay does not fail (`SureLook`; VmOpen shows why).

**Preflight.** `ActiveMeasured`, `GateHolds`, `AnswersAgree`, `GreenEarned`, `SafeEarned`: the
five properties of PreflightGate, for any number of readers and of changes of the network;
and `RepliesAreUnderstood`: every command and every screen accepts the reply each of its
requests gets. They share one inductive invariant. `AuditInv` says that a
check that passed was measured and held then; `GateInv` that past the gate every probed
guarantee had been measured; `EntryInv` that the entry's aggregate, checklist and address
come from one complete preflight, which is what makes them comparable; `ReadInv` that a
request that has read "active" will find the reports of the same preflight. The last one
is where the order of reads matters: the aggregate is read first, and once it is active
neither it nor the checklist changes again.

**HostRunner.** `Reachable`, `StopKills` (`NoOrphan`, `StoppedIsDead`), for any sessions and
pids, used again or not. `PidInv` says that a process which is not reaped keeps its pid to
itself, so that the insertion of a new child can only overwrite the entry of a reaped one;
`MapInv` that map, handle and token lead to browsers whose start has inserted them, that a
teardown works on its session's own pid, and that what it has taken out of the map does not
come back.

**Launch and the pure functions.** `NothingMoreExposed` (`ExposesNoMore`) and `ProbedIsUsed`
(`RoutedAsProbed`), for any forms, patches and tables: `PipelineInv` says that what a start
carries was made of the profile it has read, not of the one that is stored by now, and that
the process runs with what was rendered, but for the managed policies (`ProcessIsTold`).
`NothingMoreExposed` is therefore about WebGL, WebGPU, sensors and USB, which a command line
or `user.js` can close, and claims nothing of the permission table.
`UnaskedNeverRelaxed` (`NothingRelaxedUnasked`, which no run repeats: a flag is secure as long
as nobody has ever asked to relax it) for any number of command lines, if the
manager's switches show the secure defaults at first; from it, under the same condition,
`RunsAsAsked` (`AsAsked`), for any forms that clap lets through (`CliFormsAssumption`):
`WishInv` says that a start carries what was asked of the profile it has read, and that past
the gate a host start has been allowed by an edit somebody made. For every input: `OneMeaning` (both
clients make the same profile of the same choices), `FormsFailClosed` (an unknown word selects
the strict alternative or is rejected), `CardsArePresets` (all but "Compatibility"),
`TorBrowserIsPreferred` and `RunsInstalled` (what is wired is the first binary the search
comes to, and is there; that there is a first place is the well-foundedness of the natural
numbers), `OnUnixTheyMeet`, `ElsewhereTheyPart`, `ToldAlikeTheyMeet` (who finds the daemon).

Only model-checked: liveness (`StartReturns`, `StoppedStaysDown`, `CallsReturn`,
`UnixServesEverybody`), which together with `ENABLED` is beyond the prover; of
`StoppedStaysDown` only that a stopped session gets down once, not that it stays. Every other
property of a passing run is a theorem. No theorem needs induction over data: none of the
modules computes by recursion.

## 5. What is not modelled

* The audit log: it is written and never read, and a failed write is ignored.
* Cryptography (`secure-storage`): of it the daemon calls only `generate_key`, whose failure
  is in `Sessions`. The signature check of an update is a set of signed manifests.
* Probes, transports and commands as I/O: what they may answer is the environment's choice.
* Images, guest assets, browser patches and packaging, but for the policy file a guest boots
  with (`SiteSettings`).
* Fixed switches, preferences, rules and XML elements that no policy decides; the wording and
  layout of output, translations, the manager's page beyond its form and switches.
* Grants of a permission to a single site: no request makes one.
* The start of a daemon after a crash: it has no recovery, which is why the crash of
  `ProfileStore` and `Updates` leaves the files as they are.

## 6. Plan

Done: all modules of section 2 and the theorems of section 4. What is left:

1. Composition: `Gateway` in place of the single steps of `Sessions`, with two sessions on one
   controller (the races themselves are in GatewayRace and SessionsRearm).
2. Liveness stays with TLC.
