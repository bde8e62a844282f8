------------------------------ MODULE Sessions ------------------------------
(***************************************************************************)
(* The session machine of the daemon's orchestrator.                       *)
(*                                                                         *)
(* The IPC server runs every request as a task of its own over one shared  *)
(* orchestrator, so start_session and stop_session interleave wherever one *)
(* of them awaits. A session s is started by the task s itself; a stopper  *)
(* is a connection that may ask, again and again, for a session to be      *)
(* stopped. An action is the code between two awaits (or between two       *)
(* acquisitions of the table mutex), together with the effect of the       *)
(* awaited call it ends with.                                              *)
(*                                                                         *)
(* Calls to the VM controller, gateway, auditor, browser and store either  *)
(* succeed or fail; a failure is "cut" when Error::requires_killswitch     *)
(* holds of it and "plain" otherwise.                                      *)
(***************************************************************************)
EXTENDS SessionStates, Naturals, FiniteSets

CONSTANTS
    Sessions,       \* ids of the sessions a behaviour may start
    Stoppers,       \* connections that issue stop_session
    Profiles,
    ProfileOf,      \* the profile each session is started for
    HostProfiles,   \* profiles with IsolationLevel::HostProcess
    Ephemeral,      \* profiles whose host user-data dir is disposable
    EagerStop,      \* may a client stop a session whose start has not returned?
    MaxBotched,     \* bound: how many releases and writes of a token fail
    Free,           \* the lock of a profile nobody holds
    Blank           \* a lock file whose token was not written: nobody's

ASSUME SessionsAssumption ==
    /\ ProfileOf \in [Sessions -> Profiles]
    /\ Sessions \cap Stoppers = {}
    /\ Free \notin Sessions /\ Blank \notin Sessions \cup {Free}
    /\ HostProfiles \subseteq Profiles
    /\ Ephemeral \subseteq HostProfiles
    /\ EagerStop \in BOOLEAN
    /\ MaxBotched \in Nat

VARIABLES
    state,       \* SessionEntry.state, "absent" before the entry is inserted
    refs,        \* what the entry refers to: VM ids, browser handle, host dir
    protection,  \* SessionEntry.protection
    lock,        \* the profile's lock file: whose lease token it contains
    vm,          \* the VMs themselves
    browser,     \* the browser process of each session
    dirs,        \* profiles whose host user-data dir exists
    killswitch,  \* KillSwitchState of the one gateway all sessions share
    pc,          \* where each task is
    job,         \* the session a stopper is stopping
    held,        \* teardown's snapshot: what is left for it to release
    err,         \* class of the error that ended a start
    botched      \* release calls, and writes of a token, that failed

tableVars == <<state, refs, protection>>
worldVars == <<lock, vm, browser, dirs, killswitch, botched>>
taskVars  == <<pc, job, held, err>>
vars      == <<tableVars, worldVars, taskVars>>

Roles     == {"gw", "br"}
Resources == {"gw", "br", "handle", "dir"}
Outcome   == {"plain", "cut"}
Actors    == Sessions \cup Stoppers

InHost(s) == ProfileOf[s] \in HostProfiles

(* The stations of a task. A station names what the task does next.         *)
Climb == {"provisioning", "gateway-starting", "preflight", "browsing"}
StartStation ==
    {"idle", "acquire", "key", "unlock", "endpoint"} \cup Climb \cup
    {"prov_gw", "prov_br", "configure", "firewall", "start_gw", "start_br",
     "probe", "launch", "check", "touch", "fail_closed", "refused", "done"}
DownStation == {"snapshot", "teardown", "finish"}
Station     == StartStation \cup DownStation

(* The station that follows a transition of the table entry.                *)
AfterClimb(s, next) ==
    CASE next = "provisioning"     -> IF InHost(s) THEN "gateway-starting" ELSE "prov_gw"
      [] next = "gateway-starting" -> IF InHost(s) THEN "preflight" ELSE "configure"
      [] next = "preflight"        -> "probe"
      [] next = "browsing"         -> "touch"

Subject(a) == IF a \in Sessions THEN a ELSE job[a]

Init ==
    /\ state      = [s \in Sessions |-> "absent"]
    /\ refs       = [s \in Sessions |-> {}]
    /\ protection = [s \in Sessions |-> "none"]
    /\ lock       = [p \in Profiles |-> Free]
    /\ vm         = [s \in Sessions |-> [r \in Roles |-> "none"]]
    /\ browser    = [s \in Sessions |-> "none"]
    /\ dirs       = {}
    /\ killswitch = "armed"
    /\ pc         = [a \in Actors |-> "idle"]
    /\ job        = [t \in Stoppers |-> Free]
    /\ held       = [a \in Actors |-> {}]
    /\ err        = [s \in Sessions |-> "none"]
    /\ botched    = {}

Goto(a, station) == pc' = [pc EXCEPT ![a] = station]

(* `?` on an error inside drive_start: the caller runs fail_closed.          *)
Raise(s, class) ==
    /\ err' = [err EXCEPT ![s] = class]
    /\ Goto(s, "fail_closed")

(* A call on a resource fails: a release, which is only logged and leaves    *)
(* the resource as it was, or the write of the lease's token.                *)
Botch(s, resource) ==
    /\ Cardinality(botched) < MaxBotched
    /\ botched' = botched \cup {<<s, resource>>}

-----------------------------------------------------------------------------
(* start_session up to the registration of the session.                     *)

(* profiles.get finds the profile and the enforcement gate lets it through.  *)
Begin(s) ==
    /\ pc[s] = "idle"
    /\ Goto(s, "acquire")
    /\ UNCHANGED <<tableVars, worldVars, job, held, err>>

(* Unknown profile, host mode not allowed, no host backend; or, at the lock, *)
(* Busy or another error of open. Nothing was taken yet.                     *)
Refuse(s) ==
    /\ pc[s] \in {"idle", "acquire"}
    /\ Goto(s, "refused")
    /\ UNCHANGED <<tableVars, worldVars, job, held, err>>

(* Fault: the lock file is created without O_EXCL.                           *)
AcquireLock_Overwrites(s) ==
    /\ pc[s] = "acquire"
    /\ lock' = [lock EXCEPT ![ProfileOf[s]] = s]
    /\ Goto(s, "key")
    /\ UNCHANGED <<tableVars, vm, browser, dirs, killswitch, botched, job, held, err>>

(* Fault: the write of the token is not checked.                             *)
AcquireLock_Unchecked(s) ==
    /\ pc[s] = "acquire"
    /\ lock[ProfileOf[s]] = Free
    /\ \E token \in {s, Blank} : lock' = [lock EXCEPT ![ProfileOf[s]] = token]
    /\ Goto(s, "key")
    /\ UNCHANGED <<tableVars, vm, browser, dirs, killswitch, botched, job, held, err>>

(* FileProfileStore::acquire_lock creates the file (O_EXCL) and writes the   *)
(* token into it. If the write fails, start_session returns that error and   *)
(* the file stays, with no lease that could remove it.                       *)
AcquireLock(s) ==
    /\ pc[s] = "acquire"
    /\ lock[ProfileOf[s]] = Free
    /\ \/ /\ lock' = [lock EXCEPT ![ProfileOf[s]] = s]
          /\ Goto(s, "key")
          /\ UNCHANGED botched
       \/ /\ Botch(s, "token")
          /\ lock' = [lock EXCEPT ![ProfileOf[s]] = Blank]
          /\ Goto(s, "refused")
    /\ UNCHANGED <<tableVars, vm, browser, dirs, killswitch, job, held, err>>

(* Fault: the early return on a missing key forgets the lease.               *)
KeyFails_KeepsLock(s) ==
    /\ pc[s] = "key"
    /\ Goto(s, "refused")
    /\ UNCHANGED <<tableVars, worldVars, job, held, err>>

(* generate_key failed: the lock must not be left dangling.                  *)
KeyFails(s) ==
    /\ pc[s] = "key"
    /\ Goto(s, "unlock")
    /\ UNCHANGED <<tableVars, worldVars, job, held, err>>

Register(s) ==
    /\ pc[s] = "key"
    /\ state' = [state EXCEPT ![s] = "requested"]
    /\ Goto(s, IF InHost(s) THEN "endpoint" ELSE "provisioning")
    /\ UNCHANGED <<refs, protection, worldVars, job, held, err>>

(* Fault: the lock file is removed without comparing its token.              *)
ReleaseLock_NoCompare(s) ==
    /\ lock' = [lock EXCEPT ![ProfileOf[s]] = Free]
    /\ UNCHANGED botched

(* FileProfileStore::release_lock compares the token, so it frees the lock   *)
(* only if it is this session's; an I/O error leaves it in place. (The read  *)
(* and the removal are two steps; module ProfileStore takes them apart.)      *)
ReleaseLock(s) ==
    \/ /\ lock' = IF lock[ProfileOf[s]] = s
                  THEN [lock EXCEPT ![ProfileOf[s]] = Free] ELSE lock
       /\ UNCHANGED botched
    \/ /\ lock[ProfileOf[s]] = s
       /\ Botch(s, "lock")
       /\ UNCHANGED lock

Unlock(s) ==
    /\ pc[s] = "unlock"
    /\ ReleaseLock(s)
    /\ Goto(s, "refused")
    /\ UNCHANGED <<tableVars, vm, browser, dirs, killswitch, job, held, err>>

-----------------------------------------------------------------------------
(* drive_start and drive_start_host.                                        *)

(* Fault: the edge is not checked.                                           *)
Transition_Unchecked(s, next) ==
    /\ state' = [state EXCEPT ![s] = next]
    /\ Goto(s, AfterClimb(s, next))
    /\ UNCHANGED err

(* Fault: an illegal edge is waited out instead of being reported.           *)
Transition_Waits(s, next) ==
    /\ next \in AllowedNext[state[s]]
    /\ state' = [state EXCEPT ![s] = next]
    /\ Goto(s, AfterClimb(s, next))
    /\ UNCHANGED err

(* Orchestrator::transition: check the edge and take it, under the mutex.    *)
Transition(s, next) ==
    IF next \in AllowedNext[state[s]]
    THEN /\ state' = [state EXCEPT ![s] = next]
         /\ Goto(s, AfterClimb(s, next))
         /\ UNCHANGED err
    ELSE /\ Raise(s, "plain")
         /\ UNCHANGED state

ClimbTo(s) ==
    /\ pc[s] \in Climb
    /\ Transition(s, pc[s])
    /\ UNCHANGED <<refs, protection, worldVars, job, held>>

(* host_backend_for and host_proxy_endpoint: a VPN profile is Unsupported.   *)
ResolveEndpoint(s) ==
    /\ pc[s] = "endpoint"
    /\ \/ Goto(s, "provisioning") /\ UNCHANGED err
       \/ Raise(s, "plain")
    /\ UNCHANGED <<tableVars, worldVars, job, held>>

(* Fault: the VM id is not recorded in the entry.                            *)
Provision_Unrecorded(s, role) ==
    /\ pc[s] = (IF role = "gw" THEN "prov_gw" ELSE "prov_br")
    /\ vm' = [vm EXCEPT ![s][role] = "defined"]
    /\ Goto(s, IF role = "gw" THEN "prov_br" ELSE "gateway-starting")
    /\ UNCHANGED <<tableVars, lock, browser, dirs, killswitch, botched, job, held, err>>

(* vm.provision followed by set_vm, which succeeds as long as the entry is   *)
(* in the table, whatever its state.                                         *)
Provision(s, role) ==
    /\ pc[s] = (IF role = "gw" THEN "prov_gw" ELSE "prov_br")
    /\ \/ /\ vm' = [vm EXCEPT ![s][role] = "defined"]
          /\ refs' = [refs EXCEPT ![s] = @ \cup {role}]
          /\ Goto(s, IF role = "gw" THEN "prov_br" ELSE "gateway-starting")
          /\ UNCHANGED err
       \/ /\ \E class \in Outcome : Raise(s, class)
          /\ UNCHANGED <<vm, refs>>
    /\ UNCHANGED <<state, protection, lock, browser, dirs, killswitch, botched, job, held>>

(* gateway.configure: on a failure the controller cuts traffic itself.       *)
Configure(s) ==
    /\ pc[s] = "configure"
    /\ \/ Goto(s, "firewall") /\ UNCHANGED <<killswitch, err>>
       \/ /\ killswitch' = "engaged"
          /\ \E class \in Outcome : Raise(s, class)
    /\ UNCHANGED <<tableVars, lock, vm, browser, dirs, botched, job, held>>

(* gateway.apply_firewall: loads the ruleset and re-arms the kill switch.    *)
ApplyFirewall(s) ==
    /\ pc[s] = "firewall"
    /\ \/ /\ killswitch' = "armed"
          /\ Goto(s, "start_gw")
          /\ UNCHANGED err
       \/ /\ killswitch' = "engaged"
          /\ \E class \in Outcome : Raise(s, class)
    /\ UNCHANGED <<tableVars, lock, vm, browser, dirs, botched, job, held>>

(* vm.start: virsh can start a domain that is still defined.                 *)
StartVm(s, role) ==
    /\ pc[s] = (IF role = "gw" THEN "start_gw" ELSE "start_br")
    /\ \/ /\ vm[s][role] = "defined"
          /\ vm' = [vm EXCEPT ![s][role] = "running"]
          /\ Goto(s, IF role = "gw" THEN "start_br" ELSE "preflight")
          /\ UNCHANGED err
       \/ /\ \E class \in Outcome : Raise(s, class)
          /\ UNCHANGED vm
    /\ UNCHANGED <<tableVars, lock, browser, dirs, killswitch, botched, job, held>>

(* Fault: the checklist is recorded but not acted upon.                      *)
RunPreflight_Advisory(s) ==
    /\ pc[s] = "probe" /\ ~InHost(s)
    /\ \E status \in {"active", "unsafe", "none"} :
          protection' = [protection EXCEPT ![s] = status]
    /\ Goto(s, "launch")
    /\ UNCHANGED <<state, refs, worldVars, job, held, err>>

(* auditor.run_preflight: its aggregate status is recorded in the entry, and *)
(* anything but Active is a containment error.                               *)
RunPreflight(s) ==
    /\ pc[s] = "probe" /\ ~InHost(s)
    /\ \/ \E status \in {"active", "unsafe", "none"} :
             /\ protection' = [protection EXCEPT ![s] = status]
             /\ IF status = "active"
                THEN Goto(s, "launch") /\ UNCHANGED err
                ELSE Raise(s, "cut")
       \/ /\ \E class \in Outcome : Raise(s, class)
          /\ UNCHANGED protection
    /\ UNCHANGED <<state, refs, worldVars, job, held>>

(* The reduced preflight of host mode: the proxy accepts a connection. Only  *)
(* then does the entry learn its mode, and with it the user-data dir.        *)
ProbeProxy(s) ==
    /\ pc[s] = "probe" /\ InHost(s)
    /\ \/ /\ protection' = [protection EXCEPT ![s] = "partial"]
          /\ refs' = [refs EXCEPT ![s] =
                        @ \cup (IF ProfileOf[s] \in Ephemeral THEN {"dir"} ELSE {})]
          /\ Goto(s, "launch")
          /\ UNCHANGED err
       \/ /\ \E class \in Outcome : Raise(s, class)
          /\ UNCHANGED <<protection, refs>>
    /\ UNCHANGED <<state, worldVars, job, held>>

(* render_policy, assert_safe, launch and set_browser_handle. In the guest   *)
(* the browser needs its VM.                                                 *)
Launch(s) ==
    /\ pc[s] = "launch"
    /\ \/ /\ InHost(s) \/ vm[s]["br"] = "running"
          /\ browser' = [browser EXCEPT ![s] = "live"]
          /\ dirs' = IF InHost(s) THEN dirs \cup {ProfileOf[s]} ELSE dirs
          /\ refs' = [refs EXCEPT ![s] = @ \cup {"handle"}]
          /\ Goto(s, "check")
          /\ UNCHANGED err
       \/ /\ \E class \in Outcome : Raise(s, class)
          /\ UNCHANGED <<browser, dirs, refs>>
    /\ UNCHANGED <<state, protection, lock, vm, killswitch, botched, job, held>>

(* is_running: launch must have left a live process.                         *)
CheckAlive(s) ==
    /\ pc[s] = "check"
    /\ \/ browser[s] = "live" /\ Goto(s, "browsing") /\ UNCHANGED err
       \/ Raise(s, "plain")
    /\ UNCHANGED <<tableVars, worldVars, job, held>>

(* Fault: the lease is a guard that is dropped when start_session returns.   *)
Touch_DropsLease(s) ==
    /\ pc[s] = "touch"
    /\ ReleaseLock(s)
    /\ Goto(s, "done")
    /\ UNCHANGED <<tableVars, vm, browser, dirs, killswitch, job, held, err>>

(* touch_launch (its error is ignored) and the summary for the client.       *)
Touch(s) ==
    /\ pc[s] = "touch"
    /\ Goto(s, "done")
    /\ UNCHANGED <<tableVars, worldVars, job, held, err>>

(* Orchestrator::fail_closed: containment and isolation errors engage the    *)
(* kill switch before anything else is released.                             *)
FailClosed(s) ==
    /\ pc[s] = "fail_closed"
    /\ killswitch' = IF err[s] = "cut" THEN "engaged" ELSE killswitch
    /\ Goto(s, "snapshot")
    /\ UNCHANGED <<tableVars, lock, vm, browser, dirs, botched, job, held, err>>

-----------------------------------------------------------------------------
(* stop_session.                                                            *)

Returned(s) == pc[s] = "done"

(* Fault: the teardown starts without the move to Closing.                   *)
BeginStop_NoClosing(t, s) ==
    /\ pc[t] = "idle"
    /\ state[s] # "absent"
    /\ EagerStop \/ Returned(s)
    /\ job' = [job EXCEPT ![t] = s]
    /\ Goto(t, "snapshot")
    /\ UNCHANGED <<tableVars, worldVars, held, err>>

(* The session is known; the move to Closing is attempted and its refusal    *)
(* ignored. A client knows the id from the reply to its start or, earlier,   *)
(* from the session list (EagerStop).                                        *)
BeginStop(t, s) ==
    /\ pc[t] = "idle"
    /\ state[s] # "absent"
    /\ EagerStop \/ Returned(s)
    /\ job' = [job EXCEPT ![t] = s]
    /\ state' = IF "closing" \in AllowedNext[state[s]]
                THEN [state EXCEPT ![s] = "closing"] ELSE state
    /\ Goto(t, "snapshot")
    /\ UNCHANGED <<refs, protection, worldVars, held, err>>

-----------------------------------------------------------------------------
(* teardown, run by a failing start or by a stopper.                        *)

(* The handle is taken, the rest is copied.                                  *)
Snapshot(a) ==
    /\ pc[a] = "snapshot"
    /\ held' = [held EXCEPT ![a] = refs[Subject(a)]]
    /\ refs' = [refs EXCEPT ![Subject(a)] = @ \ {"handle"}]
    /\ Goto(a, "teardown")
    /\ UNCHANGED <<state, protection, worldVars, job, err>>

Dispatched(a, resource) == held' = [held EXCEPT ![a] = @ \ {resource}]

TerminateBrowser(a) ==
    LET s == Subject(a) IN
    /\ pc[a] = "teardown"
    /\ "handle" \in held[a]
    /\ Dispatched(a, "handle")
    /\ \/ browser' = [browser EXCEPT ![s] = "dead"] /\ UNCHANGED botched
       \/ Botch(s, "handle") /\ UNCHANGED browser
    /\ UNCHANGED <<tableVars, lock, vm, dirs, killswitch, pc, job, err>>

(* remove_dir_all on the dir of the profile, whoever is using it.            *)
RemoveDir(a) ==
    LET s == Subject(a) IN
    /\ pc[a] = "teardown"
    /\ "dir" \in held[a] /\ "handle" \notin held[a]
    /\ Dispatched(a, "dir")
    /\ \/ dirs' = dirs \ {ProfileOf[s]} /\ UNCHANGED botched
       \/ Botch(s, "dir") /\ UNCHANGED dirs
    /\ UNCHANGED <<tableVars, lock, vm, browser, killswitch, pc, job, err>>

(* Forced shutdown, then destroy; the browser VM first. A guest's browser    *)
(* goes with its VM.                                                         *)
DestroyVm(a, role) ==
    LET s == Subject(a) IN
    /\ pc[a] = "teardown"
    /\ role \in held[a] /\ held[a] \cap {"handle", "dir"} = {}
    /\ role = "gw" => "br" \notin held[a]
    /\ Dispatched(a, role)
    /\ \/ /\ vm' = [vm EXCEPT ![s][role] = "gone"]
          /\ browser' = IF role = "br" /\ browser[s] = "live"
                        THEN [browser EXCEPT ![s] = "dead"] ELSE browser
          /\ UNCHANGED botched
       \/ /\ Botch(s, role)
          /\ UNCHANGED <<vm, browser>>
    /\ UNCHANGED <<tableVars, lock, dirs, killswitch, pc, job, err>>

(* Fault: the lock is released first, and the rest is forgotten.             *)
ReleaseLease_TooEarly(a) ==
    /\ pc[a] = "teardown"
    /\ ReleaseLock(Subject(a))
    /\ Goto(a, "finish")
    /\ UNCHANGED <<tableVars, vm, browser, dirs, killswitch, job, held, err>>

ReleaseLease(a) ==
    /\ pc[a] = "teardown"
    /\ held[a] = {}
    /\ ReleaseLock(Subject(a))
    /\ Goto(a, "finish")
    /\ UNCHANGED <<tableVars, vm, browser, dirs, killswitch, job, held, err>>

(* The final state is assigned outright, not through transition(), and the   *)
(* references that are in the entry by now are dropped; the mode (and with   *)
(* it the dir) stays.                                                        *)
Finish(a) ==
    LET s == Subject(a) IN
    /\ pc[a] = "finish"
    /\ state' = [state EXCEPT ![s] = IF a \in Sessions THEN "failed" ELSE "destroyed"]
    /\ refs' = [refs EXCEPT ![s] = @ \cap {"dir"}]
    /\ Goto(a, IF a \in Sessions THEN "done" ELSE "idle")
    /\ job' = IF a \in Stoppers THEN [job EXCEPT ![a] = Free] ELSE job
    /\ UNCHANGED <<protection, worldVars, held, err>>

-----------------------------------------------------------------------------
(* Environment: a browser may exit on its own.                              *)
BrowserExits(s) ==
    /\ browser[s] = "live"
    /\ browser' = [browser EXCEPT ![s] = "dead"]
    /\ UNCHANGED <<tableVars, lock, vm, dirs, killswitch, botched, taskVars>>

Teardown(a) ==
    \/ Snapshot(a)
    \/ TerminateBrowser(a)
    \/ RemoveDir(a)
    \/ \E role \in Roles : DestroyVm(a, role)
    \/ ReleaseLease(a)
    \/ Finish(a)

Drive(s) ==
    \/ ClimbTo(s)
    \/ ResolveEndpoint(s)
    \/ \E role \in Roles : Provision(s, role)
    \/ Configure(s)
    \/ ApplyFirewall(s)
    \/ \E role \in Roles : StartVm(s, role)
    \/ RunPreflight(s)
    \/ ProbeProxy(s)
    \/ Launch(s)
    \/ CheckAlive(s)
    \/ Touch(s)
    \/ FailClosed(s)

(* A step of a start that is under way.                                      *)
StartStep(s) ==
    \/ pc[s] = "acquire" /\ Refuse(s)
    \/ AcquireLock(s)
    \/ KeyFails(s)
    \/ Register(s)
    \/ Unlock(s)
    \/ Drive(s)
    \/ Teardown(s)

Next ==
    \/ \E s \in Sessions : Begin(s) \/ Refuse(s) \/ StartStep(s) \/ BrowserExits(s)
    \/ \E t \in Stoppers : Teardown(t) \/ \E s \in Sessions : BeginStop(t, s)

Spec == Init /\ [][Next]_vars

(* Tasks are scheduled by a work-conserving runtime and every awaited call   *)
(* returns, so a request that was taken up is carried on; no client is       *)
(* obliged to start or to stop anything.                                     *)
FairSpec ==
    /\ Spec
    /\ \A s \in Sessions : WF_vars(StartStep(s))
    /\ \A t \in Stoppers : WF_vars(Teardown(t))
-----------------------------------------------------------------------------
(* Properties.                                                              *)

(* The tasks that are tearing session s down.                                *)
TearingDown(s) == {a \in Actors : pc[a] \in DownStation /\ Subject(a) = s}

LostTrackOf(s, resource) == <<s, resource>> \in botched

TableTypes ==
    /\ state \in [Sessions -> SessionState \cup {"absent"}]
    /\ refs \in [Sessions -> SUBSET Resources]
    /\ protection \in [Sessions -> {"none", "unsafe", "partial", "active"}]

WorldTypes ==
    /\ lock \in [Profiles -> Sessions \cup {Free, Blank}]
    /\ vm \in [Sessions -> [Roles -> {"none", "defined", "running", "gone"}]]
    /\ browser \in [Sessions -> {"none", "live", "dead"}]
    /\ dirs \subseteq Profiles
    /\ killswitch \in {"armed", "engaged"}
    /\ botched \subseteq Sessions \X (Resources \cup {"lock", "token"})

TaskTypes ==
    /\ pc \in [Actors -> Station]
    /\ job \in [Stoppers -> Sessions \cup {Free}]
    /\ held \in [Actors -> SUBSET Resources]
    /\ err \in [Sessions -> Outcome \cup {"none"}]

TaskShape ==
    /\ \A a \in Actors : held[a] # {} => pc[a] = "teardown"
    /\ \A t \in Stoppers : IF job[t] = Free THEN pc[t] = "idle" ELSE pc[t] \in DownStation

(* Types, and the shape of a task: only a teardown holds resources, and a    *)
(* stopper has a session exactly while it is tearing it down.                *)
TypeOK == TableTypes /\ WorldTypes /\ TaskTypes /\ TaskShape

(* The preflight that the mode of s demands has passed.                      *)
Cleared(s) == protection[s] = IF InHost(s) THEN "partial" ELSE "active"

(* A session a client sees as Browsing is whole: its preflight passed, its   *)
(* VMs run, the handle needed to terminate its browser is in the entry, its  *)
(* profile's lock is its own and no stop or failed start is taking it apart. *)
(* drive_start stores the handle and then asks transition() for Browsing;    *)
(* stop_session moves to Closing before it touches anything.                 *)
BrowsingIsIntact ==
    \A s \in Sessions : state[s] = "browsing" =>
        /\ Cleared(s)
        /\ "handle" \in refs[s]
        /\ ~InHost(s) => \A role \in Roles : role \in refs[s] /\ vm[s][role] = "running"
        /\ lock[ProfileOf[s]] = s
        /\ TearingDown(s) = {}

(* However a stop races the start, a browser process exists only for a       *)
(* session whose own preflight passed (drive_start step 6 before step 7),    *)
(* and it was not started before the session's gateway.                      *)
BrowserOnlyAfterPreflight ==
    \A s \in Sessions : browser[s] # "none" =>
        /\ Cleared(s)
        /\ ~InHost(s) => vm[s]["gw"] \in {"running", "gone"}

(* Somebody will remove the lock file that carries the token of s: its start *)
(* is under way, it is browsing (and can be stopped), or a teardown is at it. *)
HasReleaser(s) ==
    \/ pc[s] \notin {"idle", "acquire", "refused", "done"}
    \/ state[s] = "browsing"
    \/ TearingDown(s) # {}

(* A profile is Busy only because of a session that holds its lease and will *)
(* give it back, except where acquire_lock could not write the token it had  *)
(* created the file for (store.rs:350), or release_lock could not remove the *)
(* file: after either, nothing in the daemon makes the profile free again.   *)
LockHasOwner ==
    \A p \in Profiles : lock[p] # Free =>
        \E s \in Sessions :
            /\ ProfileOf[s] = p
            /\ \/ lock[p] = s /\ (HasReleaser(s) \/ LostTrackOf(s, "lock"))
               \/ lock[p] = Blank /\ LostTrackOf(s, "token")

(* "Fully destroyed; nothing left behind": once no task works on an ended    *)
(* session, neither VM nor browser of it remains, except where terminate or  *)
(* destroy itself failed.                                                    *)
EndedIsClean ==
    \A s \in Sessions :
        (state[s] \in Ended /\ pc[s] = "done" /\ TearingDown(s) = {}) =>
            /\ \A role \in Roles : vm[s][role] \in {"none", "gone"} \/ LostTrackOf(s, role)
            /\ browser[s] # "live" \/ LostTrackOf(s, "handle")

(* Destroyed means "nothing left behind": once the start of a destroyed       *)
(* session has returned and no task works on it, none of its VMs is left,     *)
(* except where destroy itself failed.                                        *)
DestroyedLeavesNoVm ==
    \A s \in Sessions :
        (state[s] = "destroyed" /\ pc[s] = "done" /\ TearingDown(s) = {}) =>
            \A role \in Roles : vm[s][role] \in {"none", "gone"} \/ LostTrackOf(s, role)

(* The single-writer lock does what it is for: two live browsers never share *)
(* a profile, unless the termination of one failed.                          *)
OneBrowserPerProfile ==
    \A s1, s2 \in Sessions :
        (/\ s1 # s2 /\ ProfileOf[s1] = ProfileOf[s2]
         /\ browser[s1] = "live" /\ browser[s2] = "live")
            => LostTrackOf(s1, "handle") \/ LostTrackOf(s2, "handle")

(* Between a containment failure and the end of its gateway VM, traffic      *)
(* stays cut: fail_closed runs before teardown. Not so where another start   *)
(* arms the gateway they share (SessionsRearm.cfg).                          *)
CutWhileGatewayRuns ==
    \A s \in Sessions :
        (pc[s] \in DownStation /\ err[s] = "cut" /\ vm[s]["gw"] = "running")
            => killswitch = "engaged"

(* Browsing means that all checks passed.                                    *)
BrowsingIsActive ==
    \A s \in Sessions : state[s] = "browsing" => protection[s] = "active"

(* Destroyed is terminal: no step leaves it.                                 *)
DestroyedIsFinal ==
    [][\A s \in Sessions : state[s] = "destroyed" => state'[s] = "destroyed"]_vars

(* A user-data dir is not removed under a browser that still uses it.        *)
DirStaysUnderBrowser ==
    [][\A s \in Sessions :
          (/\ ProfileOf[s] \in dirs /\ ProfileOf[s] \notin dirs'
           /\ browser[s] = "live")
              => LostTrackOf(s, "handle")]_vars

(* The session whose token is in the lock file of a profile.                 *)
Holder == [p \in Profiles |-> IF lock[p] \in Sessions THEN lock[p] ELSE Free]

(* The session machine keeps the promise of SessionLifecycle.                *)
Promise == INSTANCE SessionLifecycle WITH phase <- state, owner <- Holder
KeepsPromise == Promise!LifecycleSpec

(* A start that was taken up returns to its client.                          *)
StartReturns ==
    \A s \in Sessions : pc[s] = "acquire" ~> pc[s] \in {"done", "refused"}

(* Ended, or in the hands of a teardown, and without its profile's lock.     *)
Down(s) ==
    /\ state[s] \in Ended \/ TearingDown(s) # {}
    /\ lock[ProfileOf[s]] # s \/ LostTrackOf(s, "lock")

(* A session somebody asked to stop ends and stays ended, and its profile    *)
(* comes free, even when the stop overtook the start.                        *)
StoppedStaysDown ==
    \A s \in Sessions, t \in Stoppers : job[t] = s ~> []Down(s)
=============================================================================
