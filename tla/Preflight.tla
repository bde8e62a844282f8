------------------------------ MODULE Preflight ------------------------------
(***************************************************************************)
(* The gate of one session and what is shown of it: the network auditor    *)
(* measures six guarantees one after the other while the network moves on, *)
(* the orchestrator records the outcome and opens the gate or not, a stop  *)
(* may arrive anywhere, and clients ask for diagnostics, which the handler *)
(* puts together from several reads.                                       *)
(*                                                                         *)
(* A session is a full-VM one or a host process.  A guarantee of the       *)
(* network holds or does not; a probe tells the truth about the moment it  *)
(* runs, or cannot run.                                                    *)
(***************************************************************************)
EXTENDS Views

CONSTANTS
    Readers,    \* connections that ask for diagnostics
    MaxMoves    \* how often the network changes

ASSUME MovesAssumption == MaxMoves \in Nat

\* The guarantees a probe can measure; the public IP has two sides.
Guarantees == {"gateway", "tunnel", "dns", "tunnelled", "foreign", "ipv6"}

\* What the daemon tells the auditor about the session.
Context == [webrtc_policy_installed |-> TRUE, host_public_ip |-> "unknown"]

Observations == [ip : {"host", "exit"}, via_tunnel : BOOLEAN, differs_from_host : BOOLEAN]
Unobserved == [ip |-> "none", via_tunnel |-> FALSE, differs_from_host |-> FALSE]
Unreported == [c \in Checks |-> "missing"]

VARIABLES
    mode,       \* "vm" or "host": the kind of session
    world,      \* the guarantees that hold now
    moves,      \* how often the network has changed
    phase,      \* where the start of the session is
    step,       \* the checks measured so far
    reports,    \* their outcomes
    observed,   \* the public IP seen by the auditor
    held,       \* the guarantees that held when they were measured
    entry,      \* the session's entry in the table
    alive,      \* the browser process runs
    stop,       \* where a stop of the session is
    reader,     \* where each request for diagnostics is
    answer      \* what it has gathered

vars == <<mode, world, moves, phase, step, reports, observed, held, entry, alive,
          stop, reader, answer>>
auditing == <<step, reports, observed, held>>
clients == <<reader, answer>>

States == {"starting", "preflight", "browsing", "closing", "destroyed", "failed"}
Entries == [state : States, protection : Protections, recorded : BOOLEAN,
            checklist : [Checks -> Outcomes \cup {"missing"}],
            ip : Observations \cup {Unobserved}, handle : BOOLEAN]

NoAnswer == [protection |-> "none", state |-> "starting", ip |-> Unobserved, locked |-> FALSE,
             checklist |-> Unreported, items |-> <<>>, site_ip |-> "unknown", browser |-> "unknown"]

---------------------------------------------------------------------------
\* What stands for the reports where nothing has been measured.

\* The host-process preflight: the proxy stands in for the tunnel, the rest is not measured.
HostChecklist == [c \in Checks |-> IF c = "tunnel" THEN "pass" ELSE "skipped"]

\* Fault: green unless told otherwise.
UnknownChecklist_Green == [c \in Checks |-> "pass"]

\* What is shown before any preflight has reported.
UnknownChecklist == [c \in Checks |-> "skipped"]

---------------------------------------------------------------------------
\* The auditor.

\* Fault: an error counts as no objection.
BooleanReport_Lenient(result) == IF result = "false" THEN "fail" ELSE "pass"

\* A probe that cannot run reports what a failed measurement reports.
BooleanReport(result) == IF result = "true" THEN "pass" ELSE "fail"

WebrtcReport(ctx) == IF ctx.webrtc_policy_installed THEN "pass" ELSE "fail"

PublicIpReport(obs, ctx) ==
    IF /\ obs.via_tunnel
       /\ obs.differs_from_host
       /\ obs.ip # ctx.host_public_ip
    THEN "pass" ELSE "fail"

\* What a probe of guarantee g may return.
Probe(g) == {"error", IF world[g] THEN "true" ELSE "false"}

ObservePublicIp ==
    {Unobserved,
     [ip |-> IF world["foreign"] THEN "exit" ELSE "host",
      via_tunnel |-> world["tunnelled"], differs_from_host |-> world["foreign"]]}

Reported(c, outcome, truly) ==
    /\ reports' = [reports EXCEPT ![c] = outcome]
    /\ held' = IF truly THEN held \cup {c} ELSE held
    /\ step' = step + 1

Measure ==
    /\ phase = "probing" /\ step < Len(Order)
    /\ LET c == Order[step + 1] IN
        \/ /\ c \notin {"public_ip", "webrtc"}
           /\ \E result \in Probe(c) : Reported(c, BooleanReport(result), world[c])
           /\ UNCHANGED observed
        \/ /\ c = "public_ip"
           /\ \E obs \in ObservePublicIp :
                /\ Reported(c, PublicIpReport(obs, Context), world["tunnelled"] /\ world["foreign"])
                /\ observed' = obs
        \/ /\ c = "webrtc"
           /\ Reported(c, WebrtcReport(Context), FALSE)
           /\ UNCHANGED observed
    /\ UNCHANGED <<mode, world, moves, phase, entry, alive, stop, clients>>

---------------------------------------------------------------------------
\* The start of the session, from the preflight on.

Init ==
    /\ mode \in {"vm", "host"}
    /\ world \in [Guarantees -> BOOLEAN]
    /\ moves = 0
    /\ phase = "starting" /\ step = 0 /\ reports = Unreported
    /\ observed = Unobserved /\ held = {}
    /\ entry = [state |-> "starting", protection |-> "none", recorded |-> FALSE,
                checklist |-> Unreported, ip |-> Unobserved, handle |-> FALSE]
    /\ alive = FALSE
    /\ stop = "idle"
    /\ reader = [r \in Readers |-> "idle"]
    /\ answer = [r \in Readers |-> NoAnswer]

\* transition(): refused once a stop has moved the session off its path.
EnterPreflight ==
    /\ phase = "starting"
    /\ \/ /\ entry.state = "starting"
          /\ entry' = [entry EXCEPT !.state = "preflight"]
          /\ phase' = "probing"
       \/ /\ phase' = "failing"     \* refused, or an earlier step of the start failed
          /\ UNCHANGED entry
    /\ UNCHANGED <<mode, world, moves, auditing, alive, stop, clients>>

\* Fault: the aggregate is stored at once, the reports only when the browser starts.
Record_AggregateFirst(protection, checklist, obs) ==
    entry' = [entry EXCEPT !.protection = protection, !.ip = obs]

Record(protection, checklist, obs) ==
    entry' = [entry EXCEPT !.protection = protection, !.recorded = TRUE,
                           !.checklist = checklist, !.ip = obs]

\* Fault: the checklist advises, the launch goes on.
RecordChecklist_Advisory ==
    /\ phase = "probing" /\ mode = "vm" /\ step = Len(Order)
    /\ Record(Status(reports), reports, observed)
    /\ phase' = "launching"
    /\ UNCHANGED <<mode, world, moves, auditing, alive, stop, clients>>

RecordChecklist ==
    /\ phase = "probing" /\ mode = "vm" /\ step = Len(Order)
    /\ Record(Status(reports), reports, observed)
    /\ phase' = IF PermitsBrowsing(reports) THEN "launching" ELSE "failing"
    /\ UNCHANGED <<mode, world, moves, auditing, alive, stop, clients>>

ProbeProxy ==
    /\ phase = "probing" /\ mode = "host"
    /\ \/ /\ Record("partial", HostChecklist, Unobserved)
          /\ phase' = "launching"
       \/ /\ phase' = "failing"     \* not reachable, or the probe failed
          /\ UNCHANGED entry
    /\ UNCHANGED <<mode, world, moves, auditing, alive, stop, clients>>

Launch ==
    /\ phase = "launching"
    /\ \/ /\ alive' = TRUE
          /\ entry' = [entry EXCEPT !.handle = TRUE]
          /\ phase' = "checking"
       \/ /\ phase' = "failing"
          /\ UNCHANGED <<alive, entry>>
    /\ UNCHANGED <<mode, world, moves, auditing, stop, clients>>

CheckAlive ==
    /\ phase = "checking"
    /\ \/ /\ alive /\ entry.state = "preflight"
          /\ entry' = [entry EXCEPT !.state = "browsing"]
          /\ phase' = "started"
       \/ /\ phase' = "failing"     \* dead, not known, or the session was stopped
          /\ UNCHANGED entry
    /\ UNCHANGED <<mode, world, moves, auditing, alive, stop, clients>>

\* The teardown of a failed start.  The record of the preflight stays.
FailStart ==
    /\ phase = "failing"
    /\ phase' = "failed"
    /\ alive' = (alive /\ ~entry.handle)
    /\ entry' = [entry EXCEPT !.state = "failed", !.handle = FALSE]
    /\ UNCHANGED <<mode, world, moves, auditing, stop, clients>>

\* A stop: its teardown takes the handle, terminates what it took, ends the session.
Stop ==
    /\ stop = "idle"
    /\ stop' = IF entry.handle THEN "killing" ELSE "ending"
    /\ entry' = [entry EXCEPT !.state = IF entry.state \in {"destroyed", "failed"} THEN @ ELSE "closing",
                              !.handle = FALSE]
    /\ UNCHANGED <<mode, world, moves, phase, auditing, alive, clients>>

EndStop ==
    /\ stop \in {"killing", "ending"}
    /\ stop' = "done"
    /\ alive' = (alive /\ stop # "killing")
    /\ entry' = [entry EXCEPT !.state = "destroyed", !.handle = FALSE]
    /\ UNCHANGED <<mode, world, moves, phase, auditing, clients>>

---------------------------------------------------------------------------
\* GetDiagnostics.

CheckItem(outcome) ==
    CASE outcome = "pass" -> Item("ok", "verified")
      [] outcome = "fail" -> Item("down", "measured")
      [] OTHER            -> Item("unknown", "unknown")

\* Whatever a profile merely asks for.
ConfiguredItem == Item("unknown", "configured")

Items(checklist) ==
    [key \in Checks \cup {"profile"} |->
        IF key = "profile" THEN ConfiguredItem ELSE CheckItem(checklist[key])]

SiteIpLevel(obs) ==
    IF obs = Unobserved THEN "unknown"
    ELSE IF obs.via_tunnel /\ obs.differs_from_host THEN "ok" ELSE "down"

Advance(r, to) == reader' = [reader EXCEPT ![r] = to]
reading == <<mode, world, moves, phase, auditing, entry, alive, stop>>

ReadSummary(r) ==
    /\ reader[r] = "idle"
    /\ Advance(r, "profile")
    /\ answer' = [answer EXCEPT ![r] = [NoAnswer EXCEPT !.protection = entry.protection]]
    /\ UNCHANGED reading

\* The profile is read from the store: the call may fail, and with it the request.
ReadProfile(r) ==
    /\ reader[r] = "profile"
    /\ Advance(r, "checklist") \/ Advance(r, "error")
    /\ UNCHANGED <<reading, answer>>

ReadChecklist(r) ==
    /\ reader[r] = "checklist"
    /\ Advance(r, "handle")
    /\ answer' = [answer EXCEPT
          ![r].checklist = IF entry.recorded THEN entry.checklist ELSE UnknownChecklist,
          ![r].items = Items(IF entry.recorded THEN entry.checklist ELSE UnknownChecklist),
          ![r].site_ip = SiteIpLevel(IF entry.recorded THEN entry.ip ELSE Unobserved)]
    /\ UNCHANGED reading

\* Between the two, gateway_health() is awaited; its items say what it returned.
ReadHandle(r) ==
    /\ reader[r] = "handle"
    /\ Advance(r, IF entry.handle THEN "poll" ELSE "answered")
    /\ UNCHANGED <<reading, answer>>

Poll(r) ==
    /\ reader[r] = "poll"
    /\ Advance(r, "answered")
    /\ \E level \in {"unknown", IF alive THEN "ok" ELSE "down"} :
          answer' = [answer EXCEPT ![r].browser = level]
    /\ UNCHANGED reading

---------------------------------------------------------------------------
\* ListSessions, and the manager's list of profiles, which asks for both.

\* The profile's lock file: from before the preflight to the end of a teardown.
Locked == phase # "failed" /\ stop # "done"

ListProfiles(r) ==
    /\ reader[r] = "idle"
    /\ Advance(r, "profiles")
    /\ answer' = [answer EXCEPT ![r].locked = Locked]
    /\ UNCHANGED reading

ListSessions(r) ==
    /\ reader[r] \in {"idle", "profiles"}
    /\ Advance(r, "listed")
    /\ answer' = [answer EXCEPT ![r].protection = entry.protection,
                                ![r].state = entry.state, ![r].ip = entry.ip]
    /\ UNCHANGED reading

\* The manager does without the sessions when that call fails.
ListNone(r) ==
    /\ reader[r] = "profiles"
    /\ Advance(r, "unlisted")
    /\ UNCHANGED <<reading, answer>>

---------------------------------------------------------------------------
\* The network, and the browser process.

WorldMoves ==
    /\ moves < MaxMoves
    /\ moves' = moves + 1
    /\ \E g \in Guarantees : world' = [world EXCEPT ![g] = ~@]
    /\ UNCHANGED <<mode, phase, auditing, entry, alive, stop, clients>>

BrowserExits ==
    /\ alive /\ alive' = FALSE
    /\ UNCHANGED <<mode, world, moves, phase, auditing, entry, stop, clients>>

Start == EnterPreflight \/ (mode = "vm" /\ Measure) \/ RecordChecklist \/ ProbeProxy
            \/ Launch \/ CheckAlive \/ FailStart
Diagnose(r) == ReadSummary(r) \/ ReadProfile(r) \/ ReadChecklist(r) \/ ReadHandle(r) \/ Poll(r)
List(r) == ListProfiles(r) \/ ListSessions(r) \/ ListNone(r)

\* Once every task has ended and the network is still, nothing happens.
Next ==
    \/ Start \/ Stop \/ EndStop
    \/ \E r \in Readers : Diagnose(r) \/ List(r)
    \/ WorldMoves \/ BrowserExits

Spec == Init /\ [][Next]_vars

---------------------------------------------------------------------------
\* Properties.

Probed == Checks \ {"webrtc"}
Answered == {r \in Readers : reader[r] = "answered"}
Measured == IF mode = "vm" THEN held \cup {"webrtc"} ELSE {"tunnel"}
Listed == {r \in Readers : reader[r] = "listed"}
Verified(item) == item.evidence = "verified"
Stations == {"idle", "profile", "checklist", "handle", "poll", "answered", "error",
             "profiles", "listed", "unlisted"}

\* Types; and the reports are those of the checks measured so far, in their order.
TypeOK ==
    /\ mode \in {"vm", "host"} /\ world \in [Guarantees -> BOOLEAN] /\ moves \in 0..MaxMoves
    /\ phase \in {"starting", "probing", "launching", "checking", "started", "failing", "failed"}
    /\ step \in 0..Len(Order)
    /\ reports \in [Checks -> Outcomes \cup {"missing"}]
    /\ \A i \in DOMAIN Order : (reports[Order[i]] = "missing") <=> (i > step)
    /\ observed \in Observations \cup {Unobserved} /\ held \subseteq Checks
    /\ entry \in Entries /\ alive \in BOOLEAN
    /\ stop \in {"idle", "killing", "ending", "done"}
    /\ reader \in [Readers -> Stations]
    /\ \A r \in Readers : answer[r].protection \in Protections
                            /\ answer[r].site_ip \in {"ok", "down", "unknown"}
                            /\ answer[r].browser \in {"ok", "down", "unknown"}

\* The protection of a session is active only if each guarantee a probe can
\* measure was measured in this session's preflight and held at that moment,
\* whatever the network did before and after (Auditor::run_preflight, status).
ActiveIsMeasured == entry.protection = "active" => Probed \subseteq held

\* A browser of a full-VM session runs only behind guarantees that were all
\* measured for it (the gate of drive_start), also when a stop or a failure
\* has meanwhile moved the session's entry elsewhere.
RunsBehindGate == alive /\ mode = "vm" => Probed \subseteq held

\* An answer to GetDiagnostics that says "active" shows six verified checks and
\* a public IP that is not the host's, although the handler reads the aggregate
\* and the reports at different times.
AnswerAgrees ==
    \A r \in Answered : answer[r].protection = "active" =>
        /\ \A c \in Checks : Verified(answer[r].items[c])
        /\ answer[r].site_ip = "ok"

\* No checklist item is shown as verified that this session's preflight has not
\* measured: not before it has reported, not what a profile asks for, and for a
\* host process only the proxy (checklist_items, unknown_checklist,
\* configured_item). The firewall's item, taken from the gateway, is left out.
GreenIsEarned ==
    \A r \in Answered :
        {key \in DOMAIN answer[r].items : Verified(answer[r].items[key])} \subseteq Measured

\* The session as ListSessions gave it, and its checklist as either client shows it.
Summary(r) == [state |-> answer[r].state, protection |-> answer[r].protection,
               public_ip |-> answer[r].ip]
Panel(r) == DiagnosticsView(answer[r].checklist, answer[r].items, answer[r].ip)
Report(r) == DiagnosticsReport(answer[r].protection, answer[r].checklist)

\* What the row of a session claims, what its diagnostics claim, and of a check.
RowClaims(r) == IsSafe(Summary(r)) \/ SessionRow(Summary(r)).badge = "active"
PanelClaims(r) ==
    \/ Panel(r).permits_browsing \/ Panel(r).badge = "active"
    \/ Report(r).all_passed \/ Report(r).badge = "active"
ClaimsCheck(r, c) ==
    Panel(r).checks[c].passed \/ Panel(r).items[c] = "ok" \/ Report(r).lines[c] = "pass"

\* No client calls a session safe or its protection active, permits browsing or
\* says that all checks passed, unless every guarantee was measured and held; and
\* it shows no check as passed and no checklist item as ok that was not measured,
\* although the manager works the aggregate out again and drops the evidence
\* (SessionView, DiagnosticsView, checklist_report, diagnostics_report).
SafeIsEarned ==
    /\ \A r \in Listed : RowClaims(r) => Probed \subseteq held
    /\ \A r \in Answered :
        /\ PanelClaims(r) => Probed \subseteq held
        /\ \A c \in Checks : ClaimsCheck(r, c) => c \in Measured

\* Both clients show the same badge for a session.  Refuted: the manager drops the
\* aggregate that the reply carries for a host process (protocol.rs:148-150).
BadgesAgree == \A r \in Answered : Panel(r).badge = Report(r).badge

\* manager-ui dto.rs:50: no public IP of a profile when it is not running.
\* Refuted: an ended session stays listed, with the address it once had.
NoAddressAtRest ==
    \A r \in Listed : LET row == ProfileView(answer[r].locked, <<Summary(r)>>, Unobserved) IN
        row.gateway = "idle" => row.public_ip = Unobserved

\* A self-test that the command line calls passed has measured the checks it
\* lists.  Refuted: it only looks at constants (handler.rs, Doctor).
DoctorMeasures ==
    CliExit("doctor", [kind |-> "doctor", checklist |-> Doctor(FALSE)]) = ExitOk
        => Probed \subseteq held

\* What network-audit/src/lib.rs:26-28 says: active only if all six guarantees
\* were positively measured.
AllSixMeasured == entry.protection = "active" => Checks \subseteq held

\* What aegis-core/src/preflight.rs:157 says of None: no gateway and no tunnel.
EndedShowsNone == entry.state \in {"destroyed", "failed"} => entry.protection \notin {"active", "partial"}

=============================================================================
