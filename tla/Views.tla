------------------------------- MODULE Views -------------------------------
(***************************************************************************)
(* What passes between the daemon and its two clients, and what each of    *)
(* them shows of it: the requests and the kinds of reply, the connectivity *)
(* checklist with its aggregate, and the rows, badges, verdicts and exit   *)
(* codes that the command line (cli) and the manager (manager-ui) make of  *)
(* a session.  Only what is claimed is kept, not how it is worded.         *)
(***************************************************************************)
EXTENDS Integers, Sequences

---------------------------------------------------------------------------
\* The checklist: an outcome for each check, "missing" where there is no report.

Order == <<"gateway", "tunnel", "dns", "public_ip", "webrtc", "ipv6">>
Checks == {Order[i] : i \in DOMAIN Order}
Outcomes == {"pass", "fail", "skipped"}
Protections == {"active", "partial", "unsafe", "none"}

AllPassed(checklist) == \A c \in Checks : checklist[c] = "pass"
Failures(checklist) == {c \in Checks : checklist[c] # "pass"}

Status(checklist) ==
    IF AllPassed(checklist) THEN "active"
    ELSE IF checklist["gateway"] # "pass" \/ checklist["tunnel"] # "pass" THEN "none"
    ELSE "unsafe"

Permits(protection) == protection = "active"
PermitsBrowsing(checklist) == Permits(Status(checklist))

\* A diagnostics item: its level, and how strongly evidence backs it.
Item(level, evidence) == [level |-> level, evidence |-> evidence]

---------------------------------------------------------------------------
\* The protocol.

\* The kind of reply the handler gives to a request that it can carry out.
Reply(op) ==
    CASE op = "list-profiles"                          -> "profiles"
      [] op \in {"create-profile", "update-profile"}   -> "profile"
      [] op = "delete-profile"                         -> "ok"
      [] op \in {"start-session", "stop-session"}      -> "session"
      [] op = "list-sessions"                          -> "sessions"
      [] op = "get-diagnostics"                        -> "diagnostics"
      [] op = "doctor"                                 -> "doctor"
      [] op = "check-update"                           -> "update-available"
      [] op = "apply-update"                           -> "update-applied"
      [] op = "get-status"                             -> "status"
      [] op \in {"get-enforcement", "set-enforcement"} -> "enforcement"

\* The requests a command of the command line makes, one after the other.
CliRequests ==
    [profile_create |-> <<"create-profile">>, profile_list |-> <<"list-profiles">>,
     profile_show |-> <<"list-profiles">>, profile_rm |-> <<"delete-profile">>,
     session_start |-> <<"start-session">>, session_stop |-> <<"stop-session">>,
     session_list |-> <<"list-sessions">>, diagnostics |-> <<"get-diagnostics">>,
     status |-> <<"get-status">>, doctor |-> <<"doctor">>,
     enforcement |-> <<"get-enforcement">>,
     set_enforcement |-> <<"get-enforcement", "set-enforcement">>,
     update_check |-> <<"check-update">>,
     update_apply |-> <<"check-update", "apply-update">>]

\* The kinds of reply its formatters take, in the same order.
CliReads ==
    [profile_create |-> <<"profile">>, profile_list |-> <<"profiles">>,
     profile_show |-> <<"profiles">>, profile_rm |-> <<"ok">>,
     session_start |-> <<"session">>, session_stop |-> <<"session">>,
     session_list |-> <<"sessions">>, diagnostics |-> <<"diagnostics">>,
     status |-> <<"status">>, doctor |-> <<"doctor">>,
     enforcement |-> <<"enforcement">>,
     set_enforcement |-> <<"enforcement", "enforcement">>,
     update_check |-> <<"update-available">>,
     update_apply |-> <<"update-available", "update-applied">>]

ManagerRequests ==
    [list_profiles |-> <<"list-profiles", "list-sessions">>,
     create_profile |-> <<"create-profile">>, delete_profile |-> <<"delete-profile">>,
     start_session |-> <<"start-session">>, stop_session |-> <<"stop-session">>,
     list_sessions |-> <<"list-sessions">>, get_diagnostics |-> <<"get-diagnostics">>,
     doctor |-> <<"doctor">>, get_status |-> <<"get-status">>,
     get_enforcement |-> <<"get-enforcement">>, set_enforcement |-> <<"set-enforcement">>]

ManagerReads ==
    [list_profiles |-> <<"profiles", "sessions">>,
     create_profile |-> <<"profile">>, delete_profile |-> <<"ok">>,
     start_session |-> <<"session">>, stop_session |-> <<"session">>,
     list_sessions |-> <<"sessions">>, get_diagnostics |-> <<"diagnostics">>,
     doctor |-> <<"doctor">>, get_status |-> <<"status">>,
     get_enforcement |-> <<"enforcement">>, set_enforcement |-> <<"enforcement">>]

\* Each reply is of the kind its client takes there.
Understood(requests, reads) ==
    \A command \in DOMAIN requests :
        /\ Len(requests[command]) = Len(reads[command])
        /\ \A i \in DOMAIN requests[command] : Reply(requests[command][i]) = reads[command][i]

\* The exit code of the command line: a request it cannot make, send or read the
\* reply of is its own error; an error of the daemon, a self-test that does not
\* pass and an update that was rolled back are failures of the operation.
ExitOk == 0
ExitDaemonError == 2
ExitClientError == 3

CliExit(command, reply) ==
    IF reply.kind \in {"unsent", "unread", "unexpected"} THEN ExitClientError
    ELSE IF \/ reply.kind = "error"
            \/ command = "doctor" /\ ~AllPassed(reply.checklist)
            \/ /\ command = "update_apply" /\ reply.kind = "update-applied"
               /\ reply.outcome = "rolled-back"
    THEN ExitDaemonError ELSE ExitOk

---------------------------------------------------------------------------
\* A session in a list.

IsSafe(summary) == summary.state = "browsing" /\ Permits(summary.protection)

\* The manager's row.
SessionView(summary) ==
    [is_browsing |-> summary.state = "browsing", is_safe |-> IsSafe(summary),
     badge |-> summary.protection, public_ip |-> summary.public_ip]

\* The command line's row, and what it says of a start or a stop.
SessionRow(summary) == [state |-> summary.state, badge |-> summary.protection]

IsLive(state) == state \notin {"destroyed", "failed"}

\* The manager's row of a profile, of the sessions that are listed for it in any
\* order: the browsing one, else the first.
RowSession(sessions) ==
    LET browsing == SelectSeq(sessions, LAMBDA s : s.state = "browsing")
    IN  IF browsing # <<>> THEN Head(browsing) ELSE Head(sessions)

ProfileView(locked, sessions, noIp) ==
    [gateway |-> IF locked \/ (sessions # <<>> /\ IsLive(RowSession(sessions).state))
                 THEN "running" ELSE "idle",
     public_ip |-> IF sessions = <<>> THEN noIp ELSE RowSession(sessions).public_ip]

\* The command line's row of it shows the lock, and no address.
ProfileRow(locked) == [gateway |-> IF locked THEN "running" ELSE "idle"]

---------------------------------------------------------------------------
\* The diagnostics of a session, and the self-test.

\* Fault: a check passes unless it failed.
CheckView_UnlessFailed(outcome) ==
    [outcome |-> IF outcome = "missing" THEN "skipped" ELSE outcome, passed |-> outcome # "fail"]

\* The manager: a check without a report is shown as skipped.
CheckView(outcome) ==
    [outcome |-> IF outcome = "missing" THEN "skipped" ELSE outcome, passed |-> outcome = "pass"]

\* Of an item the manager keeps the level and drops the evidence.
DiagItemView(item) == item.level

CheckViews(checklist) == [c \in Checks |-> CheckView(checklist[c])]

\* The aggregate is worked out again from the checklist; the recorded one is dropped.
DiagnosticsView(checklist, items, ip) ==
    [badge |-> Status(checklist), permits_browsing |-> PermitsBrowsing(checklist),
     public_ip |-> ip, checks |-> CheckViews(checklist),
     items |-> [key \in DOMAIN items |-> DiagItemView(items[key])]]

DoctorView(checklist) == [badge |-> Status(checklist), checks |-> CheckViews(checklist)]

\* The command line: a check without a report is a failure.
OutcomeLabel(outcome) ==
    CASE outcome = "pass"    -> "pass"
      [] outcome = "skipped" -> "skip"
      [] OTHER               -> "FAIL"

ChecklistReport(checklist) ==
    [badge |-> Status(checklist),
     lines |-> [c \in Checks |-> OutcomeLabel(checklist[c])],
     all_passed |-> Failures(checklist) = {}]

\* The badge of the aggregate that was recorded replaces that of the checklist.
DiagnosticsReport(protection, checklist) ==
    [ChecklistReport(checklist) EXCEPT !.badge = protection]

DoctorReport(checklist) == ChecklistReport(checklist)

\* The handler's self-test looks at the invariants compiled into the core.
Doctor(drifted) == [c \in Checks |-> IF drifted THEN "skipped" ELSE "pass"]
=============================================================================
