----------------------------- MODULE HostRunner -----------------------------
(***************************************************************************)
(* HostBrowserRunner: the browsers of host-process sessions as children of *)
(* the daemon, addressed by their pid.  One runner serves every session of *)
(* an engine.  A session starts one browser, keeps its pid as the handle,  *)
(* asks whether it is alive, and stops it once: teardown takes the handle. *)
(*                                                                         *)
(* The system may give the pid of a process that has been waited for to a  *)
(* new one; the map keeps the entry of a browser until somebody stops it.  *)
(***************************************************************************)
EXTENDS Naturals

CONSTANTS
    Sessions,
    Pids,
    MayReuse,   \* may a pid be used again?
    None

ASSUME RunnerAssumption == None \notin Sessions \cup Pids /\ MayReuse \in BOOLEAN

VARIABLES
    os,         \* the browser of a session: "none", "live", "exited" or "reaped"
    pid,        \* its pid
    children,   \* the runner's map: whose child a pid leads to
    pc,         \* where the start of a session is
    handle,     \* the pid its entry in the session table keeps
    stop,       \* where its teardown is: "no", "remove", "wait", "kill" or "done"
    token,      \* the pid its teardown was given
    took,       \* whose child its teardown took out of the map
    lost        \* the browsers a kill failed on

vars == <<os, pid, children, pc, handle, stop, token, took, lost>>
starting == <<pid, pc, handle>>
stopping == <<stop, token, took, lost>>

Init ==
    /\ os = [s \in Sessions |-> "none"]
    /\ pid = [s \in Sessions |-> None]
    /\ children = [p \in Pids |-> None]
    /\ pc = [s \in Sessions |-> "idle"]
    /\ handle = [s \in Sessions |-> None]
    /\ stop = [s \in Sessions |-> "no"]
    /\ token = [s \in Sessions |-> None]
    /\ took = [s \in Sessions |-> None]
    /\ lost = {}

Goto(s, where) == pc' = [pc EXCEPT ![s] = where]

\* A pid is taken until its process has been waited for.
Free(p) ==
    \A s \in Sessions : pid[s] = p => MayReuse /\ os[s] = "reaped"

---------------------------------------------------------------------------
\* start, and what drive_start_host does with its result.

Spawn(s) ==
    /\ pc[s] = "idle"
    /\ \/ \E p \in Pids :
            /\ Free(p)
            /\ os' = [os EXCEPT ![s] = "live"]
            /\ pid' = [pid EXCEPT ![s] = p]
            /\ Goto(s, "insert")
       \/ Goto(s, "failed") /\ UNCHANGED <<os, pid>>
    /\ UNCHANGED <<children, handle, stopping>>

Insert(s) ==
    /\ pc[s] = "insert"
    /\ children' = [children EXCEPT ![pid[s]] = s]
    /\ Goto(s, "handle")
    /\ UNCHANGED <<os, pid, handle, stopping>>

SetHandle(s) ==
    /\ pc[s] = "handle"
    /\ handle' = [handle EXCEPT ![s] = pid[s]]
    /\ Goto(s, "check")
    /\ UNCHANGED <<os, pid, children, stopping>>

---------------------------------------------------------------------------
\* is_running: an unknown token is an error; a child that has exited is waited
\* for, and stays in the map.

Alive(p) == children[p] # None /\ os[children[p]] = "live"

WaitFor(s) == os' = [os EXCEPT ![s] = IF @ = "exited" THEN "reaped" ELSE @]

\* Fault: the child is taken out of the map to be asked.
Ask_Removes(p) ==
    /\ IF children[p] = None THEN UNCHANGED os ELSE WaitFor(children[p])
    /\ children' = [children EXCEPT ![p] = None]

Ask(p) ==
    /\ IF children[p] = None THEN UNCHANGED os ELSE WaitFor(children[p])
    /\ UNCHANGED children

\* The check that precedes Browsing. The start keeps the pid it was given, also
\* when its session is torn down under it.
CheckAlive(s) ==
    /\ pc[s] = "check"
    /\ Ask(pid[s])
    /\ Goto(s, IF Alive(pid[s]) THEN "up" ELSE "failed")
    /\ UNCHANGED <<pid, handle, stopping>>

\* GetDiagnostics.
Poll(s) ==
    /\ handle[s] # None
    /\ Ask(handle[s])
    /\ UNCHANGED <<starting, stopping>>

---------------------------------------------------------------------------
\* teardown: the handle is taken, and its token given to stop.

TakeHandle(s) ==
    /\ handle[s] # None
    /\ token' = [token EXCEPT ![s] = handle[s]]
    /\ handle' = [handle EXCEPT ![s] = None]
    /\ stop' = [stop EXCEPT ![s] = "remove"]
    /\ UNCHANGED <<os, pid, children, pc, took, lost>>

\* An unknown token is nothing to stop.
StopRemove(s) ==
    /\ stop[s] = "remove"
    /\ took' = [took EXCEPT ![s] = children[token[s]]]
    /\ children' = [children EXCEPT ![token[s]] = None]
    /\ stop' = [stop EXCEPT ![s] = IF children[token[s]] = None THEN "done" ELSE "wait"]
    /\ UNCHANGED <<os, starting, token, lost>>

\* Fault: any answer of try_wait counts as an exit.
StopWait_AnyAnswer(s) ==
    /\ stop[s] = "wait"
    /\ WaitFor(took[s])
    /\ stop' = [stop EXCEPT ![s] = "done"]
    /\ UNCHANGED <<children, starting, token, took, lost>>

StopWait(s) ==
    /\ stop[s] = "wait"
    /\ WaitFor(took[s])
    /\ stop' = [stop EXCEPT ![s] = IF os[took[s]] = "live" THEN "kill" ELSE "done"]
    /\ UNCHANGED <<children, starting, token, took, lost>>

\* kill ends and waits for the child; if it fails the child is out of reach.
StopKill(s) ==
    /\ stop[s] = "kill"
    /\ \/ os' = [os EXCEPT ![took[s]] = "reaped"] /\ UNCHANGED lost
       \/ lost' = lost \cup {took[s]} /\ UNCHANGED os
    /\ stop' = [stop EXCEPT ![s] = "done"]
    /\ UNCHANGED <<children, starting, token, took>>

\* The browser crashes, or its last window is closed.
Exit(s) ==
    /\ os[s] = "live"
    /\ os' = [os EXCEPT ![s] = "exited"]
    /\ UNCHANGED <<children, starting, stopping>>

---------------------------------------------------------------------------
Start(s) == Spawn(s) \/ Insert(s) \/ SetHandle(s) \/ CheckAlive(s)
Stop(s) == TakeHandle(s) \/ StopRemove(s) \/ StopWait(s) \/ StopKill(s)

Next == \E s \in Sessions : Start(s) \/ Poll(s) \/ Stop(s) \/ Exit(s)

Spec == Init /\ [][Next]_vars
---------------------------------------------------------------------------
\* Types; an entry of the map leads to the browser that was given its pid, and no
\* two living browsers have one pid.
TypeOK ==
    /\ os \in [Sessions -> {"none", "live", "exited", "reaped"}]
    /\ pid \in [Sessions -> Pids \cup {None}]
    /\ children \in [Pids -> Sessions \cup {None}]
    /\ pc \in [Sessions -> {"idle", "insert", "handle", "check", "up", "failed"}]
    /\ handle \in [Sessions -> Pids \cup {None}]
    /\ stop \in [Sessions -> {"no", "remove", "wait", "kill", "done"}]
    /\ token \in [Sessions -> Pids \cup {None}]
    /\ took \in [Sessions -> Sessions \cup {None}]
    /\ lost \subseteq Sessions
    /\ \A p \in Pids : children[p] # None => pid[children[p]] = p
    /\ \A s, t \in Sessions : os[s] = "live" /\ os[t] = "live" /\ pid[s] = pid[t] => s = t

BeingStopped(s) == \E t \in Sessions : took[t] = s /\ stop[t] \in {"wait", "kill"}

\* host_runner.rs:222-224, "can address and reap the child reliably": a living
\* browser is in the map from the end of start to the stop that takes it, also
\* when pids are used again; only a failed kill leaves it out of reach.
NoOrphan ==
    \A s \in Sessions :
        os[s] = "live" /\ pc[s] # "insert" =>
            children[pid[s]] = s \/ BeingStopped(s) \/ s \in lost

\* Once a session's stop has returned its browser is dead, or the kill failed, or
\* somebody else is at it (teardown, HostBrowserRunner::stop).
StoppedIsDead ==
    \A s \in Sessions :
        stop[s] = "done" /\ os[s] = "live" => BeingStopped(s) \/ s \in lost

\* "Terminate the child addressed by `token`": the token of a session addresses
\* its own browser.
OwnBrowserOnly == \A s \in Sessions : took[s] \in {s, None}
=============================================================================
