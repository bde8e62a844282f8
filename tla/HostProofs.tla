----------------------------- MODULE HostProofs -----------------------------
(***************************************************************************)
(* Theorems about the host browser runner, for any number of sessions and  *)
(* of pids, whether pids are used again or not.                            *)
(***************************************************************************)
EXTENDS HostRunner, TLAPS

Gone(s) == stop[s] \in {"wait", "kill", "done"}

(* A process keeps its pid until it has been waited for, and nobody can wait *)
(* for it before start has put it into the map.                              *)
PidInv ==
    /\ \A s \in Sessions : pid[s] = None <=> os[s] = "none"
    /\ \A s \in Sessions : pc[s] = "idle" => os[s] = "none"
    /\ \A s \in Sessions : pc[s] = "insert" => os[s] \in {"live", "exited"}
    /\ \A s \in Sessions : pc[s] \in {"handle", "check"} => os[s] # "none"
    /\ \A s, t \in Sessions :
          os[s] \in {"live", "exited"} /\ os[t] \in {"live", "exited"} /\ pid[s] = pid[t] => s = t

(* The map, a handle and a token lead to a browser that start has finished   *)
(* with, and what a stop has taken out does not come back.                   *)
MapInv ==
    /\ \A p \in Pids : children[p] # None => pc[children[p]] \notin {"idle", "insert"}
    /\ \A s \in Sessions :
          handle[s] # None =>
              handle[s] = pid[s] /\ stop[s] = "no" /\ pc[s] \notin {"idle", "insert", "handle"}
    /\ \A s \in Sessions :
          stop[s] # "no" =>
              token[s] = pid[s] /\ pid[s] # None /\ pc[s] \notin {"idle", "insert", "handle"}
    /\ \A s \in Sessions :
          stop[s] \in {"wait", "kill"} =>
              took[s] # None /\ pid[took[s]] = token[s] /\ pc[took[s]] \notin {"idle", "insert"}
    /\ \A s \in Sessions : Gone(s) => children[pid[s]] # s

IInv == TypeOK /\ PidInv /\ MapInv /\ NoOrphan
-----------------------------------------------------------------------------
\* The invariant holds initially.
LEMMA IInvInit == Init => IInv
<1> SUFFICES ASSUME Init PROVE IInv
  OBVIOUS
<1> USE RunnerAssumption DEF Init
<1>1. TypeOK
  BY DEF TypeOK
<1>2. PidInv
  BY DEF PidInv
<1>3. MapInv
  BY DEF MapInv, Gone
<1>4. NoOrphan
  BY DEF NoOrphan
<1> QED BY <1>1, <1>2, <1>3, <1>4 DEF IInv

(* A pid is only given out when it is free.                                  *)
LEMMA SpawnKeeps == ASSUME IInv, NEW s \in Sessions, Spawn(s) PROVE IInv'
<1> USE RunnerAssumption DEF IInv
<1>1. TypeOK'
  BY DEF TypeOK, PidInv, Spawn, Free, Goto, starting, stopping
<1>2. PidInv'
  BY DEF TypeOK, PidInv, MapInv, Spawn, Free, Goto, starting, stopping
<1>3. MapInv'
  BY DEF TypeOK, PidInv, MapInv, Gone, Spawn, Free, Goto, starting, stopping
<1>4. NoOrphan'
  BY DEF TypeOK, PidInv, MapInv, NoOrphan, BeingStopped, Spawn, Free, Goto, starting, stopping
<1> QED BY <1>1, <1>2, <1>3, <1>4

(* start puts the child into the map, over an entry of an earlier use of the pid. *)
LEMMA InsertKeeps == ASSUME IInv, NEW s \in Sessions, Insert(s) PROVE IInv'
<1> USE RunnerAssumption DEF IInv
<1>1. TypeOK'
  BY DEF TypeOK, PidInv, Insert, Goto, starting, stopping
<1>2. PidInv'
  BY DEF TypeOK, PidInv, MapInv, Insert, Goto, starting, stopping
<1>3. MapInv'
  BY DEF TypeOK, PidInv, MapInv, Gone, Insert, Goto, starting, stopping
<1>4. NoOrphan'
  BY DEF TypeOK, PidInv, MapInv, NoOrphan, BeingStopped, Insert, Goto, starting, stopping
<1> QED BY <1>1, <1>2, <1>3, <1>4

\* The start writes the pid into the session's entry.
LEMMA SetHandleKeeps == ASSUME IInv, NEW s \in Sessions, SetHandle(s) PROVE IInv'
<1> USE RunnerAssumption DEF IInv
<1>1. TypeOK'
  BY DEF TypeOK, PidInv, SetHandle, Goto, starting, stopping
<1>2. PidInv'
  BY DEF TypeOK, PidInv, MapInv, SetHandle, Goto, starting, stopping
<1>3. MapInv'
  BY DEF TypeOK, PidInv, MapInv, Gone, SetHandle, Goto, starting, stopping
<1>4. NoOrphan'
  BY DEF TypeOK, PidInv, MapInv, NoOrphan, BeingStopped, SetHandle, Goto, starting, stopping
<1> QED BY <1>1, <1>2, <1>3, <1>4

(* An answer may wait for the child that is asked about, no other.           *)
LEMMA AskFacts ==
    ASSUME IInv, NEW p \in Pids, Ask(p)
    PROVE  /\ os' \in [Sessions -> {"none", "live", "exited", "reaped"}]
           /\ \A s \in Sessions :
                 \/ os'[s] = os[s]
                 \/ os[s] = "exited" /\ os'[s] = "reaped" /\ pc[s] \notin {"idle", "insert"}
           /\ UNCHANGED children
<1> USE RunnerAssumption DEF IInv
<1>1. os \in [Sessions -> {"none", "live", "exited", "reaped"}]
  BY DEF TypeOK
<1>2. CASE children[p] = None
  BY <1>1, <1>2 DEF Ask
<1>3. CASE children[p] # None
  <2>1. children[p] \in Sessions /\ pc[children[p]] \notin {"idle", "insert"}
    BY <1>3 DEF TypeOK, MapInv
  <2>2. os' = [os EXCEPT ![children[p]] = IF os[children[p]] = "exited" THEN "reaped"
                                                           ELSE os[children[p]]]
    BY <1>3 DEF Ask, WaitFor
  <2>3. UNCHANGED children
    BY DEF Ask
  <2> QED BY <1>1, <2>1, <2>2, <2>3
<1> QED BY <1>2, <1>3

\* The liveness check after a start, which may wait for an exited child.
LEMMA CheckAliveKeeps == ASSUME IInv, NEW s \in Sessions, CheckAlive(s) PROVE IInv'
<1> USE RunnerAssumption DEF IInv
<1>1. pid[s] \in Pids /\ Ask(pid[s])
  BY DEF TypeOK, PidInv, MapInv, CheckAlive
<1>2. /\ \A t \in Sessions \ {s} : pc'[t] = pc[t]
      /\ pc[s] = "check" /\ pc'[s] \in {"up", "failed"}
      /\ pc' \in [Sessions -> {"idle", "insert", "handle", "check", "up", "failed"}]
      /\ UNCHANGED <<pid, handle, stop, token, took, lost>>
  BY DEF TypeOK, CheckAlive, Goto, stopping
<1>3. /\ os' \in [Sessions -> {"none", "live", "exited", "reaped"}]
      /\ \A t \in Sessions :
            \/ os'[t] = os[t]
            \/ os[t] = "exited" /\ os'[t] = "reaped" /\ pc[t] \notin {"idle", "insert"}
      /\ UNCHANGED children
  BY <1>1, AskFacts
<1>4. TypeOK'
  BY <1>2, <1>3 DEF TypeOK
<1>5. PidInv'
  BY <1>2, <1>3 DEF TypeOK, PidInv
<1>6. MapInv'
  BY <1>2, <1>3 DEF TypeOK, MapInv, Gone
<1>7. NoOrphan'
  BY <1>2, <1>3 DEF TypeOK, NoOrphan, BeingStopped
<1> QED BY <1>4, <1>5, <1>6, <1>7

\* is_running for a diagnostic, which may wait for an exited child.
LEMMA PollKeeps == ASSUME IInv, NEW s \in Sessions, Poll(s) PROVE IInv'
<1> USE RunnerAssumption DEF IInv
<1>1. handle[s] \in Pids /\ Ask(handle[s])
  BY DEF TypeOK, PidInv, MapInv, Poll
<1>2. UNCHANGED <<pid, pc, handle, stop, token, took, lost>>
  BY DEF Poll, starting, stopping
<1>3. /\ os' \in [Sessions -> {"none", "live", "exited", "reaped"}]
      /\ \A t \in Sessions :
            \/ os'[t] = os[t]
            \/ os[t] = "exited" /\ os'[t] = "reaped" /\ pc[t] \notin {"idle", "insert"}
      /\ UNCHANGED children
  BY <1>1, AskFacts
<1>4. TypeOK'
  BY <1>2, <1>3 DEF TypeOK
<1>5. PidInv'
  BY <1>2, <1>3 DEF TypeOK, PidInv
<1>6. MapInv'
  BY <1>2, <1>3 DEF TypeOK, MapInv, Gone
<1>7. NoOrphan'
  BY <1>2, <1>3 DEF TypeOK, NoOrphan, BeingStopped
<1> QED BY <1>4, <1>5, <1>6, <1>7

\* A teardown takes the handle out of the entry.
LEMMA TakeHandleKeeps == ASSUME IInv, NEW s \in Sessions, TakeHandle(s) PROVE IInv'
<1> USE RunnerAssumption DEF IInv
<1>1. TypeOK'
  BY DEF TypeOK, PidInv, TakeHandle, Goto, starting, stopping
<1>2. PidInv'
  BY DEF TypeOK, PidInv, MapInv, TakeHandle, Goto, starting, stopping
<1>3. MapInv'
  BY DEF TypeOK, PidInv, MapInv, Gone, TakeHandle, Goto, starting, stopping
<1>4. NoOrphan'
  BY DEF TypeOK, PidInv, MapInv, NoOrphan, BeingStopped, TakeHandle, Goto, starting, stopping
<1> QED BY <1>1, <1>2, <1>3, <1>4

(* The child leaves the map, and is the stop's from then on.                 *)
LEMMA StopRemoveKeeps == ASSUME IInv, NEW s \in Sessions, StopRemove(s) PROVE IInv'
<1> USE RunnerAssumption DEF IInv
<1>1. TypeOK'
  BY DEF TypeOK, PidInv, MapInv, StopRemove, Goto, starting, stopping
<1>2. PidInv'
  BY DEF TypeOK, PidInv, MapInv, StopRemove, Goto, starting, stopping
<1>3. MapInv'
  BY DEF TypeOK, PidInv, MapInv, Gone, StopRemove, Goto, starting, stopping
<1>4. NoOrphan'
  BY DEF TypeOK, PidInv, MapInv, NoOrphan, BeingStopped, StopRemove, Goto, starting, stopping
<1> QED BY <1>1, <1>2, <1>3, <1>4

\* stop looks whether the child it took has exited.
LEMMA StopWaitKeeps == ASSUME IInv, NEW s \in Sessions, StopWait(s) PROVE IInv'
<1> USE RunnerAssumption DEF IInv
<1>1. TypeOK'
  <2>1. /\ \A t \in Sessions : os'[t] = os[t] \/ (os[t] = "exited" /\ os'[t] = "reaped")
        /\ os' \in [Sessions -> {"none", "live", "exited", "reaped"}]
    BY DEF TypeOK, StopWait, WaitFor
  <2>2. stop' \in [Sessions -> {"no", "remove", "wait", "kill", "done"}]
    BY DEF TypeOK, StopWait
  <2>3. UNCHANGED <<pid, children, pc, handle, token, took, lost>>
    BY DEF StopWait, starting
  <2> QED BY <2>1, <2>2, <2>3 DEF TypeOK
<1>2. PidInv'
  BY DEF TypeOK, PidInv, MapInv, StopWait, WaitFor, Goto, starting, stopping
<1>3. MapInv'
  BY DEF TypeOK, PidInv, MapInv, Gone, StopWait, WaitFor, Goto, starting, stopping
<1>4. NoOrphan'
  BY DEF TypeOK, PidInv, MapInv, NoOrphan, BeingStopped, StopWait, WaitFor, Goto, starting, stopping
<1> QED BY <1>1, <1>2, <1>3, <1>4

\* stop kills the child, or fails to.
LEMMA StopKillKeeps == ASSUME IInv, NEW s \in Sessions, StopKill(s) PROVE IInv'
<1> USE RunnerAssumption DEF IInv
<1>1. took[s] \in Sessions /\ pc[took[s]] \notin {"idle", "insert"} /\ stop[s] = "kill"
  BY DEF TypeOK, MapInv, StopKill
<1>2. /\ UNCHANGED <<children, pid, pc, handle, token, took>>
      /\ stop' = [stop EXCEPT ![s] = "done"]
      /\ \/ os' = [os EXCEPT ![took[s]] = "reaped"] /\ UNCHANGED lost
         \/ lost' = lost \cup {took[s]} /\ UNCHANGED os
  BY DEF StopKill, starting
<1>3. os[took[s]] # "none"
  BY <1>1 DEF TypeOK, MapInv, PidInv
<1>4. TypeOK'
  BY <1>1, <1>2 DEF TypeOK, PidInv
<1>5. PidInv'
  BY <1>1, <1>2, <1>3 DEF TypeOK, PidInv
<1>6. MapInv'
  BY <1>1, <1>2 DEF TypeOK, MapInv, Gone
<1>7. NoOrphan'
  BY <1>1, <1>2 DEF TypeOK, PidInv, NoOrphan, BeingStopped
<1> QED BY <1>4, <1>5, <1>6, <1>7

\* A browser that exits stays in the map, waited for or not.
LEMMA ExitKeeps == ASSUME IInv, NEW s \in Sessions, Exit(s) PROVE IInv'
<1> USE RunnerAssumption DEF IInv
<1>1. TypeOK'
  BY DEF TypeOK, PidInv, Exit, Goto, starting, stopping
<1>2. PidInv'
  BY DEF TypeOK, PidInv, MapInv, Exit, Goto, starting, stopping
<1>3. MapInv'
  BY DEF TypeOK, PidInv, MapInv, Gone, Exit, Goto, starting, stopping
<1>4. NoOrphan'
  BY DEF TypeOK, PidInv, MapInv, NoOrphan, BeingStopped, Exit, Goto, starting, stopping
<1> QED BY <1>1, <1>2, <1>3, <1>4

\* Every step keeps the invariant.
LEMMA IInvStep == IInv /\ [Next]_vars => IInv'
<1> SUFFICES ASSUME IInv, [Next]_vars PROVE IInv'
  OBVIOUS
<1>1. CASE UNCHANGED vars
  BY <1>1 DEF IInv, TypeOK, PidInv, MapInv, NoOrphan, BeingStopped, Gone, vars
<1> QED
  BY <1>1, SpawnKeeps, InsertKeeps, SetHandleKeeps, CheckAliveKeeps, PollKeeps, TakeHandleKeeps,
     StopRemoveKeeps, StopWaitKeeps, StopKillKeeps, ExitKeeps
     DEF Next, Start, Stop
-----------------------------------------------------------------------------
(* Every behaviour keeps the inductive invariant.                            *)
THEOREM Inductive == Spec => []IInv
  BY IInvInit, IInvStep, PTL DEF Spec

(* Types; an entry of the map leads to the browser that was given its pid,   *)
(* and no two living browsers have one pid.                                  *)
THEOREM TypeCorrect == Spec => []TypeOK
<1>1. IInv => TypeOK
  BY DEF IInv
<1> QED BY <1>1, Inductive, PTL

(* A living browser can be reached from the end of start until a stop takes  *)
(* it, or a kill fails on it, although pids are used again.                  *)
THEOREM Reachable == Spec => []NoOrphan
<1>1. IInv => NoOrphan
  BY DEF IInv
<1> QED BY <1>1, Inductive, PTL

(* When stop has returned the browser is dead, its kill has failed, or       *)
(* another stop is at it.                                                    *)
THEOREM StopKills == Spec => []StoppedIsDead
<1>1. IInv => StoppedIsDead
  BY DEF IInv, TypeOK, MapInv, NoOrphan, StoppedIsDead, Gone
<1> QED BY <1>1, Inductive, PTL
=============================================================================
