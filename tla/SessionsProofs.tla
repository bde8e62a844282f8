--------------------------- MODULE SessionsProofs ---------------------------
(***************************************************************************)
(* Theorems about the session machine, for any number of sessions,        *)
(* profiles and stoppers.                                                  *)
(***************************************************************************)
EXTENDS Sessions, TLAPS

(* States from which a session cannot come back.                            *)
Leaving == {"closing", "destroyed", "failed"}

BeforeRegistration == {"idle", "acquire", "key", "unlock", "refused"}

(* A start that has neither failed nor been overtaken by a stop.             *)
Undisturbed(s) ==
    /\ state[s] \notin Leaving \cup {"absent"}
    /\ pc[s] \notin DownStation \cup {"fail_closed"}

(* The stations by which a start has acquired each thing.                    *)
HandleBy  == {"check", "browsing", "touch", "done"}
ClearedBy == {"launch"} \cup HandleBy
BrUpBy    == {"preflight", "probe"} \cup ClearedBy
GwUpBy    == {"start_br"} \cup BrUpBy
BrBy      == {"gateway-starting", "configure", "firewall", "start_gw"} \cup GwUpBy
GwBy      == {"prov_br"} \cup BrBy

(* The table knows a session from its registration on, and shows Browsing    *)
(* only once drive_start is past its last transition.                        *)
StationInv(s) ==
    /\ pc[s] \in BeforeRegistration <=> state[s] = "absent"
    /\ state[s] = "browsing" => pc[s] \in {"touch", "done"}

(* Nobody but a teardown takes anything from a session.                      *)
LockInv(s) ==
    (Undisturbed(s) \/ pc[s] \in {"key", "unlock"}) => lock[ProfileOf[s]] = s

ResourceInv(s) ==
    Undisturbed(s) =>
        /\ pc[s] \in HandleBy => "handle" \in refs[s]
        /\ pc[s] \in ClearedBy => Cleared(s)
        /\ ~InHost(s) =>
              /\ pc[s] \in GwBy => "gw" \in refs[s]
              /\ pc[s] \in BrBy => "br" \in refs[s]
              /\ pc[s] \in GwUpBy => vm[s]["gw"] = "running"
              /\ pc[s] \in BrUpBy => vm[s]["br"] = "running"

SessionInv(s) == StationInv(s) /\ LockInv(s) /\ ResourceInv(s)

(* stop_session moves to Closing before it tears anything down.              *)
StopperInv ==
    \A t \in Stoppers, s \in Sessions : job[t] = s => state[s] \in Leaving

IInv == TypeOK /\ StopperInv /\ \A s \in Sessions : SessionInv(s)
-----------------------------------------------------------------------------
(* A task that is tearing something down has a session to tear down.         *)
LEMMA SubjectType ==
    ASSUME TypeOK, NEW a \in Actors, pc[a] \in DownStation
    PROVE  Subject(a) \in Sessions
  BY SessionsAssumption DEF TypeOK, TaskTypes, TaskShape, Subject, Actors, DownStation

(* Next, sorted by who takes the step.                                       *)
LEMMA NextCases ==
    Next => \/ \E s \in Sessions :
                  \/ Begin(s) \/ Refuse(s) \/ AcquireLock(s) \/ KeyFails(s)
                  \/ Register(s) \/ Unlock(s) \/ Drive(s) \/ BrowserExits(s)
            \/ \E a \in Actors : Teardown(a)
            \/ \E t \in Stoppers, s \in Sessions : BeginStop(t, s)
  BY Zenon DEF Next, StartStep, Actors

-----------------------------------------------------------------------------
(* Type correctness.                                                        *)

\* The initial state is of the right types.
LEMMA TypeInit == Init => TypeOK
  BY SessionsAssumption
     DEF Init, TypeOK, TableTypes, WorldTypes, TaskTypes, TaskShape, Actors,
         Roles, Resources, Station, StartStation, Climb, DownStation, Outcome,
         SessionState

(* A step of a start moves that task from one station to another and touches *)
(* no other task.                                                            *)
StartMove(s) ==
    /\ pc[s] \notin DownStation
    /\ \E x \in Station : Goto(s, x)
    /\ UNCHANGED <<job, held>>
    /\ err' \in [Sessions -> Outcome \cup {"none"}]

\* A StartMove keeps the types of the tasks and the shape of what they hold.
LEMMA StartMoveType ==
    ASSUME TaskTypes, TaskShape, NEW s \in Sessions, StartMove(s)
    PROVE  TaskTypes' /\ TaskShape'
<1>1. PICK x \in Station : Goto(s, x)
  BY DEF StartMove
<1>2. s \in Actors /\ s \notin Stoppers
  BY SessionsAssumption DEF Actors
<1>3. pc' \in [Actors -> Station] /\ \A b \in Actors : b # s => pc'[b] = pc[b]
  BY <1>1, <1>2 DEF TaskTypes, Goto
<1>4. held[s] = {}
  BY <1>2 DEF TaskShape, StartMove, DownStation
<1>5. TaskTypes'
  BY <1>3 DEF TaskTypes, StartMove
<1>6. \A a \in Actors : held'[a] # {} => pc'[a] = "teardown"
  BY <1>3, <1>4 DEF TaskShape, StartMove
<1>7. \A t \in Stoppers : pc'[t] = pc[t] /\ job'[t] = job[t]
  BY <1>2, <1>3 DEF Actors, StartMove
<1> QED
  BY <1>5, <1>6, <1>7 DEF TaskShape

\* Every step of a start keeps the types and is a StartMove.
LEMMA StartTypes ==
    ASSUME TypeOK, NEW s \in Sessions,
           \/ Begin(s) \/ Refuse(s) \/ AcquireLock(s) \/ KeyFails(s)
           \/ Register(s) \/ Unlock(s) \/ Drive(s)
    PROVE  TypeOK' /\ StartMove(s)
<1> SUFFICES StartMove(s) /\ TableTypes' /\ WorldTypes'
  BY StartMoveType DEF TypeOK
<1> USE DEF TypeOK
<1>1. ASSUME Begin(s)
     PROVE  StartMove(s) /\ TableTypes' /\ WorldTypes'
  <2>1. StartMove(s)
    BY <1>1 DEF StartMove, Begin, Raise, Station, StartStation, Climb,
        DownStation, TaskTypes, Outcome
  <2>2. TableTypes'
    BY <1>1 DEF Begin, TableTypes, tableVars
  <2>3. WorldTypes'
    BY <1>1 DEF Begin, WorldTypes, worldVars
  <2> QED BY <2>1, <2>2, <2>3
<1>2. ASSUME Refuse(s)
     PROVE  StartMove(s) /\ TableTypes' /\ WorldTypes'
  <2>1. StartMove(s)
    BY <1>2 DEF StartMove, Refuse, Raise, Station, StartStation, Climb,
        DownStation, TaskTypes, Outcome
  <2>2. TableTypes'
    BY <1>2 DEF Refuse, TableTypes, tableVars
  <2>3. WorldTypes'
    BY <1>2 DEF Refuse, WorldTypes, worldVars
  <2> QED BY <2>1, <2>2, <2>3
<1>3. ASSUME AcquireLock(s)
     PROVE  StartMove(s) /\ TableTypes' /\ WorldTypes'
  <2>1. StartMove(s)
    BY <1>3 DEF StartMove, AcquireLock, Raise, Station, StartStation, Climb,
        DownStation, TaskTypes, Outcome
  <2>2. TableTypes'
    BY <1>3 DEF AcquireLock, TableTypes, tableVars
  <2>3. WorldTypes'
    BY SessionsAssumption, <1>3 DEF AcquireLock, Botch, WorldTypes
  <2> QED BY <2>1, <2>2, <2>3
<1>4. ASSUME KeyFails(s)
     PROVE  StartMove(s) /\ TableTypes' /\ WorldTypes'
  <2>1. StartMove(s)
    BY <1>4 DEF StartMove, KeyFails, Raise, Station, StartStation, Climb,
        DownStation, TaskTypes, Outcome
  <2>2. TableTypes'
    BY <1>4 DEF KeyFails, TableTypes, tableVars
  <2>3. WorldTypes'
    BY <1>4 DEF KeyFails, WorldTypes, worldVars
  <2> QED BY <2>1, <2>2, <2>3
<1>5. ASSUME Register(s)
     PROVE  StartMove(s) /\ TableTypes' /\ WorldTypes'
  <2>1. StartMove(s)
    BY <1>5 DEF StartMove, Register, Raise, Station, StartStation, Climb,
        DownStation, TaskTypes, Outcome
  <2>2. TableTypes'
    BY <1>5 DEF Register, TableTypes, SessionState
  <2>3. WorldTypes'
    BY <1>5 DEF Register, WorldTypes, worldVars
  <2> QED BY <2>1, <2>2, <2>3
<1>6. ASSUME Unlock(s)
     PROVE  StartMove(s) /\ TableTypes' /\ WorldTypes'
  <2>1. StartMove(s)
    BY <1>6 DEF StartMove, Unlock, ReleaseLock, Botch, Raise, Station, StartStation, Climb,
        DownStation, TaskTypes, Outcome
  <2>2. TableTypes'
    BY <1>6 DEF Unlock, TableTypes, tableVars
  <2>3. WorldTypes'
    BY SessionsAssumption, <1>6 DEF Unlock, ReleaseLock, Botch, WorldTypes
  <2> QED BY <2>1, <2>2, <2>3
<1>7. ASSUME ClimbTo(s)
     PROVE  StartMove(s) /\ TableTypes' /\ WorldTypes'
  <2>1. PICK next \in Climb : pc[s] = next /\ Transition(s, next)
    BY <1>7 DEF ClimbTo
  <2>2. AfterClimb(s, next) \in Station
    BY DEF AfterClimb, Station, StartStation, Climb
  <2>3. StartMove(s)
    BY <1>7, <2>1, <2>2
    DEF StartMove, ClimbTo, Transition, Raise, Station, StartStation, Climb,
        DownStation, TaskTypes, Outcome
  <2>4. TableTypes'
    BY <1>7, <2>1 DEF ClimbTo, Transition, TableTypes, Climb, SessionState
  <2>5. WorldTypes'
    BY <1>7 DEF ClimbTo, WorldTypes, worldVars
  <2> QED BY <2>3, <2>4, <2>5
<1>8. ASSUME ResolveEndpoint(s)
     PROVE  StartMove(s) /\ TableTypes' /\ WorldTypes'
  <2>1. StartMove(s)
    BY <1>8 DEF StartMove, ResolveEndpoint, Raise, Station, StartStation, Climb,
        DownStation, TaskTypes, Outcome
  <2>2. TableTypes'
    BY <1>8 DEF ResolveEndpoint, TableTypes, tableVars
  <2>3. WorldTypes'
    BY <1>8 DEF ResolveEndpoint, WorldTypes, worldVars
  <2> QED BY <2>1, <2>2, <2>3
<1>9. ASSUME NEW role \in Roles, Provision(s, role)
     PROVE  StartMove(s) /\ TableTypes' /\ WorldTypes'
  <2>1. StartMove(s)
    BY <1>9 DEF StartMove, Provision, Raise, Station, StartStation, Climb,
        DownStation, TaskTypes, Outcome
  <2>2. TableTypes'
    <3>1. refs' = refs \/ refs' = [refs EXCEPT ![s] = refs[s] \cup {role}]
      BY <1>9 DEF Provision
    <3>2. refs \in [Sessions -> SUBSET Resources] /\ role \in Resources
      BY DEF TableTypes, Roles, Resources
    <3>3. refs' \in [Sessions -> SUBSET Resources]
      BY <3>1, <3>2
    <3> QED BY <1>9, <3>3 DEF Provision, TableTypes
  <2>3. WorldTypes'
    <3>1. vm' = [vm EXCEPT ![s][role] = "defined"] \/ vm' = vm
      BY <1>9 DEF Provision
    <3>2. vm \in [Sessions -> [Roles -> {"none", "defined", "running", "gone"}]]
      BY DEF WorldTypes
    <3>3. vm' \in [Sessions -> [Roles -> {"none", "defined", "running", "gone"}]]
      BY <3>1, <3>2
    <3> QED BY <1>9, <3>3 DEF Provision, WorldTypes
  <2> QED BY <2>1, <2>2, <2>3
<1>10. ASSUME Configure(s)
     PROVE  StartMove(s) /\ TableTypes' /\ WorldTypes'
  <2>1. StartMove(s)
    BY <1>10 DEF StartMove, Configure, Raise, Station, StartStation, Climb,
        DownStation, TaskTypes, Outcome
  <2>2. TableTypes'
    BY <1>10 DEF Configure, TableTypes, tableVars
  <2>3. WorldTypes'
    BY SessionsAssumption, <1>10 DEF Configure, WorldTypes
  <2> QED BY <2>1, <2>2, <2>3
<1>11. ASSUME ApplyFirewall(s)
     PROVE  StartMove(s) /\ TableTypes' /\ WorldTypes'
  <2>1. StartMove(s)
    BY <1>11 DEF StartMove, ApplyFirewall, Raise, Station, StartStation, Climb,
        DownStation, TaskTypes, Outcome
  <2>2. TableTypes'
    BY <1>11 DEF ApplyFirewall, TableTypes, tableVars
  <2>3. WorldTypes'
    BY SessionsAssumption, <1>11 DEF ApplyFirewall, WorldTypes
  <2> QED BY <2>1, <2>2, <2>3
<1>12. ASSUME NEW role \in Roles, StartVm(s, role)
     PROVE  StartMove(s) /\ TableTypes' /\ WorldTypes'
  <2>1. StartMove(s)
    BY <1>12 DEF StartMove, StartVm, Raise, Station, StartStation, Climb,
        DownStation, TaskTypes, Outcome
  <2>2. TableTypes'
    BY <1>12 DEF StartVm, TableTypes, tableVars
  <2>3. WorldTypes'
    <3>1. \/ vm' = [vm EXCEPT ![s][role] = "running"]
          \/ vm' = vm
      BY <1>12 DEF StartVm
    <3>2. vm' \in [Sessions -> [Roles -> {"none", "defined", "running", "gone"}]]
      <4>1. vm \in [Sessions -> [Roles -> {"none", "defined", "running", "gone"}]]
        BY DEF WorldTypes
      <4> QED BY <3>1, <4>1
    <3> QED BY <1>12, <3>2 DEF StartVm, WorldTypes
  <2> QED BY <2>1, <2>2, <2>3
<1>13. ASSUME RunPreflight(s)
     PROVE  StartMove(s) /\ TableTypes' /\ WorldTypes'
  <2>1. StartMove(s)
    BY <1>13 DEF StartMove, RunPreflight, Raise, Station, StartStation, Climb,
        DownStation, TaskTypes, Outcome
  <2>2. TableTypes'
    BY <1>13 DEF RunPreflight, TableTypes
  <2>3. WorldTypes'
    BY <1>13 DEF RunPreflight, WorldTypes, worldVars
  <2> QED BY <2>1, <2>2, <2>3
<1>14. ASSUME ProbeProxy(s)
     PROVE  StartMove(s) /\ TableTypes' /\ WorldTypes'
  <2>1. StartMove(s)
    BY <1>14 DEF StartMove, ProbeProxy, Raise, Station, StartStation, Climb,
        DownStation, TaskTypes, Outcome
  <2>2. TableTypes'
    BY <1>14 DEF ProbeProxy, TableTypes, Roles, Resources
  <2>3. WorldTypes'
    BY <1>14 DEF ProbeProxy, WorldTypes, worldVars
  <2> QED BY <2>1, <2>2, <2>3
<1>15. ASSUME Launch(s)
     PROVE  StartMove(s) /\ TableTypes' /\ WorldTypes'
  <2>1. StartMove(s)
    BY <1>15 DEF StartMove, Launch, Raise, Station, StartStation, Climb,
        DownStation, TaskTypes, Outcome
  <2>2. TableTypes'
    BY <1>15 DEF Launch, TableTypes, Roles, Resources
  <2>3. WorldTypes'
    BY SessionsAssumption, <1>15 DEF Launch, WorldTypes
  <2> QED BY <2>1, <2>2, <2>3
<1>16. ASSUME CheckAlive(s)
     PROVE  StartMove(s) /\ TableTypes' /\ WorldTypes'
  <2>1. StartMove(s)
    BY <1>16 DEF StartMove, CheckAlive, Raise, Station, StartStation, Climb,
        DownStation, TaskTypes, Outcome
  <2>2. TableTypes'
    BY <1>16 DEF CheckAlive, TableTypes, tableVars
  <2>3. WorldTypes'
    BY <1>16 DEF CheckAlive, WorldTypes, worldVars
  <2> QED BY <2>1, <2>2, <2>3
<1>17. ASSUME Touch(s)
     PROVE  StartMove(s) /\ TableTypes' /\ WorldTypes'
  <2>1. StartMove(s)
    BY <1>17 DEF StartMove, Touch, Raise, Station, StartStation, Climb,
        DownStation, TaskTypes, Outcome
  <2>2. TableTypes'
    BY <1>17 DEF Touch, TableTypes, tableVars
  <2>3. WorldTypes'
    BY <1>17 DEF Touch, WorldTypes, worldVars
  <2> QED BY <2>1, <2>2, <2>3
<1>18. ASSUME FailClosed(s)
     PROVE  StartMove(s) /\ TableTypes' /\ WorldTypes'
  <2>1. StartMove(s)
    BY <1>18 DEF StartMove, FailClosed, Raise, Station, StartStation, Climb,
        DownStation, TaskTypes, Outcome
  <2>2. TableTypes'
    BY <1>18 DEF FailClosed, TableTypes, tableVars
  <2>3. WorldTypes'
    BY SessionsAssumption, <1>18 DEF FailClosed, WorldTypes
  <2> QED BY <2>1, <2>2, <2>3
<1> QED
  BY <1>1, <1>2, <1>3, <1>4, <1>5, <1>6, <1>7, <1>8, <1>9, <1>10, <1>11, <1>12, <1>13, <1>14, <1>15, <1>16, <1>17, <1>18 DEF Drive

\* The steps of a teardown, of a start or of a stopper, keep the types.
LEMMA TeardownTypes ==
    ASSUME TypeOK, NEW a \in Actors, Teardown(a)
    PROVE  TypeOK'
<1> DEFINE s == Subject(a)
<1> USE DEF TypeOK
<1>1. pc[a] \in DownStation
  BY DEF Teardown, Snapshot, TerminateBrowser, RemoveDir, DestroyVm, ReleaseLease,
         Finish, DownStation
<1>2. s \in Sessions
  BY <1>1, SubjectType
<1>3. \A t \in Stoppers : job[t] \in Sessions \cup {Free} /\ t \in Actors
  BY DEF TaskTypes, Actors
<1> HIDE DEF s
<1>4. ASSUME Snapshot(a) PROVE TypeOK'
  <2> USE <1>4 DEF Snapshot
  <2>1. TableTypes' BY <1>2 DEF TableTypes, s
  <2>2. WorldTypes' BY DEF WorldTypes, worldVars
  <2>3. refs[s] \in SUBSET Resources BY <1>2 DEF TableTypes
  <2>4. TaskTypes'
    BY <2>3 DEF TaskTypes, Goto, Station, DownStation, s
  <2>5. TaskShape'
    BY <1>1, <1>3 DEF TaskTypes, TaskShape, Goto, DownStation
  <2> QED BY <2>1, <2>2, <2>4, <2>5
<1>5. ASSUME NEW resource, Dispatched(a, resource), UNCHANGED <<pc, job, err>>,
             pc[a] = "teardown"
      PROVE  TaskTypes' /\ TaskShape'
  BY <1>5, <1>3 DEF TaskTypes, TaskShape, Dispatched
<1>6. ASSUME TerminateBrowser(a) PROVE TypeOK'
  <2>1. TaskTypes' /\ TaskShape' BY <1>5, <1>6 DEF TerminateBrowser
  <2>2. TableTypes' BY <1>6 DEF TerminateBrowser, TableTypes, tableVars
  <2>3. WorldTypes'
    BY <1>2, <1>6 DEF TerminateBrowser, WorldTypes, Botch, Resources, s
  <2> QED BY <2>1, <2>2, <2>3
<1>7. ASSUME RemoveDir(a) PROVE TypeOK'
  <2>1. TaskTypes' /\ TaskShape' BY <1>5, <1>7 DEF RemoveDir
  <2>2. TableTypes' BY <1>7 DEF RemoveDir, TableTypes, tableVars
  <2>3. WorldTypes'
    BY <1>2, <1>7 DEF RemoveDir, WorldTypes, Botch, Resources, s
  <2> QED BY <2>1, <2>2, <2>3
<1>8. ASSUME NEW role \in Roles, DestroyVm(a, role) PROVE TypeOK'
  <2>1. TaskTypes' /\ TaskShape' BY <1>5, <1>8 DEF DestroyVm
  <2>2. TableTypes' BY <1>8 DEF DestroyVm, TableTypes, tableVars
  <2>3. vm' \in [Sessions -> [Roles -> {"none", "defined", "running", "gone"}]]
    <3>1. vm' = [vm EXCEPT ![s][role] = "gone"] \/ vm' = vm
      BY <1>8 DEF DestroyVm, s
    <3>2. vm \in [Sessions -> [Roles -> {"none", "defined", "running", "gone"}]]
      BY DEF WorldTypes
    <3> QED BY <3>1, <3>2, <1>2
  <2>4. browser' \in [Sessions -> {"none", "live", "dead"}]
    BY <1>2, <1>8 DEF DestroyVm, WorldTypes, s
  <2>5. botched' \subseteq Sessions \X (Resources \cup {"lock", "token"})
    BY <1>2, <1>8 DEF DestroyVm, WorldTypes, Botch, Resources, Roles, s
  <2>6. WorldTypes' BY <1>8, <2>3, <2>4, <2>5 DEF DestroyVm, WorldTypes
  <2> QED BY <2>1, <2>2, <2>6
<1>9. ASSUME ReleaseLease(a) PROVE TypeOK'
  <2>1. TableTypes' BY <1>9 DEF ReleaseLease, TableTypes, tableVars
  <2>2. WorldTypes'
    BY SessionsAssumption, <1>2, <1>9 DEF ReleaseLease, ReleaseLock, Botch, WorldTypes, s
  <2>3. TaskTypes'
    BY <1>9 DEF ReleaseLease, TaskTypes, Goto, Station, DownStation
  <2>4. TaskShape'
    BY <1>1, <1>3, <1>9 DEF ReleaseLease, TaskTypes, TaskShape, Goto, DownStation
  <2> QED BY <2>1, <2>2, <2>3, <2>4
<1>10. ASSUME Finish(a) PROVE TypeOK'
  <2>1. TableTypes'
    BY <1>2, <1>10 DEF Finish, TableTypes, SessionState, s
  <2>2. WorldTypes' BY <1>10 DEF Finish, WorldTypes, worldVars
  <2>3. TaskTypes'
    BY <1>10 DEF Finish, TaskTypes, Goto, Station, StartStation
  <2>4. \A b \in Actors : held'[b] # {} => pc'[b] = "teardown"
    BY <1>10 DEF Finish, TaskTypes, TaskShape, Goto
  <2>5. \A t \in Stoppers :
           IF job'[t] = Free THEN pc'[t] = "idle" ELSE pc'[t] \in DownStation
    <3> TAKE t \in Stoppers
    <3>1. t \notin Sessions BY SessionsAssumption
    <3>2. CASE t = a
      BY <1>10, <3>1, <3>2 DEF Finish, TaskTypes, Goto
    <3>3. CASE t # a
      <4>1. pc'[t] = pc[t] /\ job'[t] = job[t]
        BY <1>3, <1>10, <3>3 DEF Finish, TaskTypes, Goto
      <4> QED BY <4>1 DEF TaskShape
    <3> QED BY <3>2, <3>3
  <2>6. TaskShape' BY <2>4, <2>5 DEF TaskShape
  <2> QED BY <2>1, <2>2, <2>3, <2>6
<1> QED
  BY <1>4, <1>6, <1>7, <1>8, <1>9, <1>10 DEF Teardown

\* A stop that begins keeps the types.
LEMMA BeginStopTypes ==
    ASSUME TypeOK, NEW t \in Stoppers, NEW s \in Sessions, BeginStop(t, s)
    PROVE  TypeOK'
<1> USE DEF TypeOK
<1>1. t \in Actors /\ s # Free /\ \A u \in Stoppers : u \in Actors
  BY SessionsAssumption DEF Actors
<1>2. TableTypes' BY DEF BeginStop, TableTypes, SessionState
<1>3. WorldTypes' BY DEF BeginStop, WorldTypes, worldVars
<1>4. TaskTypes'
  BY DEF BeginStop, TaskTypes, Goto, Station, DownStation
<1>5. TaskShape'
  BY <1>1 DEF BeginStop, TaskTypes, TaskShape, Goto, DownStation
<1> QED BY <1>2, <1>3, <1>4, <1>5

\* A browser that exits keeps the types.
LEMMA BrowserExitsTypes ==
    ASSUME TypeOK, NEW s \in Sessions, BrowserExits(s)
    PROVE  TypeOK'
  BY DEF BrowserExits, TypeOK, TableTypes, WorldTypes, TaskTypes, TaskShape,
         tableVars, taskVars

\* Every step keeps the types.
LEMMA TypeStep ==
    ASSUME TypeOK, [Next]_vars
    PROVE  TypeOK'
<1>1. CASE UNCHANGED vars
  BY <1>1 DEF TypeOK, TableTypes, WorldTypes, TaskTypes, TaskShape, vars,
              tableVars, worldVars, taskVars
<1>2. CASE Next
  BY <1>2, NextCases, StartTypes, BrowserExitsTypes, TeardownTypes, BeginStopTypes
<1> QED BY <1>1, <1>2

(* Every reachable state is well typed, and only a task that is tearing a    *)
(* session down holds any of its resources.                                  *)
THEOREM SessionsType == Spec => []TypeOK
<1>1. TypeOK /\ [Next]_vars => TypeOK'
  BY TypeStep
<1> QED
  BY TypeInit, <1>1, PTL DEF Spec

-----------------------------------------------------------------------------
(* A session that is browsing is whole.                                      *)

\* The invariant holds initially.
LEMMA IInvInit == Init => IInv
<1> SUFFICES ASSUME Init PROVE IInv
  OBVIOUS
<1>1. TypeOK
  BY TypeInit
<1>2. StopperInv
  BY SessionsAssumption DEF Init, StopperInv
<1>3. \A s \in Sessions : pc[s] = "idle" /\ state[s] = "absent"
  BY DEF Init, Actors
<1>4. \A s \in Sessions : SessionInv(s)
  BY <1>3 DEF SessionInv, StationInv, LockInv, ResourceInv, Undisturbed, BeforeRegistration
<1> QED BY <1>1, <1>2, <1>4 DEF IInv

(* What a step that is none of its business leaves alone of a session.       *)
Same(s) ==
    /\ pc'[s] = pc[s]
    /\ state'[s] = state[s]
    /\ refs'[s] = refs[s]
    /\ protection'[s] = protection[s]
    /\ vm'[s] = vm[s]
    /\ lock[ProfileOf[s]] = s => lock'[ProfileOf[s]] = s

\* A session's part of the invariant speaks of its own entry, resources and lock.
LEMMA SameKeeps ==
    ASSUME NEW s \in Sessions, SessionInv(s), Same(s)
    PROVE  SessionInv(s)'
<1> USE DEF Same
<1>1. StationInv(s)' BY DEF SessionInv, StationInv
<1>2. Undisturbed(s)' <=> Undisturbed(s) BY DEF Undisturbed
<1>3. LockInv(s)' BY <1>2 DEF SessionInv, LockInv
<1>4. Cleared(s)' <=> Cleared(s) BY DEF Cleared
<1>5. ResourceInv(s)' BY <1>2, <1>4 DEF SessionInv, ResourceInv
<1> QED BY <1>1, <1>3, <1>5 DEF SessionInv

(* A session that is on its way out owes nothing but its place in the table. *)
LEMMA LeavingKeeps ==
    ASSUME NEW s \in Sessions,
           pc'[s] \notin BeforeRegistration,
           state'[s] \notin {"absent", "browsing"},
           state'[s] \in Leaving \/ pc'[s] \in DownStation \cup {"fail_closed"}
    PROVE  SessionInv(s)'
<1>1. ~Undisturbed(s)'
  BY DEF Undisturbed
<1> QED
  BY <1>1 DEF SessionInv, StationInv, LockInv, ResourceInv, BeforeRegistration

(* ReleaseLock(s) takes the lock from nobody but s.                          *)
LEMMA ReleaseSpares ==
    ASSUME TypeOK, NEW s \in Sessions, NEW r \in Sessions, r # s, ReleaseLock(s),
           lock[ProfileOf[r]] = r
    PROVE  lock'[ProfileOf[r]] = r
  BY SessionsAssumption DEF ReleaseLock, TypeOK, WorldTypes

(* The steps of a start leave the other sessions alone.                      *)
LEMMA StartSpares ==
    ASSUME TypeOK, NEW s \in Sessions,
           \/ Begin(s) \/ Refuse(s) \/ AcquireLock(s) \/ KeyFails(s)
           \/ Register(s) \/ Unlock(s) \/ Drive(s) \/ BrowserExits(s),
           NEW r \in Sessions, r # s
    PROVE  Same(r)
<1> USE DEF TypeOK
<1>1. \/ \E x \in Station : Goto(s, x)
      \/ pc' = pc
  BY StartTypes DEF StartMove, BrowserExits, taskVars
<1>2. pc'[r] = pc[r]
  BY <1>1 DEF Goto, TaskTypes, Actors
<1>3. state'[r] = state[r]
  BY DEF TableTypes, Begin, Refuse, AcquireLock, KeyFails, Register, Unlock, Drive,
         BrowserExits, ClimbTo, Transition, ResolveEndpoint, Provision, Configure,
         ApplyFirewall, StartVm, RunPreflight, ProbeProxy, Launch, CheckAlive, Touch,
         FailClosed, tableVars
<1>4. refs'[r] = refs[r]
  BY DEF TableTypes, Begin, Refuse, AcquireLock, KeyFails, Register, Unlock, Drive,
         BrowserExits, ClimbTo, Transition, ResolveEndpoint, Provision, Configure,
         ApplyFirewall, StartVm, RunPreflight, ProbeProxy, Launch, CheckAlive, Touch,
         FailClosed, tableVars
<1>5. protection'[r] = protection[r]
  BY DEF TableTypes, Begin, Refuse, AcquireLock, KeyFails, Register, Unlock, Drive,
         BrowserExits, ClimbTo, Transition, ResolveEndpoint, Provision, Configure,
         ApplyFirewall, StartVm, RunPreflight, ProbeProxy, Launch, CheckAlive, Touch,
         FailClosed, tableVars
<1>6. vm'[r] = vm[r]
  BY DEF WorldTypes, Begin, Refuse, AcquireLock, KeyFails, Register, Unlock, Drive,
         BrowserExits, ClimbTo, ResolveEndpoint, Provision, Configure,
         ApplyFirewall, StartVm, RunPreflight, ProbeProxy, Launch, CheckAlive, Touch,
         FailClosed, worldVars
<1>7. lock[ProfileOf[r]] = r => lock'[ProfileOf[r]] = r
  <2>1. CASE AcquireLock(s)
    BY <2>1, SessionsAssumption DEF AcquireLock, WorldTypes
  <2>2. CASE Unlock(s)
    BY <2>2, ReleaseSpares DEF Unlock
  <2>3. CASE ~AcquireLock(s) /\ ~Unlock(s)
    BY <2>3 DEF Begin, Refuse, KeyFails, Register, Drive,
         BrowserExits, ClimbTo, ResolveEndpoint, Provision, Configure,
         ApplyFirewall, StartVm, RunPreflight, ProbeProxy, Launch, CheckAlive, Touch,
         FailClosed, worldVars
  <2> QED BY <2>1, <2>2, <2>3
<1> QED BY <1>2, <1>3, <1>4, <1>5, <1>6, <1>7 DEF Same

(* The steps of a start keep the invariant of its own session.               *)
LEMMA StartKeeps ==
    ASSUME TypeOK, NEW s \in Sessions, SessionInv(s),
           \/ Begin(s) \/ Refuse(s) \/ AcquireLock(s) \/ KeyFails(s)
           \/ Register(s) \/ Unlock(s) \/ Drive(s) \/ BrowserExits(s)
    PROVE  SessionInv(s)'
<1> USE DEF TypeOK
<1>1. s \in Actors /\ pc[s] \in Station /\ state[s] \in SessionState \cup {"absent"}
  BY DEF Actors, TaskTypes, TableTypes
<1>2. \A x : Goto(s, x) => pc'[s] = x
  BY <1>1 DEF TaskTypes, Goto
<1>3. ASSUME pc[s] \notin BeforeRegistration \cup {"touch", "done"}, state' = state,
             \E class \in Outcome : Raise(s, class)
      PROVE  SessionInv(s)'
  BY <1>1, <1>2, <1>3, LeavingKeeps
     DEF SessionInv, StationInv, Raise, BeforeRegistration, Leaving, DownStation
<1>4. ASSUME Begin(s) \/ Refuse(s) PROVE SessionInv(s)'
  BY <1>1, <1>2, <1>4
     DEF SessionInv, StationInv, LockInv, ResourceInv, Begin, Refuse, Undisturbed,
         BeforeRegistration, tableVars, Leaving
<1>5. ASSUME AcquireLock(s) PROVE SessionInv(s)'
  <2>1. \/ pc'[s] = "key" /\ lock'[ProfileOf[s]] = s
        \/ pc'[s] = "refused"
    <3>1. lock' = [lock EXCEPT ![ProfileOf[s]] = s] => lock'[ProfileOf[s]] = s
      BY SessionsAssumption DEF WorldTypes
    <3> QED BY <1>2, <1>5, <3>1 DEF AcquireLock
  <2> QED
    BY <1>1, <1>2, <1>5, <2>1
       DEF SessionInv, StationInv, LockInv, ResourceInv, AcquireLock, Undisturbed,
           BeforeRegistration, tableVars, Leaving
<1>6. ASSUME KeyFails(s) PROVE SessionInv(s)'
  BY <1>1, <1>2, <1>6
     DEF SessionInv, StationInv, LockInv, ResourceInv, KeyFails, Undisturbed,
         BeforeRegistration, tableVars, worldVars, Leaving
<1>7. ASSUME Register(s) PROVE SessionInv(s)'
  <2>1. state'[s] = "requested" /\ lock'[ProfileOf[s]] = s
    BY <1>7 DEF Register, TableTypes, SessionInv, LockInv, worldVars
  <2>2. pc'[s] \in {"endpoint", "provisioning"}
    BY <1>2, <1>7 DEF Register
  <2> QED
    BY <2>1, <2>2
       DEF SessionInv, StationInv, LockInv, ResourceInv, BeforeRegistration,
           HandleBy, ClearedBy, BrUpBy, GwUpBy, BrBy, GwBy
<1>8. ASSUME Unlock(s) PROVE SessionInv(s)'
  BY <1>1, <1>2, <1>8
     DEF SessionInv, StationInv, LockInv, ResourceInv, Unlock, Undisturbed,
         BeforeRegistration, tableVars, Leaving
<1>9. ASSUME BrowserExits(s) PROVE SessionInv(s)'
  <2>1. Same(s)
    BY <1>9 DEF BrowserExits, Same, tableVars, taskVars
  <2> QED BY <2>1, SameKeeps
<1>10. ASSUME ClimbTo(s) PROVE SessionInv(s)'
  <2>1. PICK next \in Climb : pc[s] = next /\ Transition(s, next)
    BY <1>10 DEF ClimbTo
  <2>2. CASE next \notin AllowedNext[state[s]]
    BY <1>3, <1>10, <2>1, <2>2
       DEF Transition, ClimbTo, BeforeRegistration, Climb, Raise, Outcome
  <2>3. CASE next \in AllowedNext[state[s]]
    <3>1. state'[s] = next /\ pc'[s] = AfterClimb(s, next)
      BY <1>1, <1>2, <2>1, <2>3 DEF Transition, TableTypes
    <3>2. state[s] \in SessionState \ Leaving
      BY <1>1, <2>1, <2>3
         DEF SessionInv, StationInv, BeforeRegistration, AllowedNext, Climb, Leaving,
             SessionState
    <3>3. Undisturbed(s)
      BY <2>1, <3>2 DEF Undisturbed, Climb, DownStation, SessionState, Leaving
    <3>4. LockInv(s)'
      BY <1>10, <3>3 DEF SessionInv, LockInv, ClimbTo, worldVars
    <3>5. StationInv(s)'
      BY <2>1, <3>1
         DEF StationInv, AfterClimb, Climb, BeforeRegistration
    <3>6. Cleared(s)' <=> Cleared(s)
      BY <1>10 DEF ClimbTo, Cleared
    <3>7. refs' = refs /\ vm' = vm
      BY <1>10 DEF ClimbTo, worldVars
    <3>8. ResourceInv(s)'
      BY <2>1, <3>1, <3>3, <3>6, <3>7
         DEF SessionInv, ResourceInv, AfterClimb, Climb, HandleBy, ClearedBy, BrUpBy,
             GwUpBy, BrBy, GwBy
    <3> QED BY <3>4, <3>5, <3>8 DEF SessionInv
  <2> QED BY <2>2, <2>3
<1>11. ASSUME ResolveEndpoint(s) PROVE SessionInv(s)'
  <2>1. CASE Raise(s, "plain")
    BY <1>3, <1>11, <2>1 DEF ResolveEndpoint, BeforeRegistration, tableVars, Outcome
  <2>2. CASE Goto(s, "provisioning")
    BY <1>1, <1>2, <1>11, <2>2
       DEF SessionInv, StationInv, LockInv, ResourceInv, ResolveEndpoint, Undisturbed,
           BeforeRegistration, tableVars, worldVars, DownStation,
           HandleBy, ClearedBy, BrUpBy, GwUpBy, BrBy, GwBy
  <2> QED BY <1>11, <2>1, <2>2 DEF ResolveEndpoint
<1>12. ASSUME NEW role \in Roles, Provision(s, role) PROVE SessionInv(s)'
  <2>1. CASE \E class \in Outcome : Raise(s, class)
    BY <1>3, <1>12, <2>1 DEF Provision, BeforeRegistration, Roles
  <2>2. CASE refs' = [refs EXCEPT ![s] = @ \cup {role}]
             /\ Goto(s, IF role = "gw" THEN "prov_br" ELSE "gateway-starting")
    <3>1. role \in refs'[s] /\ refs[s] \subseteq refs'[s]
      BY <2>2 DEF TableTypes
    <3>2. pc'[s] = IF role = "gw" THEN "prov_br" ELSE "gateway-starting"
      BY <1>2, <2>2
    <3>3. pc[s] = IF role = "gw" THEN "prov_gw" ELSE "prov_br"
      BY <1>12 DEF Provision
    <3>4. state' = state /\ lock' = lock
      BY <1>12 DEF Provision
    <3>5. Undisturbed(s)' => Undisturbed(s)
      BY <3>3, <3>4 DEF Undisturbed, DownStation
    <3>6. StationInv(s)' /\ LockInv(s)'
      BY <3>2, <3>3, <3>4, <3>5
         DEF SessionInv, StationInv, LockInv, BeforeRegistration
    <3>7. ResourceInv(s)'
      BY <3>1, <3>2, <3>3, <3>5
         DEF SessionInv, ResourceInv, Roles, HandleBy, ClearedBy, BrUpBy, GwUpBy, BrBy, GwBy
    <3> QED BY <3>6, <3>7 DEF SessionInv
  <2> QED BY <1>12, <2>1, <2>2 DEF Provision
<1>13. ASSUME Configure(s) PROVE SessionInv(s)'
  <2>1. CASE \E class \in Outcome : Raise(s, class)
    BY <1>3, <1>13, <2>1 DEF Configure, BeforeRegistration, tableVars
  <2>2. CASE Goto(s, "firewall")
    BY <1>1, <1>2, <1>13, <2>2
       DEF SessionInv, StationInv, LockInv, ResourceInv, Configure, Undisturbed,
           BeforeRegistration, tableVars, DownStation,
           HandleBy, ClearedBy, BrUpBy, GwUpBy, BrBy, GwBy
  <2> QED BY <1>13, <2>1, <2>2 DEF Configure
<1>14. ASSUME ApplyFirewall(s) PROVE SessionInv(s)'
  <2>1. CASE \E class \in Outcome : Raise(s, class)
    BY <1>3, <1>14, <2>1 DEF ApplyFirewall, BeforeRegistration, tableVars
  <2>2. CASE Goto(s, "start_gw")
    BY <1>1, <1>2, <1>14, <2>2
       DEF SessionInv, StationInv, LockInv, ResourceInv, ApplyFirewall, Undisturbed,
           BeforeRegistration, tableVars, DownStation,
           HandleBy, ClearedBy, BrUpBy, GwUpBy, BrBy, GwBy
  <2> QED BY <1>14, <2>1, <2>2 DEF ApplyFirewall
<1>15. ASSUME NEW role \in Roles, StartVm(s, role) PROVE SessionInv(s)'
  <2>1. CASE \E class \in Outcome : Raise(s, class)
    BY <1>3, <1>15, <2>1 DEF StartVm, BeforeRegistration, Roles, tableVars
  <2>2. CASE vm' = [vm EXCEPT ![s][role] = "running"]
             /\ Goto(s, IF role = "gw" THEN "start_br" ELSE "preflight")
    <3>1. /\ vm'[s][role] = "running"
          /\ \A other \in Roles : other # role => vm'[s][other] = vm[s][other]
      BY <2>2 DEF WorldTypes
    <3>2. pc'[s] = IF role = "gw" THEN "start_br" ELSE "preflight"
      BY <1>2, <2>2
    <3>3. pc[s] = IF role = "gw" THEN "start_gw" ELSE "start_br"
      BY <1>15 DEF StartVm
    <3>4. state' = state /\ lock' = lock /\ refs' = refs
      BY <1>15 DEF StartVm, tableVars
    <3>5. Undisturbed(s)' => Undisturbed(s)
      BY <3>3, <3>4 DEF Undisturbed, DownStation
    <3>6. StationInv(s)' /\ LockInv(s)'
      BY <3>2, <3>3, <3>4, <3>5
         DEF SessionInv, StationInv, LockInv, BeforeRegistration
    <3>7. ResourceInv(s)'
      BY <3>1, <3>2, <3>3, <3>4, <3>5
         DEF SessionInv, ResourceInv, Roles, HandleBy, ClearedBy, BrUpBy, GwUpBy, BrBy, GwBy
    <3> QED BY <3>6, <3>7 DEF SessionInv
  <2> QED BY <1>15, <2>1, <2>2 DEF StartVm
<1>16. ASSUME RunPreflight(s) PROVE SessionInv(s)'
  <2>1. CASE \E class \in Outcome : Raise(s, class)
    BY <1>3, <1>16, <2>1 DEF RunPreflight, BeforeRegistration
  <2>2. CASE protection' = [protection EXCEPT ![s] = "active"] /\ Goto(s, "launch")
    <3>1. Cleared(s)'
      BY <1>16, <2>2 DEF RunPreflight, Cleared, TableTypes, InHost
    <3> QED
      BY <1>1, <1>2, <1>16, <2>2, <3>1
         DEF SessionInv, StationInv, LockInv, ResourceInv, RunPreflight, Undisturbed,
             BeforeRegistration, worldVars, DownStation,
             HandleBy, ClearedBy, BrUpBy, GwUpBy, BrBy, GwBy
  <2> QED BY <1>16, <2>1, <2>2 DEF RunPreflight, Outcome
<1>17. ASSUME ProbeProxy(s) PROVE SessionInv(s)'
  <2>1. CASE \E class \in Outcome : Raise(s, class)
    BY <1>3, <1>17, <2>1 DEF ProbeProxy, BeforeRegistration
  <2>2. CASE protection' = [protection EXCEPT ![s] = "partial"] /\ Goto(s, "launch")
    <3>1. Cleared(s)' /\ InHost(s)
      BY <1>17, <2>2 DEF ProbeProxy, Cleared, TableTypes, InHost
    <3> QED
      BY <1>1, <1>2, <1>17, <2>2, <3>1
         DEF SessionInv, StationInv, LockInv, ResourceInv, ProbeProxy, Undisturbed,
             BeforeRegistration, worldVars, DownStation, HandleBy
  <2> QED BY <1>17, <2>1, <2>2 DEF ProbeProxy
<1>18. ASSUME Launch(s) PROVE SessionInv(s)'
  <2>1. CASE \E class \in Outcome : Raise(s, class)
    BY <1>3, <1>18, <2>1 DEF Launch, BeforeRegistration
  <2>2. CASE refs' = [refs EXCEPT ![s] = @ \cup {"handle"}] /\ Goto(s, "check")
    <3>1. "handle" \in refs'[s] /\ refs[s] \subseteq refs'[s]
      BY <2>2 DEF TableTypes
    <3>2. pc[s] = "launch" /\ pc'[s] = "check"
      BY <1>2, <1>18, <2>2 DEF Launch
    <3>3. state' = state /\ lock' = lock /\ vm' = vm /\ (Cleared(s)' <=> Cleared(s))
      BY <1>18 DEF Launch, Cleared
    <3>4. Undisturbed(s)' => Undisturbed(s)
      BY <3>2, <3>3 DEF Undisturbed, DownStation
    <3>5. StationInv(s)' /\ LockInv(s)'
      BY <3>2, <3>3, <3>4
         DEF SessionInv, StationInv, LockInv, BeforeRegistration
    <3>6. ResourceInv(s)'
      BY <3>1, <3>2, <3>3, <3>4
         DEF SessionInv, ResourceInv, HandleBy, ClearedBy, BrUpBy, GwUpBy, BrBy, GwBy
    <3> QED BY <3>5, <3>6 DEF SessionInv
  <2> QED BY <1>18, <2>1, <2>2 DEF Launch
<1>19. ASSUME CheckAlive(s) PROVE SessionInv(s)'
  <2>1. CASE Raise(s, "plain")
    BY <1>3, <1>19, <2>1 DEF CheckAlive, BeforeRegistration, tableVars, Outcome
  <2>2. CASE Goto(s, "browsing")
    <3>1. Cleared(s)' <=> Cleared(s)
      BY <1>19 DEF CheckAlive, Cleared, tableVars
    <3> QED
      BY <1>1, <1>2, <1>19, <2>2, <3>1
       DEF SessionInv, StationInv, LockInv, ResourceInv, CheckAlive, Undisturbed,
           BeforeRegistration, tableVars, worldVars, DownStation,
           HandleBy, ClearedBy, BrUpBy, GwUpBy, BrBy, GwBy
  <2> QED BY <1>19, <2>1, <2>2 DEF CheckAlive
<1>20. ASSUME Touch(s) PROVE SessionInv(s)'
  <2>1. Cleared(s)' <=> Cleared(s)
    BY <1>20 DEF Touch, Cleared, tableVars
  <2> QED
    BY <1>1, <1>2, <1>20, <2>1
       DEF SessionInv, StationInv, LockInv, ResourceInv, Touch, Undisturbed,
           BeforeRegistration, tableVars, worldVars, DownStation,
           HandleBy, ClearedBy, BrUpBy, GwUpBy, BrBy, GwBy
<1>21. ASSUME FailClosed(s) PROVE SessionInv(s)'
  BY <1>1, <1>2, <1>21, LeavingKeeps
     DEF FailClosed, SessionInv, StationInv, BeforeRegistration, DownStation, tableVars
<1> QED
  BY <1>4, <1>5, <1>6, <1>7, <1>8, <1>9, <1>10, <1>11, <1>12, <1>13, <1>14, <1>15,
     <1>16, <1>17, <1>18, <1>19, <1>20, <1>21 DEF Drive

(* A step of a teardown, whoever runs it, leaves the sessions alone that are *)
(* not its subject.                                                          *)
LEMMA TeardownSpares ==
    ASSUME TypeOK, NEW a \in Actors, Teardown(a), Subject(a) \in Sessions,
           NEW r \in Sessions, r # Subject(a)
    PROVE  Same(r)
<1> DEFINE s == Subject(a)
<1>1. r # a
  BY DEF Subject
<1> HIDE DEF s
<1> USE DEF TypeOK
<1>2. ASSUME Snapshot(a) PROVE Same(r)
  BY <1>1, <1>2 DEF Same, Snapshot, Goto, TaskTypes, TableTypes, Actors, worldVars
<1>3. ASSUME TerminateBrowser(a) PROVE Same(r)
  BY <1>3 DEF Same, TerminateBrowser, tableVars
<1>4. ASSUME RemoveDir(a) PROVE Same(r)
  BY <1>4 DEF Same, RemoveDir, tableVars
<1>5. ASSUME NEW role \in Roles, DestroyVm(a, role) PROVE Same(r)
  BY <1>5 DEF Same, DestroyVm, tableVars, WorldTypes
<1>6. ASSUME ReleaseLease(a) PROVE Same(r)
  <2>1. lock[ProfileOf[r]] = r => lock'[ProfileOf[r]] = r
    BY <1>6, ReleaseSpares DEF ReleaseLease
  <2> QED BY <1>1, <1>6, <2>1 DEF Same, ReleaseLease, Goto, TaskTypes, Actors, tableVars
<1>7. ASSUME Finish(a) PROVE Same(r)
  BY <1>1, <1>7 DEF Same, Finish, Goto, TaskTypes, TableTypes, Actors, worldVars
<1> QED BY <1>2, <1>3, <1>4, <1>5, <1>6, <1>7 DEF Teardown

(* A teardown keeps the invariant of the session it takes apart, which was   *)
(* on its way out before.                                                    *)
LEMMA TeardownKeeps ==
    ASSUME TypeOK, StopperInv, NEW a \in Actors, Teardown(a),
           NEW s \in Sessions, Subject(a) = s, SessionInv(s)
    PROVE  SessionInv(s)'
<1> USE DEF TypeOK
<1>1. pc[a] \in DownStation
  BY DEF Teardown, Snapshot, TerminateBrowser, RemoveDir, DestroyVm, ReleaseLease,
         Finish, DownStation
<1>2. \/ a = s /\ a \in Sessions
      \/ a \in Stoppers /\ a \notin Sessions /\ job[a] = s
  BY SessionsAssumption DEF Subject, Actors
<1>3. CASE a = s /\ a \in Sessions
  <2>1. state[s] \notin {"absent", "browsing"}
    BY <1>1, <1>3 DEF SessionInv, StationInv, BeforeRegistration, DownStation
  <2>2. \/ state'[s] = state[s] /\ pc'[s] \in DownStation
        \/ state'[s] = "failed" /\ pc'[s] = "done"
    BY <1>1, <1>3
       DEF Teardown, Snapshot, TerminateBrowser, RemoveDir, DestroyVm, ReleaseLease,
           Finish, DownStation, Goto, TaskTypes, TableTypes, Actors, tableVars
  <2>3. SessionInv(s)'
    BY <1>3, <2>1, <2>2, LeavingKeeps DEF BeforeRegistration, DownStation, Leaving
  <2> QED BY <2>3
<1>4. CASE a \in Stoppers /\ a \notin Sessions /\ job[a] = s
  <2>1. s # a
    BY <1>4
  <2>2. state[s] \in Leaving
    BY <1>4, <2>1 DEF StopperInv
  <2>3. state'[s] \in Leaving
    BY <1>4, <2>1, <2>2
       DEF Teardown, Snapshot, TerminateBrowser, RemoveDir, DestroyVm, ReleaseLease,
           Finish, TableTypes, tableVars, Leaving
  <2>4. pc'[s] = pc[s]
    BY <1>4, <2>1
       DEF Teardown, Snapshot, TerminateBrowser, RemoveDir, DestroyVm, ReleaseLease,
           Finish, Goto, TaskTypes, Actors
  <2>5. pc[s] \notin BeforeRegistration
    BY <2>1, <2>2 DEF SessionInv, StationInv, Leaving
  <2> QED BY <2>1, <2>3, <2>4, <2>5, LeavingKeeps DEF Leaving
<1> QED BY <1>2, <1>3, <1>4

(* stop_session touches only the session it is asked for.                    *)
LEMMA BeginStopKeeps ==
    ASSUME TypeOK, NEW t \in Stoppers, NEW s \in Sessions, BeginStop(t, s),
           NEW r \in Sessions, SessionInv(r)
    PROVE  SessionInv(r)'
<1> USE DEF TypeOK
<1>1. r # t /\ r \in Actors
  BY SessionsAssumption DEF Actors
<1>2. pc'[r] = pc[r]
  BY <1>1 DEF BeginStop, Goto, TaskTypes
<1>3. CASE r # s
  <2>1. Same(r)
    BY <1>2, <1>3 DEF Same, BeginStop, TableTypes, worldVars
  <2> QED BY <2>1, SameKeeps
<1>4. CASE r = s
  <2>1. state[s] \in SessionState
    BY DEF BeginStop, TableTypes
  <2>2. state'[s] \in Leaving
    BY <2>1 DEF BeginStop, TableTypes, AllowedNext, SessionState, Leaving
  <2>3. pc[s] \notin BeforeRegistration
    BY <1>4 DEF BeginStop, SessionInv, StationInv
  <2> QED BY <1>2, <1>4, <2>2, <2>3, LeavingKeeps DEF Leaving
<1> QED BY <1>3, <1>4

(* Whoever is stopping a session, it stays on its way out.                   *)
LEMMA StopperStep ==
    ASSUME IInv, Next
    PROVE  StopperInv'
<1> SUFFICES ASSUME NEW t \in Stoppers, NEW s \in Sessions, job'[t] = s
             PROVE  state'[s] \in Leaving
  BY DEF StopperInv
<1> USE DEF IInv, TypeOK
<1>0. s # Free
  BY SessionsAssumption
<1>1. ASSUME NEW r \in Sessions,
             \/ Begin(r) \/ Refuse(r) \/ AcquireLock(r) \/ KeyFails(r)
             \/ Register(r) \/ Unlock(r) \/ Drive(r) \/ BrowserExits(r)
      PROVE  state'[s] \in Leaving
  <2>1. job' = job
    BY <1>1, StartTypes DEF StartMove, BrowserExits, taskVars
  <2>2. state[s] \in Leaving
    BY <2>1 DEF StopperInv
  <2>3. CASE r # s
    BY <1>1, <2>2, <2>3, StartSpares DEF Same
  <2>4. CASE r = s /\ Register(s)
    BY <2>2, <2>4 DEF Register, SessionInv, StationInv, BeforeRegistration, Leaving
  <2>5. CASE r = s /\ ClimbTo(s)
    <3>1. AllowedNext[state[s]] \cap Climb = {}
      BY <2>2 DEF Leaving, AllowedNext, Climb, SessionState
    <3>2. state' = state
      BY <2>5, <3>1 DEF ClimbTo, Transition
    <3> QED BY <2>2, <3>2
  <2>6. CASE r = s /\ ~Register(s) /\ ~ClimbTo(s)
    <3>1. state' = state
      BY <1>1, <2>6
         DEF Begin, Refuse, AcquireLock, KeyFails, Unlock, Drive, BrowserExits,
             ResolveEndpoint, Provision, Configure, ApplyFirewall, StartVm,
             RunPreflight, ProbeProxy, Launch, CheckAlive, Touch, FailClosed, tableVars
    <3> QED BY <2>2, <3>1
  <2> QED BY <2>3, <2>4, <2>5, <2>6
<1>2. ASSUME NEW a \in Actors, Teardown(a) PROVE state'[s] \in Leaving
  <2>1. job[t] = s
    BY <1>0, <1>2
       DEF Teardown, Snapshot, TerminateBrowser, RemoveDir, DestroyVm, ReleaseLease,
           Finish, TaskTypes
  <2>2. state[s] \in Leaving
    BY <2>1 DEF StopperInv
  <2>3. state'[s] \in {state[s], "failed", "destroyed"}
    BY <1>2 DEF Teardown, Snapshot, TerminateBrowser, RemoveDir, DestroyVm,
           ReleaseLease, Finish, TableTypes, tableVars
  <2> QED BY <2>2, <2>3 DEF Leaving
<1>3. ASSUME NEW u \in Stoppers, NEW r \in Sessions, BeginStop(u, r)
      PROVE  state'[s] \in Leaving
  <2>1. CASE r = s
    BY <1>3, <2>1 DEF BeginStop, TableTypes, AllowedNext, SessionState, Leaving
  <2>2. CASE r # s
    <3>1. job[t] = s /\ state'[s] = state[s]
      BY <1>3, <2>2 DEF BeginStop, TaskTypes, TableTypes
    <3> QED BY <3>1 DEF StopperInv
  <2> QED BY <2>1, <2>2
<1> QED BY <1>1, <1>2, <1>3, NextCases

\* Every step keeps the invariant: its own session and all others.
LEMMA IInvStep == IInv /\ [Next]_vars => IInv'
<1> SUFFICES ASSUME IInv, [Next]_vars PROVE IInv'
  OBVIOUS
<1>1. CASE UNCHANGED vars
  <2>1. \A s \in Sessions : Same(s)
    BY <1>1 DEF Same, vars, tableVars, worldVars, taskVars
  <2>2. \A s \in Sessions : SessionInv(s)'
    BY <2>1, SameKeeps DEF IInv
  <2>3. StopperInv'
    BY <1>1 DEF IInv, StopperInv, vars, tableVars, taskVars
  <2> QED BY <2>2, <2>3, TypeStep DEF IInv
<1>2. CASE Next
  <2>1. ASSUME NEW s \in Sessions,
               \/ Begin(s) \/ Refuse(s) \/ AcquireLock(s) \/ KeyFails(s)
               \/ Register(s) \/ Unlock(s) \/ Drive(s) \/ BrowserExits(s)
        PROVE  \A r \in Sessions : SessionInv(r)'
    <3> TAKE r \in Sessions
    <3>1. CASE r # s BY <2>1, <3>1, StartSpares, SameKeeps DEF IInv
    <3>2. CASE r = s BY <2>1, <3>2, StartKeeps DEF IInv
    <3> QED BY <3>1, <3>2
  <2>2. ASSUME NEW a \in Actors, Teardown(a)
        PROVE  \A r \in Sessions : SessionInv(r)'
    <3> TAKE r \in Sessions
    <3>1. Subject(a) \in Sessions
      <4>1. pc[a] \in DownStation
        BY <2>2 DEF Teardown, Snapshot, TerminateBrowser, RemoveDir, DestroyVm,
               ReleaseLease, Finish, DownStation
      <4> QED BY <4>1, SubjectType DEF IInv
    <3>2. CASE r # Subject(a) BY <2>2, <3>1, <3>2, TeardownSpares, SameKeeps DEF IInv
    <3>3. CASE r = Subject(a) BY <2>2, <3>3, TeardownKeeps DEF IInv
    <3> QED BY <3>2, <3>3
  <2>3. ASSUME NEW t \in Stoppers, NEW s \in Sessions, BeginStop(t, s)
        PROVE  \A r \in Sessions : SessionInv(r)'
    BY <2>3, BeginStopKeeps DEF IInv
  <2>4. \A r \in Sessions : SessionInv(r)'
    BY <1>2, <2>1, <2>2, <2>3, NextCases
  <2>5. TypeOK' BY TypeStep DEF IInv
  <2>6. StopperInv' BY <1>2, StopperStep
  <2> QED BY <2>4, <2>5, <2>6 DEF IInv
<1> QED BY <1>1, <1>2

\* The invariant implies the property.
LEMMA IInvSafe == IInv => BrowsingIsIntact
<1> SUFFICES ASSUME IInv, NEW s \in Sessions, state[s] = "browsing"
             PROVE  /\ Cleared(s)
                    /\ "handle" \in refs[s]
                    /\ ~InHost(s) => \A role \in Roles :
                                        role \in refs[s] /\ vm[s][role] = "running"
                    /\ lock[ProfileOf[s]] = s
                    /\ TearingDown(s) = {}
  BY DEF BrowsingIsIntact
<1>1. SessionInv(s) /\ pc[s] \in {"touch", "done"}
  BY DEF IInv, SessionInv, StationInv
<1>2. Undisturbed(s)
  BY <1>1 DEF Undisturbed, Leaving, DownStation
<1>3. pc[s] \in HandleBy /\ pc[s] \in ClearedBy /\ pc[s] \in BrUpBy
      /\ pc[s] \in GwUpBy /\ pc[s] \in BrBy /\ pc[s] \in GwBy
  BY <1>1 DEF HandleBy, ClearedBy, BrUpBy, GwUpBy, BrBy, GwBy
<1>4. /\ Cleared(s)
      /\ "handle" \in refs[s]
      /\ ~InHost(s) => /\ "gw" \in refs[s] /\ "br" \in refs[s]
                       /\ vm[s]["gw"] = "running" /\ vm[s]["br"] = "running"
  BY <1>1, <1>2, <1>3 DEF SessionInv, ResourceInv
<1>5. lock[ProfileOf[s]] = s
  BY <1>1, <1>2 DEF SessionInv, LockInv
<1>6. ASSUME NEW a \in Actors, pc[a] \in DownStation, Subject(a) = s PROVE FALSE
  <2>1. CASE a \in Sessions
    BY <1>1, <1>6, <2>1 DEF Subject, DownStation
  <2>2. CASE a \notin Sessions
    BY <1>6, <2>2 DEF Subject, Actors, IInv, StopperInv, Leaving
  <2> QED BY <2>1, <2>2
<1> QED BY <1>4, <1>5, <1>6 DEF TearingDown, Roles

(* However starts and stops interleave, a session shown as Browsing passed   *)
(* its preflight, has its VMs running and its browser handle on record, owns *)
(* its profile's lock, and nobody is tearing it down.                        *)
THEOREM BrowsingSafe == Spec => []BrowsingIsIntact
  BY IInvInit, IInvStep, IInvSafe, PTL DEF Spec

-----------------------------------------------------------------------------
(* A browser has its preflight behind it.                                    *)

GatewayUp(s) == ~InHost(s) => vm[s]["gw"] \in {"running", "gone"}

BeforeLaunch == {"start_br", "preflight", "probe", "launch"}
Launched     == HandleBy \cup DownStation \cup {"fail_closed"}

(* Whatever stops do to the entry, the start goes through its stations in    *)
(* order, and only what it has launched can be terminated.                   *)
LaunchInv(s) ==
    /\ pc[s] = "launch" => Cleared(s)
    /\ pc[s] \in BeforeLaunch => GatewayUp(s)
    /\ browser[s] # "none" => pc[s] \in Launched /\ Cleared(s) /\ GatewayUp(s)
    /\ "handle" \in refs[s] => browser[s] # "none"

HeldInv == \A a \in Actors, s \in Sessions :
              Subject(a) = s /\ "handle" \in held[a] => browser[s] # "none"

\* A step that is none of its business keeps a session's part.
LEMMA SameLaunch ==
    ASSUME NEW s \in Sessions, LaunchInv(s), Same(s), browser'[s] = browser[s]
    PROVE  LaunchInv(s)'
<1>1. (Cleared(s)' <=> Cleared(s)) /\ (GatewayUp(s)' <=> GatewayUp(s))
  BY DEF Same, Cleared, GatewayUp
<1> QED BY <1>1 DEF Same, LaunchInv

\* The steps of a start keep its own session's part.
LEMMA StartLaunch ==
    ASSUME TypeOK, NEW s \in Sessions, LaunchInv(s),
           \/ Begin(s) \/ Refuse(s) \/ AcquireLock(s) \/ KeyFails(s)
           \/ Register(s) \/ Unlock(s) \/ Drive(s) \/ BrowserExits(s)
    PROVE  LaunchInv(s)' /\ (browser[s] # "none" => browser'[s] # "none")
<1> USE DEF TypeOK
<1>1. \A x : Goto(s, x) => pc'[s] = x
  BY DEF TaskTypes, Goto, Actors
<1>2. \A class : Raise(s, class) => pc'[s] = "fail_closed"
  BY <1>1 DEF Raise
<1>3. ASSUME UNCHANGED <<refs, protection, vm, browser>>,
             pc'[s] \in BeforeLaunch => pc'[s] # "launch" /\ (InHost(s) \/ pc[s] \in BeforeLaunch),
             pc[s] \in Launched => pc'[s] \in Launched
      PROVE  LaunchInv(s)' /\ (browser[s] # "none" => browser'[s] # "none")
  <2>1. (Cleared(s)' <=> Cleared(s)) /\ (GatewayUp(s)' <=> GatewayUp(s))
    BY <1>3 DEF Cleared, GatewayUp
  <2>2. InHost(s) => GatewayUp(s)
    BY DEF GatewayUp
  <2>3. pc'[s] = "launch" => pc'[s] \in BeforeLaunch
    BY DEF BeforeLaunch
  <2> QED BY <1>3, <2>1, <2>2, <2>3 DEF LaunchInv
<1> DEFINE Goal == LaunchInv(s)' /\ (browser[s] # "none" => browser'[s] # "none")
<1>4. ASSUME \/ Begin(s) \/ Refuse(s) \/ AcquireLock(s) \/ KeyFails(s) \/ Register(s) \/ Unlock(s)
      PROVE  Goal
  <2>1. pc[s] \in BeforeRegistration
    BY <1>4 DEF Begin, Refuse, AcquireLock, KeyFails, Register, Unlock, BeforeRegistration
  <2>2. pc'[s] \in BeforeRegistration \cup {"endpoint", "provisioning"}
    BY <1>1, <1>4 DEF Begin, Refuse, AcquireLock, KeyFails, Register, Unlock, BeforeRegistration
  <2>3. UNCHANGED <<refs, protection, vm, browser>>
    BY <1>4 DEF Begin, Refuse, AcquireLock, KeyFails, Register, Unlock, tableVars, worldVars
  <2> QED
    BY <1>3, <2>1, <2>2, <2>3 DEF BeforeRegistration, BeforeLaunch, Launched, HandleBy, DownStation
<1>5. ASSUME ClimbTo(s) PROVE Goal
  <2>1. PICK next \in Climb : pc[s] = next /\ Transition(s, next)
    BY <1>5 DEF ClimbTo
  <2>2. pc'[s] \in {"fail_closed", AfterClimb(s, next)}
    BY <1>1, <1>2, <2>1 DEF Transition
  <2> QED
    BY <1>3, <1>5, <2>1, <2>2
       DEF ClimbTo, worldVars, AfterClimb, Climb, BeforeLaunch, Launched, HandleBy, DownStation
<1>6. ASSUME ResolveEndpoint(s) \/ Configure(s) \/ ApplyFirewall(s) PROVE Goal
  <2>1. pc[s] \in {"endpoint", "configure", "firewall"}
        /\ pc'[s] \in {"provisioning", "firewall", "start_gw", "fail_closed"}
    BY <1>1, <1>2, <1>6 DEF ResolveEndpoint, Configure, ApplyFirewall
  <2>2. UNCHANGED <<refs, protection, vm, browser>>
    BY <1>6 DEF ResolveEndpoint, Configure, ApplyFirewall, tableVars, worldVars
  <2> QED BY <1>3, <2>1, <2>2 DEF BeforeLaunch, Launched, HandleBy, DownStation
<1>7. ASSUME CheckAlive(s) \/ Touch(s) \/ FailClosed(s) PROVE Goal
  <2>1. pc'[s] \in {"browsing", "fail_closed", "done", "snapshot"}
    BY <1>1, <1>2, <1>7 DEF CheckAlive, Touch, FailClosed
  <2>2. UNCHANGED <<refs, protection, vm, browser>>
    BY <1>7 DEF CheckAlive, Touch, FailClosed, tableVars, worldVars
  <2> QED BY <1>3, <2>1, <2>2 DEF BeforeLaunch, Launched, HandleBy, DownStation
<1>8. ASSUME NEW role \in Roles, Provision(s, role) PROVE Goal
  <2>1. pc[s] \in {"prov_gw", "prov_br"} /\ pc'[s] \in {"prov_br", "gateway-starting", "fail_closed"}
    BY <1>1, <1>2, <1>8 DEF Provision
  <2>2. browser' = browser /\ ("handle" \in refs'[s] => "handle" \in refs[s])
    BY <1>8 DEF Provision, Roles, TableTypes
  <2> QED BY <2>1, <2>2 DEF LaunchInv, BeforeLaunch, Launched, HandleBy, DownStation
<1>9. ASSUME NEW role \in Roles, StartVm(s, role) PROVE Goal
  <2>1. pc[s] = (IF role = "gw" THEN "start_gw" ELSE "start_br")
    BY <1>9 DEF StartVm
  <2>2. browser' = browser /\ refs' = refs
    BY <1>9 DEF StartVm, tableVars
  <2>3. pc'[s] = "fail_closed"
        \/ /\ pc'[s] = (IF role = "gw" THEN "start_br" ELSE "preflight")
           /\ vm'[s][role] = "running"
           /\ role # "gw" => vm'[s]["gw"] = vm[s]["gw"]
    BY <1>1, <1>2, <1>9 DEF StartVm, WorldTypes, Roles
  <2>4. browser[s] = "none"
    BY <2>1 DEF LaunchInv, Launched, HandleBy, DownStation
  <2>5. pc'[s] = "fail_closed" \/ GatewayUp(s)'
    BY <2>1, <2>3 DEF LaunchInv, GatewayUp, BeforeLaunch, InHost
  <2> QED BY <2>2, <2>3, <2>4, <2>5 DEF LaunchInv, BeforeLaunch
<1>10. ASSUME RunPreflight(s) \/ ProbeProxy(s) PROVE Goal
  <2>1. pc[s] = "probe" /\ browser' = browser /\ vm' = vm
        /\ ("handle" \in refs'[s] => "handle" \in refs[s])
    BY <1>10 DEF RunPreflight, ProbeProxy, worldVars, TableTypes
  <2>2. browser[s] = "none" /\ GatewayUp(s)
    BY <2>1 DEF LaunchInv, Launched, HandleBy, DownStation, BeforeLaunch
  <2>3. GatewayUp(s)'
    BY <2>1, <2>2 DEF GatewayUp, InHost
  <2>4. pc'[s] = "fail_closed" \/ (pc'[s] = "launch" /\ Cleared(s)')
    BY <1>1, <1>2, <1>10 DEF RunPreflight, ProbeProxy, Cleared, InHost, TableTypes
  <2> QED BY <2>1, <2>2, <2>3, <2>4 DEF LaunchInv, BeforeLaunch
<1>11. ASSUME Launch(s) PROVE Goal
  <2>1. pc[s] = "launch" /\ protection' = protection /\ vm' = vm
    BY <1>11 DEF Launch
  <2>2. Cleared(s)' /\ GatewayUp(s)'
    BY <2>1 DEF LaunchInv, BeforeLaunch, Cleared, GatewayUp, InHost
  <2>3. pc'[s] \in {"check", "fail_closed"}
    BY <1>1, <1>2, <1>11 DEF Launch
  <2>4. (browser'[s] = "live") \/ (browser' = browser /\ refs' = refs)
    BY <1>11 DEF Launch, WorldTypes
  <2> QED BY <2>2, <2>3, <2>4 DEF LaunchInv, BeforeLaunch, Launched, HandleBy, DownStation
<1>12. ASSUME BrowserExits(s) PROVE Goal
  <2>1. browser[s] # "none" /\ browser'[s] # "none"
    BY <1>12 DEF BrowserExits, WorldTypes
  <2>2. pc' = pc /\ refs' = refs /\ protection' = protection /\ vm' = vm
    BY <1>12 DEF BrowserExits, tableVars, taskVars
  <2> QED BY <2>1, <2>2 DEF LaunchInv, Cleared, GatewayUp
<1> QED
  BY <1>4, <1>5, <1>6, <1>7, <1>8, <1>9, <1>10, <1>11, <1>12 DEF Drive

\* The steps of a teardown keep the part of the session that is taken apart.
LEMMA TeardownLaunch ==
    ASSUME TypeOK, HeldInv, NEW a \in Actors, Teardown(a),
           NEW s \in Sessions, Subject(a) = s, LaunchInv(s)
    PROVE  LaunchInv(s)' /\ (browser[s] # "none" => browser'[s] # "none")
<1> USE DEF TypeOK
<1>1. pc'[s] = pc[s] \/ (pc[s] \in DownStation /\ pc'[s] \in DownStation \cup {"done"})
  <2>1. pc[a] \in DownStation
    BY DEF Teardown, Snapshot, TerminateBrowser, RemoveDir, DestroyVm, ReleaseLease,
           Finish, DownStation
  <2>2. CASE a = s
    BY <2>1, <2>2 DEF Teardown, Snapshot, TerminateBrowser, RemoveDir, DestroyVm, ReleaseLease,
           Finish, DownStation, Goto, TaskTypes, Actors, tableVars
  <2>3. CASE a # s
    BY <2>3 DEF Teardown, Snapshot, TerminateBrowser, RemoveDir, DestroyVm, ReleaseLease,
           Finish, Goto, TaskTypes, Actors
  <2> QED BY <2>2, <2>3
<1>2. protection' = protection
  BY DEF Teardown, Snapshot, TerminateBrowser, RemoveDir, DestroyVm, ReleaseLease,
         Finish, tableVars
<1>3. vm'[s]["gw"] \in {vm[s]["gw"], "gone"}
  BY DEF Teardown, Snapshot, TerminateBrowser, RemoveDir, DestroyVm, ReleaseLease,
         Finish, worldVars, WorldTypes, Roles
<1>4. "handle" \in refs'[s] => "handle" \in refs[s]
  BY DEF Teardown, Snapshot, TerminateBrowser, RemoveDir, DestroyVm, ReleaseLease,
         Finish, tableVars, TableTypes
<1>5. browser[s] # "none" <=> browser'[s] # "none"
  <2>1. CASE TerminateBrowser(a)
    BY <2>1 DEF TerminateBrowser, HeldInv, WorldTypes
  <2>2. ASSUME NEW role \in Roles, DestroyVm(a, role) PROVE browser[s] # "none" <=> browser'[s] # "none"
    BY <2>2 DEF DestroyVm, WorldTypes
  <2>3. CASE Snapshot(a) \/ RemoveDir(a) \/ ReleaseLease(a) \/ Finish(a)
    BY <2>3 DEF Snapshot, RemoveDir, ReleaseLease, Finish, worldVars
  <2> QED BY <2>1, <2>2, <2>3 DEF Teardown
<1>6. (Cleared(s)' <=> Cleared(s)) /\ (GatewayUp(s) => GatewayUp(s)')
  BY <1>2, <1>3 DEF Cleared, GatewayUp, InHost
<1> QED
  BY <1>1, <1>4, <1>5, <1>6 DEF LaunchInv, BeforeLaunch, Launched, HandleBy, DownStation

\* What a teardown holds, it took from the entry, and nobody unmakes a browser.
LEMMA HeldStep ==
    ASSUME TypeOK, HeldInv, \A s \in Sessions : LaunchInv(s), Next,
           \A s \in Sessions : browser[s] # "none" => browser'[s] # "none"
    PROVE  HeldInv'
<1> USE DEF TypeOK
<1> SUFFICES ASSUME NEW a \in Actors, NEW s \in Sessions, Subject(a)' = s, "handle" \in held'[a]
             PROVE  browser[s] # "none"
  BY DEF HeldInv
<1>1. CASE held' = held /\ job' = job
  BY <1>1 DEF HeldInv, Subject
<1>2. ASSUME NEW t \in Stoppers, NEW r \in Sessions, BeginStop(t, r) PROVE browser[s] # "none"
  <2>1. held[t] = {} /\ held' = held
    BY <1>2 DEF BeginStop, TaskShape, Actors
  <2>2. a # t
    BY <2>1
  <2>3. Subject(a)' = Subject(a)
    BY <1>2, <2>2 DEF BeginStop, Subject, TaskTypes, Actors
  <2> QED BY <2>1, <2>3 DEF HeldInv
<1>3. ASSUME NEW b \in Actors, Teardown(b) PROVE browser[s] # "none"
  <2>1. CASE Snapshot(b)
    <3>1. job' = job
      BY <2>1 DEF Snapshot
    <3>2. Subject(a) = s
      BY <3>1 DEF Subject
    <3>3. CASE a = b
      <4>1. "handle" \in refs[s]
        BY <2>1, <3>2, <3>3 DEF Snapshot, TaskTypes
      <4> QED BY <4>1 DEF LaunchInv
    <3>4. CASE a # b
      <4>1. held'[a] = held[a]
        BY <2>1, <3>4 DEF Snapshot, TaskTypes
      <4> QED BY <3>2, <4>1 DEF HeldInv
    <3> QED BY <3>3, <3>4
  <2>2. CASE Finish(b)
    <3>1. held[b] = {} /\ held' = held
      BY <2>2 DEF Finish, TaskShape
    <3>2. a # b
      BY <3>1
    <3>3. Subject(a)' = Subject(a)
      BY <2>2, <3>2 DEF Finish, Subject, TaskTypes, Actors
    <3> QED BY <3>1, <3>3 DEF HeldInv
  <2>3. CASE ~Snapshot(b) /\ ~Finish(b)
    <3>1. job' = job /\ held'[a] \subseteq held[a]
      BY <1>3, <2>3 DEF Teardown, TerminateBrowser, RemoveDir, DestroyVm, ReleaseLease,
             Dispatched, TaskTypes
    <3> QED BY <3>1 DEF HeldInv, Subject
  <2> QED BY <2>1, <2>2, <2>3
<1>4. ASSUME NEW r \in Sessions,
             \/ Begin(r) \/ Refuse(r) \/ AcquireLock(r) \/ KeyFails(r)
             \/ Register(r) \/ Unlock(r) \/ Drive(r) \/ BrowserExits(r)
      PROVE  browser[s] # "none"
  BY <1>1, <1>4, StartTypes DEF StartMove, BrowserExits, taskVars
<1> QED BY <1>2, <1>3, <1>4, NextCases

(* Inductive on its own: it does not matter who owns a lock or shows what.    *)
LaunchedInv == TypeOK /\ HeldInv /\ \A s \in Sessions : LaunchInv(s)

\* Every step keeps it.
LEMMA LaunchedStep == LaunchedInv /\ [Next]_vars => LaunchedInv'
<1> SUFFICES ASSUME LaunchedInv, [Next]_vars PROVE LaunchedInv'
  OBVIOUS
<1> USE DEF LaunchedInv
<1>1. TypeOK'
  BY TypeStep
<1>2. CASE UNCHANGED vars
  <2>1. \A s \in Sessions : Same(s) /\ browser'[s] = browser[s]
    BY <1>2 DEF Same, vars, tableVars, worldVars, taskVars
  <2>2. \A s \in Sessions : LaunchInv(s)'
    BY <2>1, SameLaunch
  <2>3. HeldInv'
    BY <1>2 DEF HeldInv, Subject, vars, worldVars, taskVars
  <2> QED BY <1>1, <2>2, <2>3
<1>3. CASE Next
  <2> DEFINE Kept(r) == LaunchInv(r)' /\ (browser[r] # "none" => browser'[r] # "none")
  <2>1. ASSUME NEW s \in Sessions, NEW r \in Sessions,
               \/ Begin(s) \/ Refuse(s) \/ AcquireLock(s) \/ KeyFails(s)
               \/ Register(s) \/ Unlock(s) \/ Drive(s) \/ BrowserExits(s)
        PROVE  Kept(r)
    <3>1. CASE r = s
      BY <2>1, <3>1, StartLaunch
    <3>2. CASE r # s
      <4>1. browser'[r] = browser[r]
        BY <2>1, <3>2 DEF TypeOK, WorldTypes, Begin, Refuse, AcquireLock, KeyFails, Register,
             Unlock, Drive, BrowserExits, ClimbTo, ResolveEndpoint, Provision, Configure,
             ApplyFirewall, StartVm, RunPreflight, ProbeProxy, Launch, CheckAlive, Touch,
             FailClosed, worldVars
      <4> QED BY <2>1, <3>2, <4>1, StartSpares, SameLaunch
    <3> QED BY <3>1, <3>2
  <2>2. ASSUME NEW a \in Actors, Teardown(a), NEW r \in Sessions PROVE Kept(r)
    <3>1. Subject(a) \in Sessions
      <4>1. pc[a] \in DownStation
        BY <2>2 DEF Teardown, Snapshot, TerminateBrowser, RemoveDir, DestroyVm,
               ReleaseLease, Finish, DownStation
      <4> QED BY <4>1, SubjectType
    <3>2. CASE r = Subject(a)
      BY <2>2, <3>2, TeardownLaunch
    <3>3. CASE r # Subject(a)
      <4>1. browser'[r] = browser[r]
        BY <2>2, <3>3 DEF TypeOK, WorldTypes, Teardown, Snapshot, TerminateBrowser, RemoveDir,
               DestroyVm, ReleaseLease, Finish, worldVars
      <4> QED BY <2>2, <3>1, <3>3, <4>1, TeardownSpares, SameLaunch
    <3> QED BY <3>2, <3>3
  <2>3. ASSUME NEW t \in Stoppers, NEW s \in Sessions, BeginStop(t, s), NEW r \in Sessions
        PROVE  Kept(r)
    <3>1. pc'[r] = pc[r]
      BY <2>3, SessionsAssumption DEF BeginStop, Goto, TypeOK, TaskTypes, Actors
    <3>2. UNCHANGED <<refs, protection, vm, browser>>
      BY <2>3 DEF BeginStop, worldVars
    <3> QED BY <3>1, <3>2 DEF LaunchInv, Cleared, GatewayUp
  <2>4. \A r \in Sessions : Kept(r)
    BY <1>3, <2>1, <2>2, <2>3, NextCases
  <2>5. HeldInv'
    BY <1>3, <2>4, HeldStep
  <2> QED BY <1>1, <2>4, <2>5
<1> QED BY <1>2, <1>3

(* However starts and stops interleave, and whatever fails, a browser process *)
(* exists only for a session whose own preflight passed, and was launched     *)
(* after its gateway's VM was started (orchestrator.rs, drive_start).         *)
THEOREM BrowsersAreCleared == Spec => []BrowserOnlyAfterPreflight
<1>1. Init => LaunchedInv
  <2> SUFFICES ASSUME Init PROVE LaunchedInv
    OBVIOUS
  <2>1. HeldInv
    BY DEF Init, HeldInv
  <2>2. \A s \in Sessions : pc[s] = "idle" /\ browser[s] = "none" /\ refs[s] = {}
    BY DEF Init, Actors
  <2>3. \A s \in Sessions : LaunchInv(s)
    BY <2>2 DEF LaunchInv, BeforeLaunch
  <2> QED BY <2>1, <2>3, TypeInit DEF LaunchedInv
<1>2. LaunchedInv => BrowserOnlyAfterPreflight
  BY DEF LaunchedInv, LaunchInv, GatewayUp, BrowserOnlyAfterPreflight
<1> QED BY <1>1, <1>2, LaunchedStep, PTL DEF Spec

-----------------------------------------------------------------------------
(* A lock has an owner.                                                      *)

Freed(s) == lock[ProfileOf[s]] # s \/ LostTrackOf(s, "lock")

(* A start gives its lock back before it is refused, a teardown before it    *)
(* finishes; in between, somebody is at it.                                  *)
OwnerInv(s) ==
    /\ pc[s] \in {"idle", "acquire", "refused"} => Freed(s)
    /\ pc[s] \in {"touch", "done"} =>
          state[s] = "browsing" \/ TearingDown(s) # {} \/ Freed(s)
    /\ \A a \in Actors : pc[a] = "finish" /\ Subject(a) = s => Freed(s)

\* A release frees the session's lock, or is known to have failed.
LEMMA ReleaseFrees ==
    ASSUME TypeOK, NEW s \in Sessions, ReleaseLock(s)
    PROVE  Freed(s)'
BY SessionsAssumption DEF ReleaseLock, Botch, Freed, LostTrackOf, TypeOK, WorldTypes

\* Once freed, a lock is the session's again only if it acquires it.
LEMMA FreedStays ==
    ASSUME TypeOK, Next, NEW s \in Sessions, Freed(s), ~AcquireLock(s)
    PROVE  Freed(s)'
<1> USE DEF TypeOK, Freed, LostTrackOf
<1>1. ASSUME NEW r \in Sessions, ReleaseLock(r) PROVE Freed(s)'
  BY <1>1, SessionsAssumption DEF ReleaseLock, Botch, WorldTypes
<1>2. ASSUME lock' = lock, botched \subseteq botched' PROVE Freed(s)'
  BY <1>2
<1>3. ASSUME NEW r \in Sessions,
             \/ Begin(r) \/ Refuse(r) \/ AcquireLock(r) \/ KeyFails(r)
             \/ Register(r) \/ Unlock(r) \/ Drive(r) \/ BrowserExits(r)
      PROVE  Freed(s)'
  <2>1. CASE AcquireLock(r)
    BY <2>1, SessionsAssumption DEF AcquireLock, Botch, WorldTypes
  <2>2. CASE Unlock(r)
    BY <1>1, <2>2 DEF Unlock
  <2>3. CASE ~AcquireLock(r) /\ ~Unlock(r)
    BY <1>2, <1>3, <2>3 DEF Begin, Refuse, KeyFails, Register, Drive,
         BrowserExits, ClimbTo, ResolveEndpoint, Provision, Configure,
         ApplyFirewall, StartVm, RunPreflight, ProbeProxy, Launch, CheckAlive, Touch,
         FailClosed, worldVars
  <2> QED BY <2>1, <2>2, <2>3
<1>4. ASSUME NEW a \in Actors, Teardown(a) PROVE Freed(s)'
  <2>1. CASE ReleaseLease(a)
    <3>1. Subject(a) \in Sessions
      BY <2>1, SubjectType DEF ReleaseLease, DownStation
    <3> QED BY <1>1, <2>1, <3>1 DEF ReleaseLease
  <2>2. CASE ~ReleaseLease(a)
    BY <1>2, <1>4, <2>2 DEF Teardown, Snapshot, TerminateBrowser, RemoveDir, DestroyVm,
         Finish, Botch, worldVars
  <2> QED BY <2>1, <2>2
<1>5. ASSUME NEW t \in Stoppers, NEW r \in Sessions, BeginStop(t, r) PROVE Freed(s)'
  BY <1>2, <1>5 DEF BeginStop, worldVars
<1> QED BY <1>3, <1>4, <1>5, NextCases

\* The steps of a start keep its own session's part.
LEMMA StartOwns ==
    ASSUME IInv, Next, NEW s \in Sessions, OwnerInv(s),
           \/ Begin(s) \/ Refuse(s) \/ AcquireLock(s) \/ KeyFails(s)
           \/ Register(s) \/ Unlock(s) \/ Drive(s) \/ BrowserExits(s)
    PROVE  OwnerInv(s)'
<1> USE DEF IInv, TypeOK
<1>1. \A x : Goto(s, x) => pc'[s] = x /\ \A a \in Actors \ {s} : pc'[a] = pc[a]
  BY DEF TaskTypes, Goto, Actors
<1>2. \A class : Raise(s, class) => pc'[s] = "fail_closed"
  BY <1>1 DEF Raise
<1>3. job' = job /\ \A a \in Actors : Subject(a)' = Subject(a)
  BY StartTypes DEF StartMove, BrowserExits, taskVars, Subject
<1>4. \A a \in Actors : a # s => pc'[a] = pc[a]
  BY <1>1, StartTypes DEF StartMove, BrowserExits, taskVars
<1>5. pc[s] \notin DownStation \/ BrowserExits(s)
  BY StartTypes DEF StartMove
<1>6. pc'[s] # "finish" \/ BrowserExits(s)
  BY <1>1, <1>2
     DEF Begin, Refuse, AcquireLock, KeyFails, Register, Unlock, Drive, ClimbTo, Transition,
         AfterClimb, Climb, ResolveEndpoint, Provision, Configure, ApplyFirewall, StartVm,
         RunPreflight, ProbeProxy, Launch, CheckAlive, Touch, FailClosed
<1>7. ~AcquireLock(s) => \A a \in Actors : pc'[a] = "finish" /\ Subject(a)' = s => Freed(s)'
  BY <1>3, <1>4, <1>6, FreedStays DEF OwnerInv, BrowserExits, taskVars
<1>8. CASE AcquireLock(s)
  <2>1. pc[s] = "acquire" /\ pc'[s] \in {"key", "refused"} /\ state[s] = "absent"
    BY <1>1, <1>8 DEF AcquireLock, SessionInv, StationInv, BeforeRegistration
  <2>3. pc'[s] = "refused" => Freed(s)'
    BY <1>1, <1>8, SessionsAssumption DEF AcquireLock, Freed, WorldTypes
  <2>2. ASSUME NEW a \in Actors, pc'[a] = "finish", Subject(a)' = s PROVE FALSE
    <3>1. a # s
      BY <2>1, <2>2
    <3>2. a \in Stoppers /\ job[a] = s
      BY <1>3, <2>2, <3>1 DEF Subject, Actors
    <3> QED BY <2>1, <3>2 DEF StopperInv, Leaving
  <2> QED BY <2>1, <2>2, <2>3 DEF OwnerInv
<1>9. CASE ~AcquireLock(s) /\ (Refuse(s) \/ Begin(s))
  <2>1. pc[s] \in {"idle", "acquire"} /\ pc'[s] \in {"acquire", "refused"}
    BY <1>1, <1>9 DEF Refuse, Begin
  <2> QED BY <1>7, <1>9, <2>1, FreedStays DEF OwnerInv
<1>10. CASE Unlock(s)
  <2>1. Freed(s)'
    BY <1>10, ReleaseFrees DEF Unlock
  <2> QED BY <2>1 DEF OwnerInv
<1>11. CASE Touch(s)
  <2>1. pc[s] = "touch" /\ pc'[s] = "done" /\ state' = state /\ ~AcquireLock(s)
    BY <1>1, <1>11 DEF Touch, tableVars, AcquireLock
  <2>2. TearingDown(s)' = TearingDown(s)
    BY <1>3, <1>4, <2>1 DEF TearingDown, DownStation
  <2> QED BY <1>7, <2>1, <2>2, FreedStays DEF OwnerInv
<1>12. CASE BrowserExits(s)
  <2>1. pc' = pc /\ state' = state /\ ~AcquireLock(s)
    BY <1>12 DEF BrowserExits, AcquireLock, tableVars, taskVars, Goto, TaskTypes, Actors
  <2>2. TearingDown(s)' = TearingDown(s)
    BY <1>3, <2>1 DEF TearingDown
  <2> QED BY <1>7, <2>1, <2>2, FreedStays DEF OwnerInv
<1>13. CASE ClimbTo(s)
  <2>1. PICK next \in Climb : pc[s] = next /\ Transition(s, next)
    BY <1>13 DEF ClimbTo
  <2>2. pc'[s] = "fail_closed" \/ (pc'[s] = AfterClimb(s, next) /\ state'[s] = next)
    BY <1>1, <1>2, <2>1 DEF Transition, TableTypes
  <2>3. pc'[s] \notin {"idle", "acquire", "refused", "done"}
        /\ (pc'[s] = "touch" => state'[s] = "browsing")
    BY <2>2 DEF AfterClimb, Climb
  <2>4. ~AcquireLock(s)
    BY <2>1 DEF AcquireLock, Climb
  <2> QED BY <1>7, <2>3, <2>4 DEF OwnerInv
<1>14. CASE \/ KeyFails(s) \/ Register(s)
            \/ Drive(s) /\ ~ClimbTo(s) /\ ~Touch(s)
  <2>1. pc'[s] \notin {"idle", "acquire", "refused", "touch", "done"} /\ ~AcquireLock(s)
    BY <1>1, <1>2, <1>14
       DEF KeyFails, Register, Drive, ResolveEndpoint, Provision, Configure, ApplyFirewall,
           StartVm, RunPreflight, ProbeProxy, Launch, CheckAlive, FailClosed, AcquireLock
  <2> QED BY <1>7, <2>1 DEF OwnerInv
<1> QED BY <1>8, <1>9, <1>10, <1>11, <1>12, <1>13, <1>14

\* A step that changes neither station, state nor teardowns of a session.
LEMMA SameOwner ==
    ASSUME TypeOK, Next, NEW s \in Sessions, OwnerInv(s), ~AcquireLock(s),
           pc'[s] = pc[s], state'[s] = state[s],
           \A a \in Actors : pc'[a] \in DownStation /\ Subject(a)' = s
                                => pc'[a] = pc[a] /\ Subject(a) = s,
           TearingDown(s) \subseteq TearingDown(s)'
    PROVE  OwnerInv(s)'
<1>1. Freed(s) => Freed(s)'
  BY FreedStays
<1>2. \A a \in Actors : pc'[a] = "finish" /\ Subject(a)' = s => Freed(s)'
  BY <1>1 DEF OwnerInv, DownStation
<1> QED BY <1>1, <1>2 DEF OwnerInv

\* The steps of a teardown keep every session's part.
LEMMA TeardownOwns ==
    ASSUME IInv, Next, NEW a \in Actors, Teardown(a), NEW s \in Sessions, OwnerInv(s)
    PROVE  OwnerInv(s)'
<1> USE DEF IInv, TypeOK
<1>1. pc[a] \in DownStation
  BY DEF Teardown, Snapshot, TerminateBrowser, RemoveDir, DestroyVm, ReleaseLease,
         Finish, DownStation
<1>2. Subject(a) \in Sessions
  BY <1>1, SubjectType
<1>3. /\ \A b \in Actors : b # a => pc'[b] = pc[b] /\ Subject(b)' = Subject(b)
      /\ Subject(a)' \in {Subject(a), Free}
  BY DEF Teardown, Snapshot, TerminateBrowser, RemoveDir, DestroyVm, ReleaseLease,
         Finish, Goto, TaskTypes, Actors, Subject
<1>4. s # Free
  BY SessionsAssumption
<1>5. ~AcquireLock(s)
  <2>1. CASE s = a
    BY <1>1, <2>1 DEF AcquireLock, DownStation
  <2>2. CASE s # a
    <3>1. pc'[s] = pc[s]
      BY <1>3, <2>2 DEF Actors
    <3> QED BY <3>1 DEF AcquireLock, Goto, TaskTypes, Actors
  <2> QED BY <2>1, <2>2
<1>6. CASE Subject(a) # s
  <2>1. s # a
    BY <1>6 DEF Subject
  <2>2. pc'[s] = pc[s]
    BY <1>3, <2>1 DEF Actors
  <2>3. state'[s] = state[s]
    BY <1>2, <1>6, TeardownSpares DEF Same
  <2>4. \A b \in Actors : pc'[b] \in DownStation /\ Subject(b)' = s
                             => pc'[b] = pc[b] /\ Subject(b) = s
    BY <1>3, <1>4, <1>6
  <2>5. TearingDown(s) \subseteq TearingDown(s)'
    BY <1>3, <1>6 DEF TearingDown
  <2> QED BY <1>5, <2>2, <2>3, <2>4, <2>5, SameOwner
<1>7. CASE Subject(a) = s /\ (ReleaseLease(a) \/ Finish(a))
  <2>1. CASE ReleaseLease(a)
    <3>1. Freed(s)'
      BY <1>7, <2>1, ReleaseFrees DEF ReleaseLease
    <3> QED BY <3>1 DEF OwnerInv
  <2>2. CASE Finish(a)
    <3>1. Freed(s)
      BY <1>7, <2>2 DEF Finish, OwnerInv
    <3>2. Freed(s)'
      BY <1>5, <3>1, FreedStays
    <3> QED BY <3>2 DEF OwnerInv
  <2> QED BY <1>7, <2>1, <2>2
<1>8. CASE Subject(a) = s /\ ~ReleaseLease(a) /\ ~Finish(a)
  <2>1. pc'[a] = "teardown" /\ job' = job /\ state' = state
    BY <1>8 DEF Teardown, Snapshot, TerminateBrowser, RemoveDir, DestroyVm, Goto,
           TaskTypes, tableVars
  <2>2. a \in TearingDown(s)'
    BY <1>8, <2>1 DEF TearingDown, DownStation, Subject
  <2>3. Freed(s) => Freed(s)'
    BY <1>5, FreedStays
  <2>4. pc'[s] \in {pc[s], "teardown"}
    BY <1>3, <2>1 DEF Actors
  <2>5. \A b \in Actors : pc'[b] = "finish" /\ Subject(b)' = s => Freed(s)'
    BY <1>3, <2>1, <2>3 DEF OwnerInv
  <2> QED BY <2>2, <2>3, <2>4, <2>5 DEF OwnerInv
<1> QED BY <1>6, <1>7, <1>8

\* A stop becomes the owner of the session it moves to Closing.
LEMMA BeginStopOwns ==
    ASSUME IInv, Next, NEW t \in Stoppers, NEW r \in Sessions, BeginStop(t, r),
           NEW s \in Sessions, OwnerInv(s)
    PROVE  OwnerInv(s)'
<1> USE DEF IInv, TypeOK
<1>1. /\ pc[t] = "idle" /\ pc'[t] = "snapshot" /\ t \in Actors /\ t \notin Sessions
      /\ Subject(t)' = r
      /\ \A b \in Actors : b # t => pc'[b] = pc[b] /\ Subject(b)' = Subject(b)
  BY SessionsAssumption DEF BeginStop, Goto, TaskTypes, Actors, Subject
<1>2. pc'[s] = pc[s] /\ ~AcquireLock(s)
  BY <1>1 DEF Actors, AcquireLock, Goto, TaskTypes
<1>3. Freed(s) => Freed(s)'
  BY <1>2, FreedStays
<1>4. \A b \in Actors : pc'[b] = "finish" /\ Subject(b)' = s => Freed(s)'
  BY <1>1, <1>3 DEF OwnerInv
<1>5. CASE r = s
  <2>1. t \in TearingDown(s)'
    BY <1>1, <1>5 DEF TearingDown, DownStation
  <2> QED BY <1>2, <1>3, <1>4, <2>1 DEF OwnerInv
<1>6. CASE r # s
  <2>1. state'[s] = state[s]
    BY <1>6 DEF BeginStop, TableTypes
  <2>2. TearingDown(s) \subseteq TearingDown(s)'
    BY <1>1 DEF TearingDown, DownStation
  <2> QED BY <1>2, <1>3, <1>4, <2>1, <2>2 DEF OwnerInv
<1> QED BY <1>5, <1>6

\* Every step keeps every session's part.
LEMMA OwnerStep ==
    (IInv /\ \A s \in Sessions : OwnerInv(s)) /\ [Next]_vars => \A s \in Sessions : OwnerInv(s)'
<1> SUFFICES ASSUME IInv, \A s \in Sessions : OwnerInv(s), [Next]_vars, NEW s \in Sessions
             PROVE  OwnerInv(s)'
  OBVIOUS
<1>1. CASE UNCHANGED vars
  BY <1>1 DEF OwnerInv, Freed, LostTrackOf, TearingDown, Subject, vars, tableVars, worldVars,
              taskVars
<1>2. CASE Next
  <2>1. ASSUME NEW r \in Sessions,
               \/ Begin(r) \/ Refuse(r) \/ AcquireLock(r) \/ KeyFails(r)
               \/ Register(r) \/ Unlock(r) \/ Drive(r) \/ BrowserExits(r)
        PROVE  OwnerInv(s)'
    <3>1. CASE r = s
      BY <1>2, <2>1, <3>1, StartOwns
    <3>2. CASE r # s
      <4>1. Same(s)
        BY <2>1, <3>2, StartSpares DEF IInv
      <4>2. /\ \A a \in Actors : a # r => pc'[a] = pc[a]
            /\ \A a \in Actors : Subject(a)' = Subject(a)
        BY <2>1, StartTypes DEF StartMove, BrowserExits, taskVars, Subject, Goto, IInv, TypeOK,
               TaskTypes
      <4>3. Subject(r) = r
        BY DEF Subject
      <4>4. \A a \in Actors : Subject(a) = s => pc'[a] = pc[a]
        BY <3>2, <4>2, <4>3
      <4>5. pc'[s] = pc[s] /\ state'[s] = state[s]
        BY <4>1 DEF Same
      <4>6. ~AcquireLock(s)
        BY <4>5 DEF AcquireLock, Goto, IInv, TypeOK, TaskTypes, Actors
      <4>7. TearingDown(s) \subseteq TearingDown(s)'
        BY <4>2, <4>4 DEF TearingDown
      <4> QED BY <1>2, <4>2, <4>4, <4>5, <4>6, <4>7, SameOwner DEF IInv
    <3> QED BY <3>1, <3>2
  <2>2. ASSUME NEW a \in Actors, Teardown(a) PROVE OwnerInv(s)'
    BY <1>2, <2>2, TeardownOwns
  <2>3. ASSUME NEW t \in Stoppers, NEW r \in Sessions, BeginStop(t, r) PROVE OwnerInv(s)'
    BY <1>2, <2>3, BeginStopOwns
  <2> QED BY <1>2, <2>1, <2>2, <2>3, NextCases
<1> QED BY <1>1, <1>2

(* A lock file is one that a session for this profile created: it carries    *)
(* that session's token, or the write of the token has failed.               *)
FileInv(p) ==
    lock[p] # Free =>
        \E s \in Sessions :
            /\ ProfileOf[s] = p
            /\ lock[p] = s \/ (lock[p] = Blank /\ LostTrackOf(s, "token"))

\* Every step keeps what a lock file is.
LEMMA FileStep ==
    ASSUME TypeOK, \A p \in Profiles : FileInv(p), [Next]_vars
    PROVE  \A p \in Profiles : FileInv(p)'
<1> SUFFICES ASSUME NEW p \in Profiles PROVE FileInv(p)'
  OBVIOUS
<1> USE DEF TypeOK, FileInv, LostTrackOf
<1>1. ASSUME lock'[p] \in {lock[p], Free}, botched \subseteq botched' PROVE FileInv(p)'
  <2>1. CASE lock'[p] = Free
    BY <2>1
  <2>2. CASE lock'[p] # Free
    <3>1. lock'[p] = lock[p] /\ FileInv(p)
      BY <1>1, <2>2
    <3>2. PICK s \in Sessions :
                /\ ProfileOf[s] = p
                /\ lock[p] = s \/ (lock[p] = Blank /\ <<s, "token">> \in botched)
      BY <2>2, <3>1
    <3> QED BY <1>1, <3>1, <3>2
  <2> QED BY <2>1, <2>2
<1>2. CASE UNCHANGED vars
  BY <1>1, <1>2 DEF vars, worldVars
<1>3. ASSUME NEW r \in Sessions, ReleaseLock(r) PROVE FileInv(p)'
  <2>1. lock'[p] \in {lock[p], Free}
    BY <1>3 DEF ReleaseLock, WorldTypes
  <2>2. botched \subseteq botched'
    BY <1>3 DEF ReleaseLock, Botch
  <2> QED BY <1>1, <2>1, <2>2
<1>4. ASSUME NEW r \in Sessions,
             \/ Begin(r) \/ Refuse(r) \/ AcquireLock(r) \/ KeyFails(r)
             \/ Register(r) \/ Unlock(r) \/ Drive(r) \/ BrowserExits(r)
      PROVE  FileInv(p)'
  <2>1. CASE AcquireLock(r) /\ ProfileOf[r] = p
    <3>1. \/ lock'[p] = r
          \/ lock'[p] = Blank /\ <<r, "token">> \in botched'
      BY <2>1 DEF AcquireLock, Botch, WorldTypes
    <3> QED BY <2>1, <3>1
  <2>2. CASE AcquireLock(r) /\ ProfileOf[r] # p
    BY <1>1, <2>2 DEF AcquireLock, Botch, WorldTypes
  <2>3. CASE Unlock(r)
    BY <1>3, <2>3 DEF Unlock
  <2>4. CASE ~AcquireLock(r) /\ ~Unlock(r)
    BY <1>1, <1>4, <2>4 DEF Begin, Refuse, KeyFails, Register, Drive,
         BrowserExits, ClimbTo, ResolveEndpoint, Provision, Configure,
         ApplyFirewall, StartVm, RunPreflight, ProbeProxy, Launch, CheckAlive, Touch,
         FailClosed, worldVars
  <2> QED BY <2>1, <2>2, <2>3, <2>4
<1>5. ASSUME NEW a \in Actors, Teardown(a) PROVE FileInv(p)'
  <2>1. CASE ReleaseLease(a)
    <3>1. Subject(a) \in Sessions
      BY <2>1, SubjectType DEF ReleaseLease, DownStation
    <3> QED BY <1>3, <2>1, <3>1 DEF ReleaseLease
  <2>2. CASE ~ReleaseLease(a)
    BY <1>1, <1>5, <2>2 DEF Teardown, Snapshot, TerminateBrowser, RemoveDir, DestroyVm,
       Finish, Botch, worldVars
  <2> QED BY <2>1, <2>2
<1>6. ASSUME NEW t \in Stoppers, NEW r \in Sessions, BeginStop(t, r) PROVE FileInv(p)'
  BY <1>1, <1>6 DEF BeginStop, worldVars
<1> QED BY <1>2, <1>4, <1>5, <1>6, NextCases

(* A profile is Busy only because of a start, a browsing session or a        *)
(* teardown that will give its lock back, except after one of two failed     *)
(* file operations: the write of the token into the new lock file, and the   *)
(* removal of the file. No early return and no race of stops forgets the     *)
(* lease (acquire_lock, start_session, teardown, release_lock).              *)
THEOREM LocksAreOwned == Spec => []LockHasOwner
<1> DEFINE Inv == /\ IInv
                  /\ \A s \in Sessions : OwnerInv(s)
                  /\ \A p \in Profiles : FileInv(p)
<1>1. Init => Inv
  <2> SUFFICES ASSUME Init
               PROVE  /\ \A s \in Sessions : OwnerInv(s)
                      /\ \A p \in Profiles : FileInv(p)
    BY IInvInit
  <2>1. \A s \in Sessions : Freed(s)
    BY SessionsAssumption DEF Init, Freed
  <2> QED BY <2>1 DEF OwnerInv, FileInv, Init
<1>2. Inv /\ [Next]_vars => Inv'
  BY IInvStep, OwnerStep, FileStep DEF IInv
<1>3. Inv => LockHasOwner
  <2> SUFFICES ASSUME Inv, NEW p \in Profiles, lock[p] # Free, NEW s \in Sessions,
                      ProfileOf[s] = p, lock[p] = s
               PROVE  HasReleaser(s) \/ LostTrackOf(s, "lock")
    BY DEF LockHasOwner, FileInv
  <2> QED BY DEF OwnerInv, Freed, HasReleaser
<1> QED BY <1>1, <1>2, <1>3, PTL DEF Spec

-----------------------------------------------------------------------------
(* Clients that stop a session only once its start has returned.             *)

(* A stop and the start it is for never overlap.                             *)
OrderlyInv ==
    /\ \A t \in Stoppers : job[t] # Free => pc[job[t]] = "done"
    /\ \A s \in Sessions : state[s] \in Leaving => pc[s] = "done"

\* A start that has returned takes no further step.
LEMMA DoneIsDone ==
    ASSUME TypeOK, NEW s \in Sessions,
           \/ Begin(s) \/ Refuse(s) \/ AcquireLock(s) \/ KeyFails(s)
           \/ Register(s) \/ Unlock(s) \/ Drive(s) \/ BrowserExits(s)
    PROVE  /\ pc[s] # "done" \/ pc' = pc
           /\ \A b \in Actors : b # s => pc'[b] = pc[b]
           /\ job' = job
           /\ state'[s] \notin Leaving \/ state'[s] = state[s]
           /\ \A r \in Sessions : r # s => state'[r] = state[r]
<1>1. job' = job /\ \A b \in Actors : b # s => pc'[b] = pc[b]
  BY StartTypes DEF StartMove, BrowserExits, taskVars, Goto, TypeOK, TaskTypes
<1>2. pc[s] # "done" \/ pc' = pc
  BY DEF Begin, Refuse, AcquireLock, KeyFails, Register, Unlock, Drive, ClimbTo, Climb,
         ResolveEndpoint, Provision, Configure, ApplyFirewall, StartVm, RunPreflight,
         ProbeProxy, Launch, CheckAlive, Touch, FailClosed, BrowserExits, taskVars
<1>3. CASE Register(s)
  BY <1>1, <1>2, <1>3 DEF Register, TypeOK, TableTypes, Leaving
<1>4. CASE ClimbTo(s)
  <2>1. PICK next \in Climb : Transition(s, next)
    BY <1>4 DEF ClimbTo
  <2>2. state' = state \/ state' = [state EXCEPT ![s] = next]
    BY <2>1 DEF Transition
  <2> QED BY <1>1, <1>2, <2>1, <2>2 DEF Climb, TypeOK, TableTypes, Leaving
<1>5. CASE ~Register(s) /\ ~ClimbTo(s)
  <2>1. state' = state
    BY <1>5 DEF Begin, Refuse, AcquireLock, KeyFails, Unlock, Drive, ResolveEndpoint,
           Provision, Configure, ApplyFirewall, StartVm, RunPreflight, ProbeProxy, Launch,
           CheckAlive, Touch, FailClosed, BrowserExits, tableVars
  <2> QED BY <1>1, <1>2, <2>1
<1> QED BY <1>3, <1>4, <1>5

\* What the steps of a teardown change of tasks and states.
LEMMA TeardownMoves ==
    ASSUME TypeOK, NEW a \in Actors, Teardown(a)
    PROVE  /\ pc[a] \in DownStation /\ Subject(a) \in Sessions
           /\ \A b \in Actors : b # a => pc'[b] = pc[b]
           /\ Finish(a) \/ (job' = job /\ state' = state /\ pc'[a] \in {"teardown", "finish"})
<1>1. pc[a] \in DownStation
  BY DEF Teardown, Snapshot, TerminateBrowser, RemoveDir, DestroyVm, ReleaseLease,
         Finish, DownStation
<1>2. Subject(a) \in Sessions
  BY <1>1, SubjectType
<1> QED
  BY <1>1, <1>2 DEF Teardown, Snapshot, TerminateBrowser, RemoveDir, DestroyVm, ReleaseLease,
         Finish, Goto, TypeOK, TaskTypes, tableVars, taskVars

LEMMA OrderlyStep ==
    ASSUME ~EagerStop, TypeOK, OrderlyInv, [Next]_vars
    PROVE  OrderlyInv'
<1> USE DEF TypeOK
<1>1. CASE UNCHANGED vars
  BY <1>1 DEF OrderlyInv, vars, tableVars, taskVars
<1>2. ASSUME NEW s \in Sessions,
             \/ Begin(s) \/ Refuse(s) \/ AcquireLock(s) \/ KeyFails(s)
             \/ Register(s) \/ Unlock(s) \/ Drive(s) \/ BrowserExits(s)
      PROVE  OrderlyInv'
  <2>1. \A r \in Sessions : pc[r] = "done" => pc'[r] = "done"
    BY <1>2, DoneIsDone DEF Actors
  <2>2. \A r \in Sessions : state'[r] \in Leaving => state[r] \in Leaving
    BY <1>2, DoneIsDone
  <2> QED BY <1>2, <2>1, <2>2, DoneIsDone DEF OrderlyInv, TaskTypes
<1>3. ASSUME NEW a \in Actors, Teardown(a) PROVE OrderlyInv'
  <2>1. \A r \in Sessions : pc[r] = "done" => pc'[r] = "done"
    BY <1>3, TeardownMoves DEF Actors, DownStation
  <2>2. CASE ~Finish(a)
    BY <1>3, <2>1, <2>2, TeardownMoves DEF OrderlyInv, TaskTypes
  <2>3. CASE Finish(a) /\ a \in Sessions
    <3>1. job' = job /\ state' = [state EXCEPT ![a] = "failed"]
      BY <2>3, SessionsAssumption DEF Finish, Subject
    <3>2. pc'[a] = "done"
      BY <2>3 DEF Finish, Goto, TaskTypes, Actors
    <3> QED BY <2>1, <3>1, <3>2 DEF OrderlyInv, TaskTypes, TableTypes
  <2>4. CASE Finish(a) /\ a \notin Sessions
    <3>1. /\ a \in Stoppers /\ job' = [job EXCEPT ![a] = Free]
          /\ state' = [state EXCEPT ![job[a]] = "destroyed"]
          /\ job[a] \in Sessions
      BY <1>3, <2>4, TeardownMoves DEF Finish, Subject, Actors
    <3>2. pc[job[a]] = "done"
      BY <3>1, SessionsAssumption DEF OrderlyInv
    <3> QED BY <2>1, <3>1, <3>2 DEF OrderlyInv, TaskTypes, TableTypes
  <2> QED BY <2>2, <2>3, <2>4
<1>4. ASSUME NEW t \in Stoppers, NEW s \in Sessions, BeginStop(t, s) PROVE OrderlyInv'
  <2>1. pc[s] = "done" /\ \A r \in Sessions : pc'[r] = pc[r]
    BY <1>4, SessionsAssumption DEF BeginStop, Returned, Goto, TaskTypes, Actors
  <2>2. \A r \in Sessions \ {s} : state'[r] = state[r]
    BY <1>4 DEF BeginStop, TableTypes
  <2>3. job' = [job EXCEPT ![t] = s]
    BY <1>4 DEF BeginStop
  <2> QED BY <2>1, <2>2, <2>3 DEF OrderlyInv, TaskTypes
<1> QED BY <1>1, <1>2, <1>3, <1>4, NextCases

\* The holder of a profile is the session whose token its lock file carries.
LEMMA HolderOf ==
    ASSUME WorldTypes, NEW s \in Sessions
    PROVE  /\ Holder[ProfileOf[s]] = s <=> lock[ProfileOf[s]] = s
           /\ lock[ProfileOf[s]] = Free => Holder[ProfileOf[s]] = Free
BY SessionsAssumption DEF Holder, WorldTypes

\* What writing, clearing or removing a lock file does to the holder.
LEMMA HolderSet ==
    ASSUME WorldTypes, NEW s \in Sessions, NEW x \in Sessions \cup {Free, Blank},
           lock' = [lock EXCEPT ![ProfileOf[s]] = x]
    PROVE  Holder' = [Holder EXCEPT ![ProfileOf[s]] = IF x \in Sessions THEN x ELSE Free]
BY SessionsAssumption DEF Holder, WorldTypes

\* Every step is a step of SessionLifecycle, or changes neither state nor holder.
LEMMA PromiseStep ==
    ASSUME IInv, OrderlyInv, [Next]_vars
    PROVE  [Promise!LifecycleNext]_<<state, Holder>>
<1> USE DEF IInv, TypeOK
<1> DEFINE Goal == [Promise!LifecycleNext]_<<state, Holder>>
<1>0. lock' = lock => Holder' = Holder
  BY DEF Holder
<1>1. CASE UNCHANGED vars
  BY <1>0, <1>1 DEF vars, tableVars, worldVars
<1>2. ASSUME NEW s \in Sessions, ReleaseLock(s), state[s] # "browsing", UNCHANGED state
      PROVE  Goal
  <2>1. CASE lock' = [lock EXCEPT ![ProfileOf[s]] = Free] /\ lock[ProfileOf[s]] = s
    <3>1. Holder' = [Holder EXCEPT ![ProfileOf[s]] = Free] /\ Holder[ProfileOf[s]] = s
      BY <2>1, HolderOf, HolderSet, SessionsAssumption
    <3> QED BY <1>2, <3>1 DEF Promise!LifecycleNext, Promise!Yield, Promise!Owns
  <2>2. CASE lock' = lock
    BY <1>0, <1>2, <2>2
  <2> QED BY <1>2, <2>1, <2>2 DEF ReleaseLock
<1>3. ASSUME NEW s \in Sessions,
             \/ Begin(s) \/ Refuse(s) \/ AcquireLock(s) \/ KeyFails(s)
             \/ Register(s) \/ Unlock(s) \/ Drive(s) \/ BrowserExits(s)
      PROVE  Goal
  <2>0. SessionInv(s)
    OBVIOUS
  <2>1. CASE AcquireLock(s)
    <3>1. state[s] = "absent" /\ state' = state /\ Holder[ProfileOf[s]] = Free
      BY <2>0, <2>1, HolderOf
         DEF AcquireLock, SessionInv, StationInv, BeforeRegistration, tableVars
    <3>2. CASE lock' = [lock EXCEPT ![ProfileOf[s]] = s]
      <4>1. Holder' = [Holder EXCEPT ![ProfileOf[s]] = s]
        BY <3>2, HolderSet
      <4> QED BY <3>1, <4>1 DEF Promise!LifecycleNext, Promise!Claim
    <3>3. CASE lock' = [lock EXCEPT ![ProfileOf[s]] = Blank]
      <4>1. Holder' = [Holder EXCEPT ![ProfileOf[s]] = Free]
        BY <3>3, HolderSet, SessionsAssumption
      <4>2. Holder' = Holder
        BY <3>1, <4>1, SessionsAssumption DEF Holder
      <4> QED BY <3>1, <4>2
    <3> QED BY <2>1, <3>2, <3>3 DEF AcquireLock
  <2>2. CASE Register(s)
    <3>1. state[s] = "absent" /\ Holder[ProfileOf[s]] = s /\ Holder' = Holder
      BY <1>0, <2>0, <2>2, HolderOf
         DEF Register, SessionInv, StationInv, LockInv, BeforeRegistration, worldVars
    <3> QED
      BY <2>2, <3>1 DEF Register, Promise!LifecycleNext, Promise!Enter, Promise!Owns
  <2>3. CASE Unlock(s)
    <3>1. state[s] = "absent"
      BY <2>0, <2>3 DEF Unlock, SessionInv, StationInv, BeforeRegistration
    <3> QED BY <1>2, <2>3, <3>1 DEF Unlock, tableVars
  <2>4. CASE ClimbTo(s)
    <3>1. PICK next \in Climb : pc[s] = next /\ Transition(s, next)
      BY <2>4 DEF ClimbTo
    <3>2. Holder' = Holder
      BY <1>0, <2>4 DEF ClimbTo, worldVars
    <3>3. CASE next \in AllowedNext[state[s]]
      <4>1. state[s] \in SessionState
        BY <2>0, <3>1 DEF SessionInv, StationInv, BeforeRegistration, Climb, TableTypes
      <4>2. state[s] \notin Leaving
        BY <3>1, <3>3, <4>1 DEF AllowedNext, SessionState, Leaving, Climb
      <4>3. Holder[ProfileOf[s]] = s
        BY <2>0, <3>1, <4>1, <4>2, HolderOf
           DEF SessionInv, LockInv, Undisturbed, Climb, DownStation, SessionState, Leaving
      <4>4. state' = [state EXCEPT ![s] = next] /\ state[s] # "absent"
        BY <3>1, <3>3, <4>1 DEF Transition, SessionState
      <4>5. Promise!Move(s)
        BY <3>2, <3>3, <4>3, <4>4 DEF Promise!Move, Promise!Owns, Promise!AllowedNext, AllowedNext, Promise!SessionState, SessionState
      <4> QED BY <4>5 DEF Promise!LifecycleNext
    <3>4. CASE next \notin AllowedNext[state[s]]
      BY <3>1, <3>2, <3>4 DEF Transition
    <3> QED BY <3>3, <3>4
  <2>5. CASE ~(AcquireLock(s) \/ Register(s) \/ Unlock(s) \/ ClimbTo(s))
    BY <1>0, <1>3, <2>5 DEF Begin, Refuse, KeyFails, Drive, ResolveEndpoint, Provision, Configure,
       ApplyFirewall, StartVm, RunPreflight, ProbeProxy, Launch, CheckAlive, Touch,
       FailClosed, BrowserExits, tableVars, worldVars
  <2> QED BY <2>1, <2>2, <2>3, <2>4, <2>5
<1>4. ASSUME NEW a \in Actors, Teardown(a) PROVE Goal
  <2>1. pc[a] \in DownStation /\ Subject(a) \in Sessions
    BY <1>4, TeardownMoves
  <2> DEFINE s == Subject(a)
  <2>2. state[s] # "browsing" /\ state[s] # "absent"
    <3>1. a \in TearingDown(s)
      BY <2>1 DEF TearingDown
    <3>2. state[s] # "browsing"
      BY <2>1, <3>1, IInvSafe DEF BrowsingIsIntact
    <3>3. CASE a \in Sessions
      BY <2>1, <3>3 DEF Subject, SessionInv, StationInv, BeforeRegistration, DownStation
    <3>4. CASE a \notin Sessions
      BY <2>1, <3>4 DEF Subject, StopperInv, Leaving, Actors
    <3> QED BY <3>2, <3>3, <3>4
  <2>3. CASE ReleaseLease(a)
    BY <1>2, <2>1, <2>2, <2>3 DEF ReleaseLease, tableVars
  <2>4. CASE Finish(a)
    <3>1. Holder' = Holder
      BY <1>0, <2>4 DEF Finish, worldVars
    <3>2. CASE a \in Sessions
      <4>1. s = a /\ state[s] # "destroyed"
        BY <2>1, <3>2 DEF Subject, OrderlyInv, DownStation, Leaving
      <4>2. state' = [state EXCEPT ![s] = "failed"]
        BY <2>4, <3>2 DEF Finish
      <4>3. CASE state[s] = "failed"
        BY <2>1, <3>1, <4>2, <4>3 DEF TableTypes
      <4>4. CASE state[s] # "failed"
        <5>1. "failed" \in AllowedNext[state[s]]
          BY <2>1, <2>2, <4>1, <4>4 DEF AllowedNext, SessionState, TableTypes
        <5>2. Promise!Move(s)
          BY <2>2, <3>1, <4>2, <5>1
             DEF Promise!Move, Promise!Upward, Promise!AllowedNext, AllowedNext,
                 Promise!SessionState, SessionState
        <5> QED BY <2>1, <5>2 DEF Promise!LifecycleNext
      <4> QED BY <4>3, <4>4
    <3>3. CASE a \notin Sessions
      <4>1. state[s] \in Leaving
        BY <2>1, <3>3 DEF Subject, StopperInv, Actors
      <4>2. state' = [state EXCEPT ![s] = "destroyed"]
        BY <2>4, <3>3 DEF Finish
      <4>3. CASE state[s] = "destroyed"
        BY <2>1, <3>1, <4>2, <4>3 DEF TableTypes
      <4>4. CASE state[s] # "destroyed"
        <5>1. "destroyed" \in AllowedNext[state[s]]
          BY <4>1, <4>4 DEF AllowedNext, SessionState, Leaving
        <5>2. Promise!Move(s)
          BY <2>2, <3>1, <4>2, <5>1
             DEF Promise!Move, Promise!Upward, Promise!AllowedNext, AllowedNext,
                 Promise!SessionState, SessionState
        <5> QED BY <2>1, <5>2 DEF Promise!LifecycleNext
      <4> QED BY <4>3, <4>4
    <3> QED BY <3>2, <3>3
  <2>5. CASE ~ReleaseLease(a) /\ ~Finish(a)
    BY <1>0, <1>4, <2>5 DEF Teardown, Snapshot, TerminateBrowser, RemoveDir, DestroyVm, tableVars,
                      worldVars
  <2> QED BY <2>3, <2>4, <2>5
<1>5. ASSUME NEW t \in Stoppers, NEW s \in Sessions, BeginStop(t, s) PROVE Goal
  <2>1. Holder' = Holder /\ state[s] # "absent"
    BY <1>0, <1>5 DEF BeginStop, worldVars
  <2>2. CASE "closing" \in AllowedNext[state[s]]
    <3>1. state' = [state EXCEPT ![s] = "closing"]
      BY <1>5, <2>2 DEF BeginStop
    <3>2. Promise!Move(s)
      BY <2>1, <2>2, <3>1 DEF Promise!Move, Promise!Upward, Promise!AllowedNext,
         AllowedNext, Promise!SessionState, SessionState
    <3> QED BY <3>2 DEF Promise!LifecycleNext
  <2>3. CASE "closing" \notin AllowedNext[state[s]]
    BY <1>5, <2>1, <2>3 DEF BeginStop
  <2> QED BY <2>2, <2>3
<1> QED BY <1>1, <1>3, <1>4, <1>5, NextCases

LEMMA OrderlyInit == Init => OrderlyInv
  BY DEF Init, OrderlyInv, Leaving

(* Where clients stop a session only once its start has returned, the table  *)
(* and the locks do what SessionLifecycle promises of them (start_session,   *)
(* transition, stop_session, teardown).                                      *)
THEOREM ImplementsLifecycle ==
    ASSUME ~EagerStop
    PROVE  Spec => KeepsPromise
<1>1. Init => Promise!LifecycleInit
  BY SessionsAssumption DEF Init, Holder, Promise!LifecycleInit
<1>2. OrderlyInv /\ TypeOK /\ [Next]_vars => OrderlyInv'
  BY OrderlyStep
<1>3. IInv /\ OrderlyInv /\ [Next]_vars => [Promise!LifecycleNext]_(Promise!lifecycleVars)
  BY PromiseStep DEF Promise!lifecycleVars
<1> QED
  BY <1>1, <1>2, <1>3, OrderlyInit, IInvInit, IInvStep, SessionsType, PTL
     DEF Spec, KeepsPromise, Promise!LifecycleSpec

-----------------------------------------------------------------------------
(* What a session has is in its entry or in the hands of a teardown.         *)

(* Nothing of s is left in the role, or its release is known to have failed. *)
Gone(s, role) == vm[s][role] \in {"none", "gone"} \/ LostTrackOf(s, role)

TrackInv(s) ==
    /\ \A role \in Roles : Gone(s, role) \/ role \in refs[s]
    /\ browser[s] = "live" =>
          \/ LostTrackOf(s, "handle") \/ "handle" \in refs[s]
          \/ \E a \in Actors : Subject(a) = s /\ "handle" \in held[a]
    /\ state[s] \in Ended => refs[s] \subseteq {"dir"}
    /\ \A a \in Actors : Subject(a) = s /\ pc[a] \in {"teardown", "finish"} =>
          /\ "handle" \notin refs[s]
          /\ \A role \in Roles : Gone(s, role) \/ role \in held[a]

\* A step that takes nothing of a session and no teardown of it further.
LEMMA SameTrack ==
    ASSUME NEW s \in Sessions, TrackInv(s),
           refs'[s] = refs[s], vm'[s] = vm[s], state'[s] \in Ended => state[s] \in Ended,
           browser'[s] = "live" => browser[s] = "live", botched \subseteq botched',
           \A a \in Actors : Subject(a)' = s /\ pc'[a] \in {"teardown", "finish"} =>
               Subject(a) = s /\ pc[a] \in {"teardown", "finish"} /\ held'[a] = held[a],
           \A a \in Actors : Subject(a) = s /\ "handle" \in held[a] =>
               Subject(a)' = s /\ "handle" \in held'[a]
    PROVE  TrackInv(s)'
<1>1. \A x : LostTrackOf(s, x) => LostTrackOf(s, x)'
  BY DEF LostTrackOf
<1>2. \A role \in Roles : Gone(s, role) => Gone(s, role)'
  BY <1>1 DEF Gone
<1> QED BY <1>1, <1>2 DEF TrackInv

\* While a start is under way nobody takes anything from it.
LEMMA StartTracks ==
    ASSUME IInv, OrderlyInv, NEW s \in Sessions, TrackInv(s),
           \/ Begin(s) \/ Refuse(s) \/ AcquireLock(s) \/ KeyFails(s)
           \/ Register(s) \/ Unlock(s) \/ Drive(s)
    PROVE  TrackInv(s)'
<1> USE DEF IInv, TypeOK
<1>0. \A x : Goto(s, x) => pc'[s] = x /\ \A a \in Actors \ {s} : pc'[a] = pc[a]
  BY DEF TaskTypes, Goto, Actors
<1>1. /\ pc[s] \notin DownStation /\ pc[s] # "done"
      /\ job' = job /\ held' = held
      /\ \A a \in Actors : a # s => pc'[a] = pc[a]
  BY <1>0, StartTypes DEF StartMove, Begin, Refuse, AcquireLock, KeyFails, Register, Unlock,
     Drive, ClimbTo, Climb, ResolveEndpoint, Provision, Configure, ApplyFirewall, StartVm,
     RunPreflight, ProbeProxy, Launch, CheckAlive, Touch, FailClosed
<1>2. \A a \in Actors : Subject(a)' = Subject(a)
  BY <1>1 DEF Subject
<1>3. \A a \in Actors : Subject(a) = s => a = s
  BY <1>1, SessionsAssumption DEF Subject, Actors, OrderlyInv
<1>4. \A x : Raise(s, x) => pc'[s] = "fail_closed"
  BY <1>0 DEF Raise
<1>5. pc'[s] \notin {"teardown", "finish"}
  BY <1>0, <1>4 DEF Begin, Refuse, AcquireLock, KeyFails, Register, Unlock,
     Drive, ClimbTo, Climb, Transition, AfterClimb, ResolveEndpoint, Provision, Configure,
     ApplyFirewall, StartVm, RunPreflight, ProbeProxy, Launch, CheckAlive, Touch, FailClosed
<1>6. state'[s] \notin Ended
  <2>1. state[s] \notin Leaving
    BY <1>1 DEF OrderlyInv
  <2>2. state'[s] \notin Leaving
    BY <2>1, DoneIsDone
  <2> QED BY <2>2 DEF Leaving, Ended
<1>7. \A x : LostTrackOf(s, x) => LostTrackOf(s, x)'
  BY DEF Begin, Refuse, AcquireLock, KeyFails, Register, Unlock, ReleaseLock, Botch,
     Drive, ClimbTo, ResolveEndpoint, Provision, Configure, ApplyFirewall, StartVm,
     RunPreflight, ProbeProxy, Launch, CheckAlive, Touch, FailClosed, LostTrackOf, worldVars
<1>8. held[s] = {}
  BY <1>1 DEF TaskShape, DownStation, Actors
<1>9. \A role \in Roles : (Gone(s, role) \/ role \in refs[s]) => (Gone(s, role) \/ role \in refs[s])'
  <2>1. ASSUME NEW x \in Roles, Provision(s, x), NEW role \in Roles,
               Gone(s, role) \/ role \in refs[s]
        PROVE  (Gone(s, role) \/ role \in refs[s])'
    BY <1>7, <2>1 DEF Provision, Gone, TableTypes, WorldTypes, Roles
  <2>2. ASSUME NEW x \in Roles, StartVm(s, x), NEW role \in Roles,
               Gone(s, role) \/ role \in refs[s]
        PROVE  (Gone(s, role) \/ role \in refs[s])'
    BY <1>7, <2>2 DEF StartVm, Gone, TableTypes, WorldTypes, Roles, tableVars
  <2>3. CASE ~\E x \in Roles : Provision(s, x) \/ StartVm(s, x)
    <3>1. vm' = vm /\ refs[s] \subseteq refs'[s]
      BY <2>3 DEF Begin, Refuse, AcquireLock, KeyFails, Register, Unlock,
         Drive, ClimbTo, ResolveEndpoint, Configure, ApplyFirewall, RunPreflight, ProbeProxy,
         Launch, CheckAlive, Touch, FailClosed, worldVars, tableVars, TableTypes
    <3> QED BY <1>7, <3>1 DEF Gone
  <2> QED BY <2>1, <2>2, <2>3
<1>10. browser'[s] = "live" => LostTrackOf(s, "handle")' \/ "handle" \in refs'[s]
  <2>1. CASE Launch(s) /\ browser' # browser
    BY <2>1 DEF Launch, TableTypes
  <2>2. CASE browser' = browser
    <3>1. "handle" \in refs[s] => "handle" \in refs'[s]
      BY <2>2 DEF Begin, Refuse, AcquireLock, KeyFails, Register, Unlock,
         Drive, ClimbTo, ResolveEndpoint, Provision, Configure, ApplyFirewall, StartVm,
         RunPreflight, ProbeProxy, Launch, CheckAlive, Touch, FailClosed, tableVars, TableTypes
    <3> QED BY <1>3, <1>7, <1>8, <2>2, <3>1 DEF TrackInv
  <2>3. browser' = browser \/ Launch(s)
    BY DEF Begin, Refuse, AcquireLock, KeyFails, Register, Unlock,
       Drive, ClimbTo, ResolveEndpoint, Provision, Configure, ApplyFirewall, StartVm,
       RunPreflight, ProbeProxy, CheckAlive, Touch, FailClosed, worldVars
  <2> QED BY <2>1, <2>2, <2>3
<1> QED BY <1>2, <1>3, <1>5, <1>6, <1>9, <1>10 DEF TrackInv

\* A teardown of s has in hand what it has not released.
LEMMA TeardownTracks ==
    ASSUME IInv, NEW a \in Actors, Teardown(a), NEW s \in Sessions, Subject(a) = s, TrackInv(s)
    PROVE  TrackInv(s)'
<1> USE DEF IInv, TypeOK
<1>1. \A b \in Actors : b # a => /\ pc'[b] = pc[b] /\ held'[b] = held[b]
                                 /\ Subject(b)' = Subject(b)
  BY DEF Teardown, Snapshot, TerminateBrowser, RemoveDir, DestroyVm, ReleaseLease,
         Finish, Dispatched, Goto, TaskTypes, Actors, Subject, taskVars
<1>2. \A x : LostTrackOf(s, x) => LostTrackOf(s, x)'
  BY DEF Teardown, Snapshot, TerminateBrowser, RemoveDir, DestroyVm, ReleaseLease,
         Finish, ReleaseLock, Botch, LostTrackOf, worldVars
<1>3. \A b \in Actors : held[b] # {} => pc[b] = "teardown"
  BY DEF TaskShape
<1>4. CASE Snapshot(a)
  <2>1. /\ held'[a] = refs[s] /\ refs'[s] = refs[s] \ {"handle"} /\ Subject(a)' = s
        /\ UNCHANGED <<vm, browser, state>> /\ pc[a] = "snapshot"
    BY <1>4 DEF Snapshot, worldVars, TaskTypes, TableTypes, Subject
  <2>2. \A role \in Roles : role # "handle"
    BY DEF Roles
  <2>3. \A role \in Roles : Gone(s, role) => Gone(s, role)'
    BY <1>2, <2>1 DEF Gone
  <2>4. browser'[s] = "live" =>
          \/ LostTrackOf(s, "handle")' \/ "handle" \in refs'[s]
          \/ \E b \in Actors : Subject(b)' = s /\ "handle" \in held'[b]
    BY <1>1, <1>2, <1>3, <2>1 DEF TrackInv
  <2> QED BY <1>1, <2>1, <2>2, <2>3, <2>4 DEF TrackInv
<1>5. CASE TerminateBrowser(a)
  <2>1. /\ held'[a] = held[a] \ {"handle"} /\ Subject(a)' = s /\ pc' = pc
        /\ UNCHANGED <<vm, refs, state>>
        /\ browser'[s] # "live" \/ LostTrackOf(s, "handle")'
    BY <1>5 DEF TerminateBrowser, Dispatched, Botch, LostTrackOf, tableVars, TaskTypes,
                WorldTypes, Subject
  <2>2. \A role \in Roles : role # "handle"
    BY DEF Roles
  <2>3. \A role \in Roles : Gone(s, role) => Gone(s, role)'
    BY <1>2, <2>1 DEF Gone
  <2> QED BY <1>1, <2>1, <2>2, <2>3 DEF TrackInv
<1>6. CASE RemoveDir(a)
  <2>1. /\ held'[a] = held[a] \ {"dir"} /\ Subject(a)' = s /\ pc' = pc
        /\ UNCHANGED <<vm, refs, state, browser>>
    BY <1>6 DEF RemoveDir, Dispatched, tableVars, TaskTypes, Subject
  <2>2. \A role \in Roles : role # "dir"
    BY DEF Roles
  <2>3. \A role \in Roles : Gone(s, role) => Gone(s, role)'
    BY <1>2, <2>1 DEF Gone
  <2>4. \A b \in Actors : "handle" \in held[b] => "handle" \in held'[b]
    BY <1>1, <2>1
  <2>5. \A b \in Actors : Subject(b)' = Subject(b)
    BY <1>1, <2>1
  <2> QED BY <1>1, <1>2, <2>1, <2>2, <2>3, <2>4, <2>5 DEF TrackInv
<1>7. ASSUME NEW x \in Roles, DestroyVm(a, x) PROVE TrackInv(s)'
  <2>1. /\ held'[a] = held[a] \ {x} /\ Subject(a)' = s /\ pc' = pc
        /\ UNCHANGED <<refs, state>>
        /\ (browser'[s] = "live" => browser[s] = "live")
    BY <1>7 DEF DestroyVm, Dispatched, tableVars, TaskTypes, WorldTypes, Subject
  <2>2. x # "handle"
    BY DEF Roles
  <2>3. \A role \in Roles : Gone(s, role) => Gone(s, role)'
    BY <1>2, <1>7 DEF DestroyVm, Gone, WorldTypes
  <2>4. Gone(s, x)'
    BY <1>7 DEF DestroyVm, Gone, WorldTypes, Botch, LostTrackOf
  <2>5. \A b \in Actors : "handle" \in held[b] => "handle" \in held'[b]
    BY <1>1, <2>1, <2>2
  <2>6. \A b \in Actors : Subject(b)' = Subject(b)
    BY <1>1, <2>1
  <2>7. \A b \in Actors, role \in Roles : role \in held[b] => role \in held'[b] \/ role = x
    BY <1>1, <2>1
  <2> QED BY <1>1, <1>2, <2>1, <2>3, <2>4, <2>5, <2>6, <2>7 DEF TrackInv
<1>8. CASE ReleaseLease(a)
  <2>1. /\ held' = held /\ Subject(a)' = s /\ pc[a] = "teardown"
        /\ UNCHANGED <<vm, refs, state, browser>>
    BY <1>8 DEF ReleaseLease, tableVars, Subject
  <2>2. \A role \in Roles : Gone(s, role) => Gone(s, role)'
    BY <1>2, <2>1 DEF Gone
  <2>3. \A b \in Actors : Subject(b)' = Subject(b)
    BY <1>1, <2>1
  <2> QED BY <1>1, <1>2, <2>1, <2>2, <2>3 DEF TrackInv
<1>9. CASE Finish(a)
  <2>1. /\ held' = held /\ pc[a] = "finish" /\ held[a] = {}
        /\ refs'[s] = refs[s] \cap {"dir"}
        /\ UNCHANGED <<vm, browser>> /\ pc'[a] \in {"idle", "done"}
    BY <1>3, <1>9 DEF Finish, worldVars, TableTypes, TaskTypes, Goto
  <2>2. \A role \in Roles : Gone(s, role)'
    BY <1>2, <2>1 DEF TrackInv, Gone
  <2>3. "handle" \notin refs[s]
    BY <2>1 DEF TrackInv
  <2> QED BY <1>1, <1>2, <2>1, <2>2, <2>3 DEF TrackInv
<1> QED BY <1>4, <1>5, <1>6, <1>7, <1>8, <1>9 DEF Teardown

LEMMA TrackStep ==
    ASSUME IInv, OrderlyInv, NEW s \in Sessions, TrackInv(s), [Next]_vars
    PROVE  TrackInv(s)'
<1> USE DEF IInv, TypeOK
<1>1. CASE UNCHANGED vars
  BY <1>1, SameTrack DEF vars, tableVars, worldVars, taskVars, Subject
<1>2. ASSUME NEW r \in Sessions, BrowserExits(r) PROVE TrackInv(s)'
  <2>1. UNCHANGED <<refs, vm, state, botched, pc, job, held>>
    BY <1>2 DEF BrowserExits, tableVars, taskVars
  <2>2. browser'[s] = "live" => browser[s] = "live"
    BY <1>2 DEF BrowserExits, WorldTypes
  <2> QED BY <2>1, <2>2, SameTrack DEF Subject
<1>3. ASSUME NEW r \in Sessions,
             \/ Begin(r) \/ Refuse(r) \/ AcquireLock(r) \/ KeyFails(r)
             \/ Register(r) \/ Unlock(r) \/ Drive(r)
      PROVE  TrackInv(s)'
  <2>1. CASE r = s
    BY <1>3, <2>1, StartTracks
  <2>2. CASE r # s
    <3>1. Same(s)
      BY <1>3, <2>2, StartSpares
    <3>2. browser'[s] = browser[s]
      BY <1>3, <2>2 DEF Begin, Refuse, AcquireLock, KeyFails, Register, Unlock, Drive,
         ClimbTo, ResolveEndpoint, Provision, Configure, ApplyFirewall, StartVm,
         RunPreflight, ProbeProxy, Launch, CheckAlive, Touch, FailClosed, worldVars, WorldTypes
    <3>3. botched \subseteq botched'
      BY <1>3 DEF Begin, Refuse, AcquireLock, KeyFails, Register, Unlock, ReleaseLock, Botch,
         Drive, ClimbTo, ResolveEndpoint, Provision, Configure, ApplyFirewall, StartVm,
         RunPreflight, ProbeProxy, Launch, CheckAlive, Touch, FailClosed, worldVars
    <3>4. held' = held /\ job' = job /\ \A a \in Actors : a # r => pc'[a] = pc[a]
      BY <1>3, StartTypes DEF StartMove, Goto, TaskTypes
    <3>5. \A a \in Actors : Subject(a)' = Subject(a) /\ (Subject(a) = s => a # r)
      BY <2>2, <3>4 DEF Subject
    <3> QED BY <3>1, <3>2, <3>3, <3>4, <3>5, SameTrack DEF Same
  <2> QED BY <2>1, <2>2
<1>4. ASSUME NEW a \in Actors, Teardown(a) PROVE TrackInv(s)'
  <2>1. CASE Subject(a) = s
    BY <1>4, <2>1, TeardownTracks
  <2>2. CASE Subject(a) # s
    <3>0. pc[a] \in DownStation /\ Subject(a) \in Sessions
      BY <1>4, TeardownMoves
    <3>1. Same(s)
      BY <1>4, <2>2, <3>0, TeardownSpares
    <3>2. browser'[s] = browser[s]
      BY <1>4, <2>2 DEF Teardown, Snapshot, TerminateBrowser, RemoveDir, DestroyVm,
         ReleaseLease, Finish, worldVars, WorldTypes
    <3>3. botched \subseteq botched'
      BY <1>4 DEF Teardown, Snapshot, TerminateBrowser, RemoveDir, DestroyVm,
         ReleaseLease, Finish, ReleaseLock, Botch, worldVars
    <3>4. \A b \in Actors : b # a => /\ pc'[b] = pc[b] /\ held'[b] = held[b]
                                     /\ Subject(b)' = Subject(b)
      BY <1>4 DEF Teardown, Snapshot, TerminateBrowser, RemoveDir, DestroyVm, ReleaseLease,
         Finish, Dispatched, Goto, TaskTypes, Actors, Subject, taskVars
    <3>5. Subject(a)' # s
      BY <1>4, <2>2, SessionsAssumption DEF Teardown, Snapshot, TerminateBrowser, RemoveDir,
         DestroyVm, ReleaseLease, Finish, Subject, TaskTypes, Actors
    <3> QED BY <2>2, <3>1, <3>2, <3>3, <3>4, <3>5, SameTrack DEF Same
  <2> QED BY <2>1, <2>2
<1>5. ASSUME NEW t \in Stoppers, NEW r \in Sessions, BeginStop(t, r) PROVE TrackInv(s)'
  <2>1. /\ pc[t] = "idle" /\ pc'[t] = "snapshot" /\ held[t] = {} /\ held' = held
        /\ t \in Actors
        /\ \A b \in Actors : b # t => pc'[b] = pc[b] /\ Subject(b)' = Subject(b)
    BY <1>5, SessionsAssumption DEF BeginStop, Goto, TaskTypes, TaskShape, Actors, Subject
  <2>2. UNCHANGED <<refs, vm, browser, botched>>
    BY <1>5 DEF BeginStop, worldVars
  <2>3. state'[s] \in Ended => state[s] \in Ended
    BY <1>5 DEF BeginStop, TableTypes, Ended
  <2> QED BY <2>1, <2>2, <2>3, SameTrack
<1> QED BY <1>1, <1>2, <1>3, <1>4, <1>5, NextCases

OrderlyIInv == IInv /\ OrderlyInv /\ \A s \in Sessions : TrackInv(s)

LEMMA TrackInit == Init => OrderlyIInv
<1> SUFFICES ASSUME Init PROVE \A s \in Sessions : TrackInv(s)
  BY IInvInit, OrderlyInit DEF OrderlyIInv
<1> QED BY DEF Init, TrackInv, Gone, Actors, Roles, Ended

LEMMA OrderlyIInvStep ==
    ASSUME ~EagerStop, OrderlyIInv, [Next]_vars
    PROVE  OrderlyIInv'
  BY IInvStep, OrderlyStep, TrackStep DEF OrderlyIInv, IInv

(* Where clients stop a session only once its start has returned, an ended    *)
(* session that nobody works on has neither VM nor browser, except what a     *)
(* release call failed to release ("Fully destroyed; nothing left behind",    *)
(* session.rs): nothing a start was handed escapes its entry (set_vm,         *)
(* set_browser_handle, teardown).                                             *)
THEOREM EndedLeavesNothing ==
    ASSUME ~EagerStop
    PROVE  Spec => []EndedIsClean
<1>1. OrderlyIInv => EndedIsClean
  <2> SUFFICES ASSUME OrderlyIInv, NEW s \in Sessions,
                      state[s] \in Ended, TearingDown(s) = {}
               PROVE  /\ \A role \in Roles : vm[s][role] \in {"none", "gone"} \/ LostTrackOf(s, role)
                      /\ browser[s] # "live" \/ LostTrackOf(s, "handle")
    BY DEF EndedIsClean
  <2>1. refs[s] \subseteq {"dir"} /\ "gw" \notin refs[s] /\ "br" \notin refs[s]
        /\ "handle" \notin refs[s]
    BY DEF OrderlyIInv, TrackInv
  <2>2. \A a \in Actors : Subject(a) = s => held[a] = {}
    BY DEF OrderlyIInv, IInv, TypeOK, TaskShape, TearingDown, DownStation
  <2> QED BY <2>1, <2>2 DEF OrderlyIInv, TrackInv, Gone, Roles
<1>2. OrderlyIInv /\ [Next]_vars => OrderlyIInv'
  BY OrderlyIInvStep
<1> QED BY <1>1, <1>2, TrackInit, PTL DEF Spec

-----------------------------------------------------------------------------
(* The lock goes with the browser, as long as at most one stop is at work:   *)
(* the second of two could release it while the first still terminates.      *)

SoleInv(s) == browser[s] = "live" => LostTrackOf(s, "handle") \/ lock[ProfileOf[s]] = s

SoleIInv == OrderlyIInv /\ LaunchedInv /\ \A s \in Sessions : SoleInv(s)

\* A release of another session's lock spares it, and so does a botched one.
LEMMA ReleaseKeepsSole ==
    ASSUME TypeOK, NEW r \in Sessions, ReleaseLock(r), NEW s \in Sessions, SoleInv(s),
           r # s, browser' = browser
    PROVE  SoleInv(s)'
<1>1. botched \subseteq botched'
  BY DEF ReleaseLock, Botch
<1> QED BY <1>1, ReleaseSpares DEF SoleInv, LostTrackOf

\* The steps of starts.
LEMMA StartKeepsSole ==
    ASSUME SoleIInv, NEW s \in Sessions, NEW r \in Sessions,
           \/ Begin(r) \/ Refuse(r) \/ AcquireLock(r) \/ KeyFails(r)
           \/ Register(r) \/ Unlock(r) \/ Drive(r) \/ BrowserExits(r)
    PROVE  SoleInv(s)'
<1> USE DEF SoleIInv, OrderlyIInv, IInv, TypeOK
<1>1. CASE AcquireLock(r)
  <2>1. lock'[ProfileOf[s]] = lock[ProfileOf[s]] \/ lock[ProfileOf[s]] = Free
    BY <1>1, SessionsAssumption DEF AcquireLock, WorldTypes
  <2>2. botched \subseteq botched' /\ browser' = browser
    BY <1>1 DEF AcquireLock, Botch
  <2> QED BY <2>1, <2>2, SessionsAssumption DEF SoleInv, LostTrackOf
<1>2. CASE Unlock(r)
  <2>1. CASE r = s
    <3>1. browser[s] = "none" /\ browser' = browser
      BY <1>2, <2>1 DEF Unlock, LaunchedInv, LaunchInv, Launched, HandleBy, DownStation
    <3> QED BY <3>1 DEF SoleInv
  <2>2. CASE r # s
    BY <1>2, <2>2, ReleaseKeepsSole DEF Unlock
  <2> QED BY <2>1, <2>2
<1>3. CASE Launch(r)
  <2>1. lock' = lock /\ botched' = botched
    BY <1>3 DEF Launch
  <2>2. browser'[s] = browser[s] \/ r = s
    BY <1>3 DEF Launch, WorldTypes
  <2>3. r = s => lock[ProfileOf[s]] = s
    <3>1. SUFFICES ASSUME r = s PROVE Undisturbed(s)
      BY DEF SessionInv, LockInv
    <3>2. pc[s] = "launch"
      BY <1>3, <3>1 DEF Launch
    <3>3. state[s] # "absent" /\ state[s] \notin Leaving
      BY <3>2 DEF SessionInv, StationInv, BeforeRegistration, OrderlyInv
    <3> QED BY <3>2, <3>3 DEF Undisturbed, DownStation
  <2> QED BY <2>1, <2>2, <2>3 DEF SoleInv, LostTrackOf
<1>4. CASE BrowserExits(r)
  BY <1>4 DEF BrowserExits, WorldTypes, SoleInv, LostTrackOf
<1>5. CASE ~AcquireLock(r) /\ ~Unlock(r) /\ ~Launch(r) /\ ~BrowserExits(r)
  <2>1. UNCHANGED <<lock, browser, botched>>
    BY <1>5 DEF Begin, Refuse, KeyFails, Register, Drive, ClimbTo, ResolveEndpoint,
       Provision, Configure, ApplyFirewall, StartVm, RunPreflight, ProbeProxy,
       CheckAlive, Touch, FailClosed, worldVars
  <2> QED BY <2>1 DEF SoleInv, LostTrackOf
<1> QED BY <1>1, <1>2, <1>3, <1>4, <1>5

\* The steps of teardowns: the one that releases the lock is alone with the
\* session, and has nothing of it left.
LEMMA TeardownKeepsSole ==
    ASSUME SoleIInv, \A t, u \in Stoppers : t = u,
           NEW s \in Sessions, NEW a \in Actors, Teardown(a)
    PROVE  SoleInv(s)'
<1> USE DEF SoleIInv, OrderlyIInv, IInv, TypeOK
<1>1. CASE ReleaseLease(a) /\ Subject(a) = s
  <2>1. pc[a] = "teardown" /\ held[a] = {} /\ browser' = browser
    BY <1>1 DEF ReleaseLease
  <2>2. ASSUME NEW b \in Actors, Subject(b) = s, "handle" \in held[b] PROVE FALSE
    <3>1. a # b /\ pc[b] = "teardown"
      BY <2>1, <2>2 DEF TaskShape
    <3>2. a \in Sessions => a = s /\ b \in Stoppers /\ job[b] = s
      BY <1>1, <2>2, <3>1 DEF Subject, Actors
    <3>3. b \in Sessions => b = s /\ a \in Stoppers /\ job[a] = s
      BY <1>1, <2>2, <3>1 DEF Subject, Actors
    <3>4. \A t \in Stoppers : job[t] = s => pc[s] = "done"
      BY SessionsAssumption DEF OrderlyInv
    <3> QED BY <2>1, <3>1, <3>2, <3>3, <3>4 DEF Actors
  <2>3. "handle" \notin refs[s]
    BY <1>1, <2>1 DEF TrackInv
  <2>4. browser[s] = "live" => LostTrackOf(s, "handle")
    BY <2>2, <2>3 DEF TrackInv
  <2>5. botched \subseteq botched'
    BY <1>1 DEF ReleaseLease, ReleaseLock, Botch
  <2> QED BY <2>1, <2>4, <2>5 DEF SoleInv, LostTrackOf
<1>2. CASE ReleaseLease(a) /\ Subject(a) # s
  BY <1>2, TeardownMoves, ReleaseKeepsSole DEF ReleaseLease
<1>3. CASE ~ReleaseLease(a)
  <2>1. /\ lock' = lock /\ botched \subseteq botched'
        /\ (browser'[s] = "live" => browser[s] = "live")
    BY <1>3 DEF Teardown, Snapshot, TerminateBrowser, RemoveDir, DestroyVm, Finish,
       Botch, worldVars, WorldTypes
  <2> QED BY <2>1 DEF SoleInv, LostTrackOf
<1> QED BY <1>1, <1>2, <1>3

(* Where clients stop a session only once its start has returned, and one at  *)
(* a time, two live browsers never share a profile, unless the termination of *)
(* one of them failed: the lease goes back only after terminate (teardown).   *)
THEOREM SoleBrowser ==
    ASSUME ~EagerStop, \A t, u \in Stoppers : t = u
    PROVE  Spec => []OneBrowserPerProfile
<1>1. Init => SoleIInv
  <2> SUFFICES ASSUME Init PROVE SoleIInv
    OBVIOUS
  <2>1. \A s \in Sessions : pc[s] = "idle" /\ browser[s] = "none" /\ refs[s] = {}
    BY DEF Init, Actors
  <2>2. LaunchedInv
    BY <2>1, TypeInit DEF LaunchedInv, LaunchInv, BeforeLaunch, HeldInv, Init
  <2> QED BY <2>1, <2>2, TrackInit DEF SoleIInv, SoleInv
<1>2. SoleIInv /\ [Next]_vars => SoleIInv'
  <2> SUFFICES ASSUME SoleIInv, [Next]_vars, NEW s \in Sessions PROVE SoleInv(s)'
    BY OrderlyIInvStep, LaunchedStep DEF SoleIInv
  <2>1. CASE UNCHANGED vars
    BY <2>1 DEF SoleIInv, SoleInv, LostTrackOf, vars, worldVars
  <2>2. ASSUME NEW t \in Stoppers, NEW r \in Sessions, BeginStop(t, r) PROVE SoleInv(s)'
    BY <2>2 DEF BeginStop, SoleIInv, SoleInv, LostTrackOf, worldVars
  <2> QED BY <2>1, <2>2, StartKeepsSole, TeardownKeepsSole, NextCases
<1>3. SoleIInv => OneBrowserPerProfile
  BY DEF SoleIInv, SoleInv, OneBrowserPerProfile
<1> QED BY <1>1, <1>2, <1>3, PTL DEF Spec

-----------------------------------------------------------------------------
(* What is down stays down.                                                  *)

EndedInv(s) == state[s] \in Ended => Freed(s)

DownIInv == IInv /\ \A s \in Sessions : OwnerInv(s) /\ EndedInv(s)

\* A session that is known to the table is past acquire_lock.
LEMMA KnownAcquiresNothing ==
    ASSUME IInv, NEW s \in Sessions, state[s] # "absent"
    PROVE  ~AcquireLock(s)
  BY DEF IInv, SessionInv, StationInv, BeforeRegistration, AcquireLock

\* A teardown of a session means that the table knows it.
LEMMA TornDownIsKnown ==
    ASSUME IInv, NEW s \in Sessions, TearingDown(s) # {}
    PROVE  state[s] # "absent"
<1>1. PICK a \in Actors : pc[a] \in DownStation /\ Subject(a) = s
  BY DEF TearingDown
<1>2. CASE a \in Sessions
  BY <1>1, <1>2 DEF Subject, IInv, SessionInv, StationInv, BeforeRegistration, DownStation
<1>3. CASE a \notin Sessions
  BY <1>1, <1>3 DEF Subject, Actors, IInv, StopperInv, Leaving
<1> QED BY <1>2, <1>3

\* The steps of a start leave its ended session ended.
LEMMA StartStaysEnded ==
    ASSUME IInv, NEW s \in Sessions, state[s] \in Ended, NEW r \in Sessions,
           \/ Begin(r) \/ Refuse(r) \/ AcquireLock(r) \/ KeyFails(r)
           \/ Register(r) \/ Unlock(r) \/ Drive(r) \/ BrowserExits(r)
    PROVE  state'[s] = state[s]
<1>1. CASE r # s
  BY <1>1, StartSpares DEF Same, IInv
<1>2. CASE r = s /\ Register(s)
  BY <1>2 DEF Register, IInv, SessionInv, StationInv, BeforeRegistration, Ended
<1>3. CASE r = s /\ ClimbTo(s)
  <2>1. AllowedNext[state[s]] \cap Climb = {}
    BY DEF Ended, AllowedNext, Climb, SessionState
  <2> QED BY <1>3, <2>1 DEF ClimbTo, Transition
<1>4. CASE r = s /\ ~Register(s) /\ ~ClimbTo(s)
  BY <1>4 DEF Begin, Refuse, AcquireLock, KeyFails, Unlock, Drive, BrowserExits,
       ResolveEndpoint, Provision, Configure, ApplyFirewall, StartVm, RunPreflight,
       ProbeProxy, Launch, CheckAlive, Touch, FailClosed, tableVars
<1> QED BY <1>1, <1>2, <1>3, <1>4

\* Only the end of a teardown ends a session.
LEMMA StartEndsNothing ==
    ASSUME IInv, NEW s \in Sessions, state[s] \notin Ended, NEW r \in Sessions,
           \/ Begin(r) \/ Refuse(r) \/ AcquireLock(r) \/ KeyFails(r)
           \/ Register(r) \/ Unlock(r) \/ Drive(r) \/ BrowserExits(r)
    PROVE  state'[s] \notin Ended
<1>1. CASE r # s
  BY <1>1, StartSpares DEF Same, IInv
<1>2. CASE r = s /\ Register(s)
  BY <1>2 DEF Register, IInv, TypeOK, TableTypes, Ended
<1>3. CASE r = s /\ ClimbTo(s)
  <2>1. state'[s] \in {state[s]} \cup Climb
    BY <1>3 DEF ClimbTo, Transition, IInv, TypeOK, TableTypes
  <2> QED BY <2>1 DEF Ended, Climb
<1>4. CASE r = s /\ ~Register(s) /\ ~ClimbTo(s)
  BY <1>4 DEF Begin, Refuse, AcquireLock, KeyFails, Unlock, Drive, BrowserExits,
       ResolveEndpoint, Provision, Configure, ApplyFirewall, StartVm, RunPreflight,
       ProbeProxy, Launch, CheckAlive, Touch, FailClosed, tableVars
<1> QED BY <1>1, <1>2, <1>3, <1>4

\* A teardown writes the state of a session only where it finishes that one.
LEMMA TeardownKeepsOthers ==
    ASSUME TypeOK, NEW a \in Actors, Teardown(a), NEW s \in Sessions,
           ~(Finish(a) /\ Subject(a) = s)
    PROVE  state'[s] = state[s]
<1>1. CASE Finish(a)
  <2>1. Subject(a) # s
    BY <1>1
  <2> QED BY <1>1, <2>1 DEF Finish, TypeOK, TableTypes
<1>2. CASE ~Finish(a)
  BY <1>2, TeardownMoves
<1> QED BY <1>1, <1>2

\* Every step keeps an ended session without its lock.
LEMMA EndedStep ==
    ASSUME DownIInv, Next, NEW s \in Sessions
    PROVE  EndedInv(s)'
<1> USE DEF DownIInv, IInv, TypeOK
<1>1. CASE state[s] \in Ended
  <2>1. Freed(s) /\ state[s] # "absent"
    BY <1>1 DEF EndedInv, Ended
  <2> QED BY <2>1, KnownAcquiresNothing, FreedStays DEF EndedInv
<1>2. CASE state[s] \notin Ended
  <2>1. ASSUME NEW a \in Actors, Teardown(a) PROVE EndedInv(s)'
    <3>1. CASE Finish(a) /\ Subject(a) = s
      <4>1. Freed(s) /\ a \in TearingDown(s)
        BY <3>1 DEF Finish, OwnerInv, TearingDown, DownStation
      <4> QED BY <4>1, TornDownIsKnown, KnownAcquiresNothing, FreedStays DEF EndedInv
    <3>2. CASE ~(Finish(a) /\ Subject(a) = s)
      <4>1. state'[s] = state[s]
        BY <2>1, <3>2, TeardownKeepsOthers
      <4> QED BY <1>2, <4>1 DEF EndedInv
    <3> QED BY <3>1, <3>2
  <2>2. ASSUME NEW t \in Stoppers, NEW r \in Sessions, BeginStop(t, r) PROVE EndedInv(s)'
    <3>1. state'[s] \in {state[s], "closing"}
      BY <2>2 DEF BeginStop, TableTypes
    <3> QED BY <1>2, <3>1 DEF EndedInv, Ended
  <2> QED BY <1>2, <2>1, <2>2, StartEndsNothing, NextCases DEF EndedInv
<1> QED BY <1>1, <1>2

\* A session leaves its end, or the last teardown of it, only for the other.
LEMMA DownStep ==
    ASSUME DownIInv, Next, NEW s \in Sessions, Down(s)
    PROVE  Down(s)'
<1> USE DEF DownIInv, IInv, TypeOK
<1>1. Freed(s)'
  <2>1. state[s] # "absent"
    BY TornDownIsKnown DEF Down, Ended
  <2> QED BY <2>1, KnownAcquiresNothing, FreedStays DEF Down, Freed
<1> SUFFICES state'[s] \in Ended \/ TearingDown(s)' # {}
  BY <1>1 DEF Down, Freed
<1>2. ASSUME NEW r \in Sessions,
             \/ Begin(r) \/ Refuse(r) \/ AcquireLock(r) \/ KeyFails(r)
             \/ Register(r) \/ Unlock(r) \/ Drive(r) \/ BrowserExits(r)
      PROVE  state'[s] \in Ended \/ TearingDown(s)' # {}
  <2>1. CASE state[s] \in Ended
    BY <1>2, <2>1, StartStaysEnded
  <2>2. ASSUME NEW a \in TearingDown(s) PROVE a \in TearingDown(s)'
    <3>1. pc'[a] \in DownStation
      <4>1. CASE BrowserExits(r)
        BY <4>1 DEF BrowserExits, taskVars, TearingDown
      <4>2. CASE ~BrowserExits(r)
        BY <1>2, <4>2, StartTypes DEF StartMove, Goto, TaskTypes, TearingDown
      <4> QED BY <4>1, <4>2
    <3>2. job' = job
      BY <1>2, StartTypes DEF StartMove, BrowserExits, taskVars
    <3> QED BY <3>1, <3>2 DEF TearingDown, Subject
  <2> QED BY <2>1, <2>2 DEF Down
<1>3. ASSUME NEW a \in Actors, Teardown(a)
      PROVE  state'[s] \in Ended \/ TearingDown(s)' # {}
  <2>1. CASE Finish(a) /\ Subject(a) = s
    BY <2>1 DEF Finish, TableTypes, Ended
  <2>2. CASE Finish(a) /\ Subject(a) # s
    <3>1. state'[s] = state[s]
      BY <1>3, <2>2, TeardownKeepsOthers
    <3>2. ASSUME NEW b \in TearingDown(s) PROVE b \in TearingDown(s)'
      <4>1. b # a /\ b \in Actors /\ pc[b] \in DownStation /\ Subject(b) = s
        BY <2>2, <3>2 DEF TearingDown
      <4>2. pc'[b] = pc[b]
        BY <1>3, <4>1, TeardownMoves
      <4>3. Subject(b)' = Subject(b)
        BY <2>2, <4>1 DEF Finish, Subject, TaskTypes, Actors
      <4> QED BY <4>1, <4>2, <4>3 DEF TearingDown
    <3> QED BY <3>1, <3>2 DEF Down
  <2>3. CASE ~Finish(a)
    <3>1. job' = job /\ state' = state /\ pc'[a] \in DownStation
      BY <1>3, <2>3, TeardownMoves DEF DownStation
    <3>2. ASSUME NEW b \in TearingDown(s) PROVE b \in TearingDown(s)'
      BY <1>3, <3>1, <3>2, TeardownMoves DEF TearingDown, Subject
    <3> QED BY <3>1, <3>2 DEF Down
  <2> QED BY <2>1, <2>2, <2>3
<1>4. ASSUME NEW t \in Stoppers, NEW r \in Sessions, BeginStop(t, r)
      PROVE  state'[s] \in Ended \/ TearingDown(s)' # {}
  <2>1. /\ t \in Actors /\ t \notin Sessions /\ pc[t] = "idle"
        /\ pc'[t] = "snapshot" /\ job'[t] = r
        /\ \A b \in Actors : b # t => pc'[b] = pc[b] /\ Subject(b)' = Subject(b)
    BY <1>4, SessionsAssumption DEF BeginStop, Goto, TaskTypes, Actors, Subject
  <2>2. CASE r = s
    <3>1. t \in TearingDown(s)'
      BY <2>1, <2>2 DEF TearingDown, Subject, DownStation
    <3> QED BY <3>1
  <2>3. CASE r # s
    <3>1. state'[s] = state[s]
      BY <1>4, <2>3 DEF BeginStop, TableTypes
    <3>2. TearingDown(s) \subseteq TearingDown(s)'
      BY <2>1 DEF TearingDown, DownStation
    <3> QED BY <3>1, <3>2 DEF Down
  <2> QED BY <2>2, <2>3
<1> QED BY <1>2, <1>3, <1>4, NextCases

(* Down is down: a session that has ended has given its profile's lock back, *)
(* and however late its start comes home, and however many stops follow, it  *)
(* is never anything again but ended or on its way there, and never again    *)
(* the owner of the profile (teardown, transition, fail_closed).             *)
THEOREM DownForGood ==
    ASSUME NEW s \in Sessions
    PROVE  Spec => [](state[s] \in Ended => Down(s)) /\ [](Down(s) => []Down(s))
<1>1. Init => DownIInv
  <2> SUFFICES ASSUME Init, NEW r \in Sessions PROVE OwnerInv(r) /\ EndedInv(r)
    BY IInvInit DEF DownIInv
  <2> QED BY SessionsAssumption DEF Init, OwnerInv, EndedInv, Ended, Freed, Actors
<1>2. DownIInv /\ [Next]_vars => DownIInv'
  <2> SUFFICES ASSUME DownIInv, [Next]_vars PROVE \A r \in Sessions : EndedInv(r)'
    BY IInvStep, OwnerStep DEF DownIInv
  <2>1. CASE UNCHANGED vars
    BY <2>1 DEF DownIInv, EndedInv, Freed, LostTrackOf, vars, tableVars, worldVars
  <2> QED BY <2>1, EndedStep
<1>3. DownIInv => (state[s] \in Ended => Down(s))
  BY DEF DownIInv, EndedInv, Down, Freed
<1>4. DownIInv /\ Down(s) /\ [Next]_vars => Down(s)'
  <2>1. CASE UNCHANGED vars
    BY <2>1 DEF Down, LostTrackOf, TearingDown, Subject, vars, tableVars, worldVars, taskVars
  <2> QED BY <2>1, DownStep
<1> QED BY <1>1, <1>2, <1>3, <1>4, PTL DEF Spec

(* So all that StoppedStaysDown asks of the scheduler is that a stop gets    *)
(* there once (stop_session): the rest is safety.                            *)
COROLLARY DownOnceIsEnough ==
    ASSUME NEW s \in Sessions, NEW t \in Stoppers
    PROVE  Spec /\ (job[t] = s ~> Down(s)) => (job[t] = s ~> []Down(s))
  BY DownForGood, PTL

=============================================================================
