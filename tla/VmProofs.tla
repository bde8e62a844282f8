------------------------------ MODULE VmProofs ------------------------------
(***************************************************************************)
(* Theorems about one virtual machine, for any number of callers whose     *)
(* calls interleave in any way and for any commands that may fail.         *)
(***************************************************************************)
EXTENDS VmController, TLAPS

Reports == [overlay_shredded : BOOLEAN, domain_undefined : BOOLEAN]

(* Until provision is done nobody has the VM's id, so nobody calls.          *)
CallInv ==
    /\ pc \in [Callers -> Stations]
    /\ draft \in [Callers -> Reports] /\ report \in [Callers -> Reports]
    /\ making # "done" =>
          /\ entry = NoEntry
          /\ \A c \in Callers : pc[c] = "idle" /\ draft[c] = NoReport /\ report[c] = NoReport

(* What provision has made by the station it has reached.                    *)
MadeInv ==
    /\ making \in {"no", "refused", "valid", "overlay", "written", "domain", "done", "failed"}
    /\ making # "no" => request \in Requests
    /\ making = "refused" => ~ Validates(request)
    /\ making \in {"valid", "overlay", "written", "domain", "done"} => Validates(request)
    /\ making \in {"no", "refused", "valid"} => ~ overlay
    /\ making \notin {"domain", "done"} => ~ defined /\ ~ running
    /\ making = "domain" => defined
    /\ making \in {"domain", "done"} => domain = DomainXml(request)

(* A look at an overlay that is there finds it.                              *)
SureLook == "stat" \notin MayFail

(* A removal that a destroy has noted or reported is not undone.             *)
Gone(noted) ==
    /\ SureLook /\ noted.overlay_shredded /\ request.destroy_on_close => ~ overlay
    /\ noted.domain_undefined => ~ defined
GoneInv == \A c \in Callers : Gone(draft[c]) /\ Gone(report[c])

IInv == /\ CallInv
        /\ MadeInv
        /\ GoneInv
        /\ defined \in BOOLEAN /\ running \in BOOLEAN /\ overlay \in BOOLEAN

\* The invariant holds initially.
LEMMA IInvInit == Init => IInv
<1> SUFFICES ASSUME Init PROVE IInv
  OBVIOUS
<1>1. NoReport \in Reports /\ "idle" \in Stations
  BY DEF NoReport, Reports, Stations
<1>2. CallInv
  BY <1>1 DEF Init, CallInv
<1>3. defined = FALSE /\ running = FALSE /\ overlay = FALSE
  BY DEF Init
<1>4. making = "no"
  BY DEF Init
<1>5. MadeInv
  BY <1>3, <1>4 DEF MadeInv
<1>6. GoneInv
  BY <1>3 DEF GoneInv, Gone
<1> QED BY <1>2, <1>3, <1>5, <1>6 DEF IInv

\* Provision keeps it.
LEMMA IInvProvision ==
    ASSUME IInv, (\E r \in Requests : Provision(r)) \/ CreateOverlay \/ WriteXml \/ Define \/ Track
    PROVE  IInv'
<1> USE DEF IInv, machine
<1>1. making \notin {"done"} /\ making' \in {"refused", "valid", "overlay", "written",
                                             "domain", "done", "failed"}
  BY DEF Provision, CreateOverlay, WriteXml, Define, Track
<1>2. UNCHANGED <<pc, draft, report>>
  BY DEF Provision, CreateOverlay, WriteXml, Define, Track
<1>3. CallInv'
  BY <1>1, <1>2 DEF CallInv, Provision, CreateOverlay, WriteXml, Define, Track
<1>4. MadeInv' /\ defined' \in BOOLEAN /\ running' \in BOOLEAN /\ overlay' \in BOOLEAN
  <2>1. ASSUME NEW r \in Requests, Provision(r)
        PROVE  /\ MadeInv' /\ defined' \in BOOLEAN
               /\ running' \in BOOLEAN /\ overlay' \in BOOLEAN
    BY <2>1 DEF Provision, MadeInv
  <2>2. CASE CreateOverlay
    BY <2>2 DEF CreateOverlay, MadeInv
  <2>3. CASE WriteXml
    BY <2>3 DEF WriteXml, MadeInv
  <2>4. CASE Define
    <3>1. making = "written" /\ request' = request /\ running' = running /\ overlay' = overlay
      BY <2>4 DEF Define
    <3>2. Validates(request) /\ request \in Requests /\ ~ running /\ ~ defined
      BY <3>1 DEF MadeInv
    <3>3. CASE /\ defined' = TRUE
               /\ making' = "domain" /\ domain' = DomainXml(request)
      <4>1. defined' \in BOOLEAN /\ defined'
        BY <3>3
      <4> QED BY <3>1, <3>2, <3>3, <4>1 DEF MadeInv
    <3>4. CASE making' = "failed" /\ defined' = defined
      BY <3>1, <3>2, <3>4 DEF MadeInv
    <3> QED BY <2>4, <3>3, <3>4 DEF Define
  <2>5. CASE Track
    BY <2>5 DEF Track, MadeInv
  <2> QED BY <2>1, <2>2, <2>3, <2>4, <2>5
<1>5. GoneInv'
  BY <1>1, <1>2 DEF CallInv, GoneInv, Gone, NoReport
<1> QED BY <1>3, <1>4, <1>5

\* The calls other than destroy, and the guest, remove nothing and make nothing.
LEMMA IInvCall ==
    ASSUME IInv,
           \/ GuestOff
           \/ \E c \in Callers :
                 \/ \E call \in Calls : Begin(c, call)
                 \/ Start(c) \/ Graceful(c) \/ Forced(c) \/ Mark(c) \/ PowerOff(c)
    PROVE  IInv'
<1> USE DEF IInv
<1>1. /\ UNCHANGED <<defined, overlay, request, domain, making, draft, report>>
  BY DEF GuestOff, Begin, Start, Graceful, Forced, Mark, PowerOff, machine, order
<1>r. running' \in BOOLEAN /\ (running' => running \/ defined)
  <2>1. ASSUME NEW c \in Callers, Start(c)
        PROVE  running' = running \/ (defined /\ running' = TRUE)
    BY <2>1 DEF Start
  <2>2. ASSUME NEW c \in Callers, NEW call \in Calls, Begin(c, call) PROVE running' = running
    BY <2>2 DEF Begin, machine
  <2>3. ASSUME NEW c \in Callers, Graceful(c) \/ Mark(c) PROVE running' = running
    BY <2>3 DEF Graceful, Mark, machine
  <2>4. ASSUME NEW c \in Callers, Forced(c) \/ PowerOff(c) \/ GuestOff
        PROVE  running' = running \/ running' = FALSE
    BY <2>4 DEF Forced, PowerOff, GuestOff
  <2>5. GuestOff => running' = FALSE
    BY DEF GuestOff
  <2> QED BY <2>1, <2>2, <2>3, <2>4, <2>5
<1>2. MadeInv' /\ GoneInv'
  BY <1>1, <1>r DEF MadeInv, GoneInv, Gone
<1>3. CallInv'
  <2>1. CASE GuestOff
    BY <1>1, <2>1 DEF GuestOff, CallInv
  <2>2. ASSUME NEW c \in Callers, NEW call \in Calls, Begin(c, call) PROVE CallInv'
    BY <1>1, <2>2 DEF Begin, CallInv, Goto, Stations, Calls
  <2>3. ASSUME NEW c \in Callers, Start(c) \/ Graceful(c) \/ Forced(c) \/ Mark(c) \/ PowerOff(c)
        PROVE  CallInv'
    <3>1. pc[c] # "idle" /\ making = "done"
      BY <2>3 DEF Start, Graceful, Forced, Mark, PowerOff, CallInv, Marks
    <3>2. \E p \in Stations : pc' = [pc EXCEPT ![c] = p]
      BY <2>3 DEF Start, Graceful, Forced, Mark, PowerOff, Goto, Stations, Calls, Marks
    <3> QED BY <1>1, <3>1, <3>2 DEF CallInv
  <2> QED BY <2>1, <2>2, <2>3
<1> QED BY <1>1, <1>r, <1>2, <1>3

\* destroy notes what it has removed, after it has removed it.
LEMMA IInvDestroy ==
    ASSUME IInv, NEW c \in Callers, Undefine(c) \/ Shred(c) \/ MarkDestroyed(c)
    PROVE  IInv'
<1> USE DEF IInv
<1>1. /\ UNCHANGED <<running, request, domain, making>>
      /\ pc[c] # "idle"
  BY DEF Undefine, Shred, MarkDestroyed, machine, order
<1>d. defined' \in BOOLEAN /\ (defined' => defined)
  <2>1. defined' = defined \/ defined' = FALSE
    BY DEF Undefine, Shred, MarkDestroyed, machine
  <2>2. CASE defined' = defined
    BY <2>2
  <2>3. CASE defined' = FALSE
    BY <2>3
  <2> QED BY <2>1, <2>2, <2>3
<1>o. overlay' \in BOOLEAN /\ (overlay' => overlay)
  <2>1. overlay' = overlay \/ overlay' = FALSE
    BY DEF Undefine, Shred, MarkDestroyed, machine
  <2>2. CASE overlay' = overlay
    BY <2>2
  <2>3. CASE overlay' = FALSE
    BY <2>3
  <2> QED BY <2>1, <2>2, <2>3
<1>2. making = "done"
  BY <1>1 DEF CallInv
<1>3. MadeInv'
  BY <1>1, <1>d, <1>o, <1>2 DEF MadeInv
<1>4. /\ draft' \in [Callers -> Reports] /\ report' \in [Callers -> Reports]
      /\ GoneInv'
  <2>1. request.destroy_on_close \in BOOLEAN
    BY <1>2 DEF MadeInv, Requests
  <2>2. CASE Undefine(c)
    BY <1>1, <1>d, <1>o, <2>1, <2>2 DEF Undefine, CallInv, GoneInv, Gone, Reports
  <2>3. CASE Shred(c)
    <3>0. PICK seen \in {TRUE, ~ CanFail("stat")} :
             draft' = [draft EXCEPT ![c].overlay_shredded =
                          request.destroy_on_close /\ seen => ~ overlay']
      BY <2>3 DEF Shred
    <3> DEFINE b == request.destroy_on_close /\ seen => ~ overlay'
    <3>1. /\ draft' = [draft EXCEPT ![c].overlay_shredded = b]
          /\ report' = report /\ request' = request /\ defined' = defined
          /\ SureLook => seen
      BY <1>1, <2>3, <3>0 DEF Shred, SureLook, CanFail
    <3>2. draft \in [Callers -> Reports] /\ report \in [Callers -> Reports]
      BY DEF CallInv
    <3>3. b \in BOOLEAN
      BY <2>1
    <3>4. /\ draft' \in [Callers -> Reports]
          /\ \A d \in Callers : /\ draft'[d].domain_undefined = draft[d].domain_undefined
                                 /\ draft'[d].overlay_shredded => b \/ draft[d].overlay_shredded
      <4> HIDE DEF b
      <4>1. \A rep \in Reports : [rep EXCEPT !.overlay_shredded = b] \in Reports
        BY <3>3 DEF Reports
      <4>2. \A d \in Callers : draft'[d] = IF d = c THEN [draft[d] EXCEPT !.overlay_shredded = b]
                                                 ELSE draft[d]
        BY <3>1, <3>2
      <4>3. draft' \in [Callers -> Reports]
        BY <3>1, <3>2, <4>1
      <4> QED BY <3>2, <4>2, <4>3 DEF Reports
    <3>5. \A d \in Callers : Gone(draft[d]) /\ Gone(report[d])
      BY DEF GoneInv
    <3>6. ASSUME NEW d \in Callers PROVE (Gone(draft[d]) /\ Gone(report[d]))'
      BY <1>o, <3>1, <3>4, <3>5 DEF Gone
    <3> QED BY <3>1, <3>2, <3>4, <3>6 DEF GoneInv
  <2>4. CASE MarkDestroyed(c)
    BY <1>1, <1>d, <1>o, <2>1, <2>4
       DEF MarkDestroyed, CallInv, GoneInv, Gone, Reports, NoReport, machine
  <2> QED BY <2>2, <2>3, <2>4
<1>5. \E p \in Stations : pc' = [pc EXCEPT ![c] = p]
  BY DEF Undefine, Shred, MarkDestroyed, Goto, Stations
<1> QED BY <1>1, <1>d, <1>o, <1>2, <1>3, <1>4, <1>5 DEF CallInv

\* Every step keeps the invariant.
LEMMA IInvNext == IInv /\ [Next]_vars => IInv'
<1> SUFFICES ASSUME IInv, [Next]_vars PROVE IInv'
  OBVIOUS
<1>1. CASE UNCHANGED vars
  BY <1>1 DEF vars, machine, order, IInv, CallInv, MadeInv, GoneInv, Gone
<1>2. CASE Next
  BY <1>2, IInvProvision, IInvCall, IInvDestroy DEF Next
<1> QED BY <1>1, <1>2

\* What a DestroyReport claims is so when the caller reads it and stays so,
\* whatever other calls run meanwhile and whichever commands fail, where the look
\* at the overlay does not fail itself (vm-controller/src/lib.rs, destroy).
THEOREM ReportsAreTrue ==
    ASSUME SureLook
    PROVE  Spec => []ReportIsTrue
<1>1. IInv => ReportIsTrue
  BY DEF IInv, GoneInv, Gone, ReportIsTrue
<1> QED BY <1>1, IInvInit, IInvNext, PTL DEF Spec

\* Whatever was asked for, what libvirt can start or runs has no device of the
\* host, and a browser's domain one isolated interface and a read-only root
\* (vm-controller/src/xml.rs, render_domain_xml).
THEOREM DomainsAreConfined == Spec => []DomainIsConfined
<1>1. ASSUME NEW r \in Requests, Validates(r)
      PROVE  Confined(r.role, DomainXml(r))
  <2>1. DomainXml(r).devices \cap HostDevices = {}
    BY DEF DomainXml, Video, HostDevices
  <2>2. r.role = "browser" => DomainXml(r).nics = <<"isolated">> /\ DomainXml(r).readonly
    BY <1>1 DEF Validates, DomainXml, Nics
  <2> QED BY <2>1, <2>2 DEF Confined
<1>2. IInv => DomainIsConfined
  <2> SUFFICES ASSUME IInv, defined \/ running PROVE Confined(request.role, domain)
    BY DEF DomainIsConfined
  <2>1. /\ making \in {"domain", "done"} /\ request \in Requests
        /\ Validates(request) /\ domain = DomainXml(request)
    BY DEF IInv, MadeInv
  <2> QED BY <1>1, <2>1
<1> QED BY <1>2, IInvInit, IInvNext, PTL DEF Spec

\* A provisioned VM is defined, a refused or failed one cannot run, and what the
\* daemon asks for is never refused (vm-controller/src/lib.rs, provision).
THEOREM ProvisionIsHonest == Spec => ProvisionAnswersTrue
<1> DEFINE Honest ==
             /\ making # "done" /\ making' = "done" => defined'
             /\ making' \in {"refused", "failed"} => ~defined' /\ ~running'
             /\ making' = "refused" =>
                    ~overlay' /\ request' # ProvisionRequest(request'.role)
<1>1. ASSUME NEW role PROVE Validates(ProvisionRequest(role))
  BY DEF Validates, ProvisionRequest, Hardened
<1>2. ASSUME IInv, IInv', [Next]_vars PROVE Honest
  <2>1. making' \in {"refused", "failed"} => ~defined' /\ ~running'
    BY <1>2 DEF IInv, MadeInv
  <2>2. making' = "refused" => ~overlay' /\ request' # ProvisionRequest(request'.role)
    BY <1>1, <1>2 DEF IInv, MadeInv
  <2>3. making # "done" /\ making' = "done" => defined'
    BY <1>2 DEF Next, vars, Provision, CreateOverlay, WriteXml, Define, Track, GuestOff, Begin,
                Start, Graceful, Forced, Mark, PowerOff, Undefine, Shred, MarkDestroyed,
                machine, order, IInv, MadeInv
  <2> QED BY <2>1, <2>2, <2>3
<1>3. IInv /\ IInv' /\ [Next]_vars => [Honest]_vars
  BY <1>2
<1>4. ProvisionAnswersTrue <=> [][Honest]_vars
  BY DEF ProvisionAnswersTrue
<1> QED BY <1>3, <1>4, IInvInit, IInvNext, PTL DEF Spec
=============================================================================
