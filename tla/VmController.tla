---------------------------- MODULE VmController ----------------------------
(***************************************************************************)
(* LibvirtController, seen from one virtual machine: the controller's      *)
(* entry for it, the libvirt domain and the overlay file, and the calls    *)
(* that reach it. The entries' mutex is held for single accesses only, so  *)
(* each virsh or shred command is a step of its own between two of them.   *)
(*                                                                         *)
(* libvirt is external: a domain is defined, running, both or, once it is  *)
(* undefined while it runs, running only. A domain starts from its         *)
(* definition and needs its overlay. A command may fail without effect.    *)
(***************************************************************************)
EXTENDS Domain

CONSTANTS
    Callers,      \* tasks that call the controller, after provision
    Serial,       \* does a call begin only when no other is under way?
    MayFail,      \* commands that may fail although they could succeed, and
                  \* "stat", the look at a file that is there
    NoEntry,      \* the controller does not track the VM
    NoRequest     \* provision has not been called, libvirt has no definition

ASSUME VmAssumption ==
    /\ Serial \in BOOLEAN
    /\ MayFail \subseteq {"create", "write", "define", "start", "shutdown", "poweroff",
                     "undefine", "shred", "stat"}

VARIABLES
    entry,        \* Entry.handle.state: what list() reports
    defined, running, overlay,  \* libvirt's domain and the overlay file
    request,      \* what provision was called with
    domain,       \* what the definition gave the guest
    making,       \* how far provision has come
    pc,           \* where each caller is
    draft,        \* the DestroyReport a destroy is filling in
    report        \* the DestroyReport each caller was given

machine == <<defined, running, overlay>>
order == <<request, domain, making>>
vars == <<entry, machine, order, pc, draft, report>>

NoReport == [overlay_shredded |-> FALSE, domain_undefined |-> FALSE]
Calls == {"start", "graceful", "forced", "poweroff"}
Marks == {"mark_running", "mark_stopping", "mark_stopped"}
Stations == {"idle", "undefine", "shred", "mark_destroyed"} \cup Calls \cup Marks

Init ==
    /\ entry = NoEntry
    /\ defined = FALSE /\ running = FALSE /\ overlay = FALSE
    /\ request = NoRequest /\ domain = NoRequest
    /\ making = "no"
    /\ pc = [c \in Callers |-> "idle"]
    /\ draft = [c \in Callers |-> NoReport]
    /\ report = [c \in Callers |-> NoReport]

Goto(c, station) == pc' = [pc EXCEPT ![c] = station]

-----------------------------------------------------------------------------
(* provision: the request, the overlay, the definition, the entry.           *)

(* A command that cannot be spawned or exits with a status is an error.      *)
CanFail(command) == command \in MayFail

Provision(r) ==
    /\ making = "no"
    /\ request' = r
    /\ making' = IF Validates(r) THEN "valid" ELSE "refused"
    /\ UNCHANGED <<entry, machine, domain, pc, draft, report>>

CreateOverlay ==
    /\ making = "valid"
    /\ \/ overlay' = TRUE /\ making' = "overlay"
       \/ CanFail("create") /\ making' = "failed" /\ UNCHANGED overlay
    /\ UNCHANGED <<entry, defined, running, request, domain, pc, draft, report>>

(* The XML goes through a temporary file, removed after virsh has read it.   *)
WriteXml ==
    /\ making = "overlay"
    /\ \/ making' = "written"
       \/ CanFail("write") /\ making' = "failed"
    /\ UNCHANGED <<entry, machine, request, domain, pc, draft, report>>

(* Fault: a failed virsh define is not looked at.                            *)
Define_Unchecked ==
    /\ making = "written"
    /\ making' = "domain"
    /\ domain' = DomainXml(request)
    /\ defined' \in {TRUE, ~CanFail("define")}
    /\ UNCHANGED <<entry, running, overlay, request, pc, draft, report>>

Define ==
    /\ making = "written"
    /\ \/ defined' = TRUE /\ making' = "domain" /\ domain' = DomainXml(request)
       \/ CanFail("define") /\ making' = "failed" /\ UNCHANGED <<defined, domain>>
    /\ UNCHANGED <<entry, running, overlay, request, pc, draft, report>>

Track ==
    /\ making = "domain"
    /\ making' = "done"
    /\ entry' = "defined"
    /\ UNCHANGED <<machine, request, domain, pc, draft, report>>

-----------------------------------------------------------------------------
(* The calls. An entry is never removed, so every later call finds it; the   *)
(* id is known once provision has returned.                                  *)
Begin(c, call) ==
    /\ pc[c] = "idle"
    /\ entry # NoEntry
    /\ Serial => \A d \in Callers : pc[d] = "idle"
    /\ Goto(c, call)
    /\ UNCHANGED <<entry, machine, order, draft, report>>

(* virsh start, whose failure ends the call; Mark records its success.        *)
Start(c) ==
    /\ pc[c] = "start"
    /\ \/ /\ defined /\ ~running /\ overlay
          /\ running' = TRUE /\ Goto(c, "mark_running")
       \/ /\ ~(defined /\ ~running /\ overlay) \/ CanFail("start")
          /\ Goto(c, "idle") /\ UNCHANGED running
    /\ UNCHANGED <<entry, defined, overlay, order, draft, report>>

(* virsh shutdown only asks the guest, which may take its time.              *)
Graceful(c) ==
    /\ pc[c] = "graceful"
    /\ \/ running /\ Goto(c, "mark_stopping")
       \/ (~running \/ CanFail("shutdown")) /\ Goto(c, "idle")
    /\ UNCHANGED <<entry, machine, order, draft, report>>

(* virsh destroy: powers the domain off. shutdown(Forced) stops on an error. *)
Forced(c) ==
    /\ pc[c] = "forced"
    /\ \/ running /\ running' = FALSE /\ Goto(c, "mark_stopped")
       \/ /\ ~running \/ CanFail("poweroff")
          /\ Goto(c, "idle") /\ UNCHANGED running
    /\ UNCHANGED <<entry, defined, overlay, order, draft, report>>

(* What the call has done is recorded, whatever happened since.              *)
Mark(c) ==
    /\ pc[c] \in Marks
    /\ entry' = CASE pc[c] = "mark_running"  -> "running"
                  [] pc[c] = "mark_stopping" -> "stopping"
                  [] OTHER                   -> "stopped"
    /\ Goto(c, "idle")
    /\ UNCHANGED <<machine, order, draft, report>>

-----------------------------------------------------------------------------
(* destroy                                                                   *)

(* The outcome of virsh destroy is ignored: it fails on a domain that is off. *)
PowerOff(c) ==
    /\ pc[c] = "poweroff"
    /\ \/ running' = FALSE
       \/ CanFail("poweroff") /\ UNCHANGED running
    /\ Goto(c, "undefine")
    /\ UNCHANGED <<entry, defined, overlay, order, draft, report>>

Undefine(c) ==
    /\ pc[c] = "undefine"
    /\ \/ /\ defined /\ defined' = FALSE
          /\ draft' = [draft EXCEPT ![c].domain_undefined = TRUE]
       \/ /\ ~defined \/ CanFail("undefine")
          /\ UNCHANGED <<defined, draft>>
    /\ Goto(c, "shred")
    /\ UNCHANGED <<entry, running, overlay, order, report>>

(* Fault: the report says what was attempted, not what is on the disk.       *)
Shred_Unchecked(c) ==
    /\ pc[c] = "shred"
    /\ overlay' \in {overlay, FALSE}
    /\ draft' = [draft EXCEPT ![c].overlay_shredded = TRUE]
    /\ Goto(c, "mark_destroyed")
    /\ UNCHANGED <<entry, defined, running, order, report>>

(* shred_overlay: shred, else remove, and look whether the file is gone. A   *)
(* look that fails (Path::exists) counts as gone, before as after; the       *)
(* overlay of a VM that is to be kept is left alone and reported as shredded. *)
Shred(c) ==
    /\ pc[c] = "shred"
    /\ \E seen \in {TRUE, ~CanFail("stat")} :
          /\ \/ request.destroy_on_close /\ overlay' = FALSE
             \/ /\ request.destroy_on_close /\ seen => CanFail("shred")
                /\ UNCHANGED overlay
          /\ draft' = [draft EXCEPT ![c].overlay_shredded =
                          request.destroy_on_close /\ seen => ~overlay']
    /\ Goto(c, "mark_destroyed")
    /\ UNCHANGED <<entry, defined, running, order, report>>

MarkDestroyed(c) ==
    /\ pc[c] = "mark_destroyed"
    /\ entry' = "destroyed"
    /\ report' = [report EXCEPT ![c] = draft[c]]
    /\ draft' = [draft EXCEPT ![c] = NoReport]
    /\ Goto(c, "idle")
    /\ UNCHANGED <<machine, order>>

(* Environment: the guest powers off or crashes.                             *)
GuestOff ==
    /\ running /\ running' = FALSE
    /\ UNCHANGED <<entry, defined, overlay, order, pc, draft, report>>

Next ==
    \/ \E r \in Requests : Provision(r)
    \/ CreateOverlay \/ WriteXml \/ Define \/ Track \/ GuestOff
    \/ \E c \in Callers :
          \/ \E call \in Calls : Begin(c, call)
          \/ Start(c) \/ Graceful(c) \/ Forced(c) \/ Mark(c)
          \/ PowerOff(c) \/ Undefine(c) \/ Shred(c) \/ MarkDestroyed(c)

Spec == Init /\ [][Next]_vars

-----------------------------------------------------------------------------
(* Properties                                                                *)

(* Types; the controller tracks exactly the VM whose provision has returned. *)
TypeOK ==
    /\ entry \in {NoEntry, "defined", "running", "stopping", "stopped", "destroyed"}
    /\ defined \in BOOLEAN /\ running \in BOOLEAN /\ overlay \in BOOLEAN
    /\ request \in Requests \cup {NoRequest}
    /\ domain # NoRequest => domain = DomainXml(request)
    /\ making \in {"no", "refused", "valid", "overlay", "written", "domain", "done", "failed"}
    /\ pc \in [Callers -> Stations]
    /\ draft \in [Callers -> [overlay_shredded : BOOLEAN, domain_undefined : BOOLEAN]]
    /\ report \in [Callers -> [overlay_shredded : BOOLEAN, domain_undefined : BOOLEAN]]
    /\ entry # NoEntry <=> making = "done"

(* However calls interleave and whichever commands fail, what a              *)
(* DestroyReport claims is so when the caller reads it and stays so: the     *)
(* overlay is off the disk, the domain has no definition to start from.      *)
(* Refuted where the look at the overlay may fail ("stat" in MayFail).       *)
ReportIsTrue ==
    \A c \in Callers :
        /\ report[c].overlay_shredded /\ request.destroy_on_close => ~overlay
        /\ report[c].domain_undefined => ~defined

(* Whatever was asked for, a domain that libvirt can start or runs gives the *)
(* guest no way to the host's devices, and a browser one interface, on the   *)
(* isolated network, and a root disk it cannot write.                        *)
DomainIsConfined == defined \/ running => Confined(request.role, domain)

(* What provision answers is so: a VM that it hands out has a definition to  *)
(* start from, one that was refused or failed on the way cannot run, and a   *)
(* refused request has not touched the disk. The daemon's are not refused.   *)
ProvisionAnswersTrue ==
    [][/\ making # "done" /\ making' = "done" => defined'
       /\ making' \in {"refused", "failed"} => ~defined' /\ ~running'
       /\ making' = "refused" =>
              ~overlay' /\ request' # ProvisionRequest(request'.role)]_vars

(* Destroyed and cleaned up: a VM in that state does not run.                *)
DestroyedIsOff == entry = "destroyed" => ~running

(* A provision that fails leaves no overlay behind that nobody knows of.     *)
NoOrphanOverlay == making = "failed" => ~overlay
=============================================================================
