------------------------------- MODULE Domain -------------------------------
(***************************************************************************)
(* What a VmProvisionRequest asks for, what it is validated against, and   *)
(* the libvirt domain that render_domain_xml writes from it. The XML is    *)
(* shown as the things it gives the guest: its network interfaces, whether *)
(* its root disk is read-only, and the kinds of its devices.               *)
(***************************************************************************)
EXTENDS Naturals, Sequences

(* The fields of IsolationPolicy: each is a guarantee.                       *)
Guarantees ==
    {"no_shared_clipboard", "no_drag_and_drop", "no_shared_folders",
     "no_host_disk_automount", "no_usb_passthrough", "no_pci_passthrough",
     "no_camera_microphone", "no_host_ssh_agent", "no_desktop_integration_tools",
     "read_only_root", "random_instance_id", "fresh_network_device"}

(* IsolationPolicy::hardened.                                                *)
Hardened == Guarantees

(* Requests with a hardened policy, or one that lacks a guarantee.           *)
Requests ==
    [role             : {"gateway", "browser"},
     isolation        : {Hardened} \cup {Hardened \ {g} : g \in Guarantees},
     read_only_root   : BOOLEAN,
     destroy_on_close : BOOLEAN,
     gpu              : {"virtio", "software"}]

(* Fault: only the policy is looked at.                                      *)
Validates_PolicyOnly(request) == request.isolation = Guarantees

Validates(request) ==
    /\ request.isolation = Guarantees
    /\ request.role = "browser" => request.read_only_root

(* What the orchestrator asks for, for either role.                          *)
ProvisionRequest(role) ==
    [role |-> role, isolation |-> Hardened, read_only_root |-> TRUE,
     destroy_on_close |-> TRUE, gpu |-> "virtio"]

-----------------------------------------------------------------------------
(* render_domain_xml                                                         *)

Nics(request) ==
    IF request.role = "browser" THEN <<"isolated">> ELSE <<"upstream", "isolated">>

Video(request) == IF request.gpu = "virtio" THEN "virtio-2d" ELSE "vga"

DomainXml(request) ==
    [nics     |-> Nics(request),
     readonly |-> request.read_only_root,
     devices  |-> {Video(request), "vnc-loopback", "console", "memballoon", "rng"}]

-----------------------------------------------------------------------------
(* Devices through which a guest would reach the host's, or the host's user. *)
HostDevices ==
    {"hostdev", "redirdev", "filesystem", "sound", "spicevmc", "spice", "accel3d"}

Confined(role, domain) ==
    /\ domain.devices \cap HostDevices = {}
    /\ role = "browser" => domain.nics = <<"isolated">> /\ domain.readonly
=============================================================================
