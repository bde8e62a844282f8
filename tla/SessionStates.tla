--------------------------- MODULE SessionStates ---------------------------
(***************************************************************************)
(* The states of a session and the edges between them, as the core crate  *)
(* defines them (SessionState and SessionState::allowed_next).            *)
(*                                                                         *)
(* "absent" stands for an id that is not in the orchestrator's table.      *)
(***************************************************************************)

SessionState ==
    {"requested", "provisioning", "gateway-starting", "preflight",
     "browsing", "closing", "destroyed", "failed"}

Ended == {"destroyed", "failed"}

AllowedNext ==
    [st \in SessionState |->
        CASE st = "requested"        -> {"provisioning", "failed", "closing"}
          [] st = "provisioning"     -> {"gateway-starting", "failed", "closing"}
          [] st = "gateway-starting" -> {"preflight", "failed", "closing"}
          [] st = "preflight"        -> {"browsing", "failed", "closing"}
          [] st = "browsing"         -> {"closing", "failed"}
          [] st = "closing"          -> {"destroyed", "failed"}
          [] st = "destroyed"        -> {}
          [] st = "failed"           -> {"closing", "destroyed"}]
=============================================================================
