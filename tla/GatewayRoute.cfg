SPECIFICATION Spec
CONSTANTS
    c1 = c1
    c2 = c2
    tor = tor
    vpn = vpn
    Tor = tor
    Unset = Unset
    Absent = Absent
    Block = Block
    Callers = {c1, c2}
    Modes = {tor, vpn}
    ModesOf <- TwoModes
    MayFollow <- DaemonOrder
INVARIANT RouteIsTheProfiles
