\* The forward chain accepts more than "the browser subnet toward the tunnel".
SPECIFICATION Spec
CONSTANTS
    c1 = c1
    c2 = c2
    tor = tor
    vpn = vpn
    Tor = tor
    Unset = Unset
    Absent = Absent
    Block = Block
    Callers = {c1}
    Modes = {tor}
    ModesOf <- AnyMode
    MayFollow <- AnyOrder
INVARIANT NothingForwarded
