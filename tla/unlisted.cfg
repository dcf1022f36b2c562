\* A publish while a client connects.
SPECIFICATION Spec
CONSTANTS
    Conns = {c1}
    Publishers = {p1}
    MaxFaults = 0
    NoConn = none
INVARIANTS
    OpenIsListed
