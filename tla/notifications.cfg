\* Two connections come and go while a request publishes, with two faults and fairness.
SPECIFICATION FairSpec
CONSTANTS
    Conns = {c1, c2}
    Publishers = {p1}
    MaxFaults = 2
    NoConn = none
INVARIANTS
    TypeOK
    PublishReaches
PROPERTIES
    StaleConnectionsGo
    ImplementsBroadcast
