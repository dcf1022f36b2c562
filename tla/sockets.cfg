\* Connections come and go on a page that renders twice, until it gives up.
SPECIFICATION FairSpec
CONSTANTS
    Sockets = {s1, s2, s3, s4}
    NoSocket = none
    MaxReconnectAttempts = 5
    MaxRenders = 2
    MaxRefused = 6
CHECK_DEADLOCK FALSE
INVARIANTS
    TypeOK
    NeverSilentlyDown
PROPERTIES
    StaysConnected
