\* Two transactions and the times of the code in hours, with a fault of any kind; 15
\* minutes, 5 minutes and the delivery of a message count as an hour.
SPECIFICATION Spec
CONSTANTS
    TxIds = {t1, t2}
    Unaddressed = {t2}
    Delays = {0, 1, 3, 7}
    MaxDelay = 1
    Threshold = 6
    Period = 6
    Ttl = 24
    Visibility = 1
    Delivery = 1
    MaxFaults = 1
INVARIANTS
    TypeOK
    TakenUpInTime
    TriedBeforeExpiry
PROPERTIES
    NotBeforeDelay
