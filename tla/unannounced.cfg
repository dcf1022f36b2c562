\* One transaction, each message on two sockets.
SPECIFICATION Spec
CONSTANTS
    TxIds = {t1}
    NoTx = none
    Copies = 2
    MaxFetches = 4
    MaxLists = 2
INVARIANTS
    CreditIsAnnounced
