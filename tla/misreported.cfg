\* 422 Insufficient funds is the answer to a mere version conflict.
SPECIFICATION Spec
CONSTANTS
    Users = {alice, bob}
    TxIds = {t1, t2}
    Terms <- ProperTerms
    Amounts = {2}
    SeedBalance = 3
    InitiallyOpen = {alice, bob}
    MaxCreations = 1
    Workers = {w1}
    Cancellers = {}
    Deletable = {}
    Expires = {}
    Copies = {}
    Replicated = {}
    MaxFaults = 0
    MaxQueued = 1
    NoTx = none
PROPERTIES
    InsufficientMeansShort
