\* The reserved field of a wallet made after a deletion is not the pending funds.
SPECIFICATION Spec
CONSTANTS
    Users = {alice, bob}
    TxIds = {t1, t2}
    Terms <- ProperTerms
    Amounts = {2}
    SeedBalance = 3
    InitiallyOpen = {alice, bob}
    MaxCreations = 2
    Workers = {w1}
    Cancellers = {c1}
    Deletable = {alice}
    Expires = {}
    Copies = {}
    Replicated = {}
    MaxFaults = 0
    MaxQueued = 1
    NoTx = none
INVARIANTS
    ReservedIsForPending
