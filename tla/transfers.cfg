\* Races of scheduling, settlement, cancellation and reconciliation, no deletion; a read
\* may return the wallet as it is, or as it was at the start.
SPECIFICATION Spec
CONSTANTS
    Users = {alice, bob}
    TxIds = {t1, t2}
    Terms <- ProperTerms
    Amounts = {2}
    SeedBalance = 3
    InitiallyOpen = {alice, bob}
    MaxCreations = 1
    Workers = {w1, w2}
    Cancellers = {c1}
    Deletable = {}
    Expires = {}
    Copies = {r1}
    Replicated = {}
    MaxFaults = 1
    MaxQueued = 1
    NoTx = none
SYMMETRY Symmetry
INVARIANTS
    TypeOK
    OverdrawnByNegative
    LockIsExclusive
    VersionDetectsChange
    RepliesStayTrue
    ReservedMatchesPending
    LedgerExplainsWallets
PROPERTIES
    StrandedByCause
