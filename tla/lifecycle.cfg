\* One transaction, of a positive or a negative amount, while alice's wallets are deleted
\* and created again and the item expires; with old reads, a fault of any kind, and
\* fairness.
SPECIFICATION FairSpec
CONSTANTS
    Users = {alice, bob}
    TxIds = {t1}
    Terms <- DeletableTerms
    Amounts <- SignedAmounts
    SeedBalance = 3
    InitiallyOpen = {alice, bob}
    MaxCreations = 2
    Workers = {w1, w2}
    Cancellers = {c1}
    Deletable = {alice}
    Expires = {t1}
    Copies = {r1}
    Replicated = {bob}
    MaxFaults = 1
    MaxQueued = 1
    NoTx = none
INVARIANTS
    OverdrawnByNegative
    RepliesStayTrue
    LedgerExplainsWallets
    PostedOnceCompleted
PROPERTIES
    ImplementsTables
    StrandedByCause
    ReservedIsTakenUp
    ImplementsEscrowBank
    BooksMove
    MoneyConserved
    StrandedForGood
