\* One transaction: any order of messages, answers and clicks; fairness.
SPECIFICATION FairSpec
CONSTANTS
    TxIds = {t1}
    NoTx = none
    Copies = 1
    MaxFetches = 2
    MaxLists = 1
INVARIANTS
    TypeOK
    RejectedIsCancelled
PROPERTIES
    ChangesAreShown
