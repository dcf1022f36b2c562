\* One transaction.
SPECIFICATION Spec
CONSTANTS
    TxIds = {t1}
    NoTx = none
    Copies = 1
    MaxFetches = 4
    MaxLists = 2
PROPERTIES
    PaymentStaysShown
