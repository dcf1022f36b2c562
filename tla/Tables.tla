------------------------------ MODULE Tables ------------------------------
(***************************************************************************)
(* The Wallets, Transactions and LedgerEntries tables of DynamoDB and the  *)
(* conditional writes pkg/storage/dynamodb makes to them.  Each write is   *)
(* one UpdateItem, PutItem, DeleteItem or TransactWriteItems call, which   *)
(* DynamoDB applies atomically or not at all; the reads that come before   *)
(* it in the code, and everything that can happen in between, are in       *)
(* TransferSystem, which extends this module.                              *)
(*                                                                         *)
(* The version a write expects is a parameter: it is the one the caller    *)
(* read, not necessarily the one in the table.                             *)
(***************************************************************************)
EXTENDS Integers

CONSTANTS
    Users,          \* user ids
    TxIds,          \* the ids uuid.New() hands out, one per scheduling request
    Terms,          \* what a request may ask for: [from, to, amount]
    SeedBalance,    \* the balance of a new wallet (1000 in the code)
    InitiallyOpen,  \* the users who have a wallet when the behaviour starts
    MaxCreations    \* bound: how often the wallet of one user is created

\* amount is an int64 the service does not look at: it may be zero or negative.
ASSUME TermsAssumption ==
    Terms \subseteq [from : Users, to : Users, amount : Int]
ASSUME SeedAssumption == SeedBalance \in Nat
ASSUME InitiallyOpenAssumption == InitiallyOpen \subseteq Users
ASSUME MaxCreationsAssumption == MaxCreations \in Nat

VARIABLES
    wallets,       \* the Wallets table, by user id
    transactions,  \* the Transactions table, by id
    ledger,        \* ledger[t][u]: totals of the LedgerEntries of t on the account u
    terms          \* terms[t]: from_user_id, to_user_id and amount of the item t

tables == <<wallets, transactions, ledger, terms>>

-----------------------------------------------------------------------------
(* Items *)

\* created_at tells one wallet of a user from the next: the n-th wallet has n.
Wallet ==
    [exists : BOOLEAN, balance : Int, reserved : Int, version : Nat, created_at : Nat]

\* ToDomainNewWallet: the seed balance, nothing reserved, version 1.
NewWallet(n) ==
    [exists |-> TRUE, balance |-> SeedBalance, reserved |-> 0, version |-> 1,
     created_at |-> n]

NoWallet(n) ==
    [exists |-> FALSE, balance |-> 0, reserved |-> 0, version |-> 0, created_at |-> n]

\* "NONE" is an id not used yet.  The status outlives the item (exists is then
\* FALSE), so that the properties can speak of expired transactions.  old says
\* that created_at is further back than stuckTransactionThreshold.
Transaction ==
    [exists : BOOLEAN, old : BOOLEAN,
     status : {"NONE", "RESERVED", "WORKING", "COMPLETED", "CANCELLED"}]

NoTransaction == [exists |-> FALSE, old |-> FALSE, status |-> "NONE"]

NoEntries == [u \in Users |-> [debit |-> 0, credit |-> 0]]

\* The funds of a transaction that is neither settled nor cancelled.
Pending(t) == transactions[t].status \in {"RESERVED", "WORKING"}

TablesTypeOK ==
    /\ wallets \in [Users -> Wallet]
    /\ transactions \in [TxIds -> Transaction]
    /\ ledger \in [TxIds -> [Users -> [debit : Int, credit : Int]]]
    /\ terms \in [TxIds -> Terms]

TablesInit ==
    /\ wallets = [u \in Users |-> IF u \in InitiallyOpen THEN NewWallet(1) ELSE NoWallet(0)]
    /\ transactions = [t \in TxIds |-> NoTransaction]
    /\ ledger = [t \in TxIds |-> NoEntries]
    /\ terms \in [TxIds -> Terms]

-----------------------------------------------------------------------------
(* Faulty variants: what some of the definitions below would be after a plausible  *)
(* slip in pkg/storage/dynamodb.  Each breaks a property; the specification uses    *)
(* none of them. *)

\* CancelTransaction without the SET of version.
ReleaseSameVersion(w, amount) == [w EXCEPT !.balance = @ + amount, !.reserved = @ - amount]

\* CancelTransaction that gives the money back but keeps it reserved.
ReleaseKeepingReserved(w, amount) == [w EXCEPT !.balance = @ + amount, !.version = @ + 1]

\* executeSettlement without the update of reserved.
SpendKeepingReserved(w, amount) == [w EXCEPT !.version = @ + 1]

\* executeSettlement that takes the amount from the balance, once more.
SpendTwice(w, amount) ==
    [w EXCEPT !.balance = @ - amount, !.reserved = @ - amount, !.version = @ + 1]

\* The debit goes to the receiver's account, the credit to the sender's.
PostEntriesSwapped(entries, x) ==
    [u \in Users |->
        [debit |-> entries[u].debit + (IF u = x.to THEN x.amount ELSE 0),
         credit |-> entries[u].credit + (IF u = x.from THEN x.amount ELSE 0)]]

\* CreateTransaction without "balance >= :amount".
CanReserveOverdrawn(t, version) ==
    wallets[terms[t].from].exists /\ wallets[terms[t].from].version = version

\* acquireTransactionLock that lets a retry in, and one with attribute_exists(id) only.
CanLockAgain(t) == transactions[t].exists /\ transactions[t].status \in {"RESERVED", "WORKING"}
CanLockAny(t) == transactions[t].exists

\* executeSettlement with "reserved > :amount" for "reserved >= :amount".
CanSettleStrictly(t, fromVersion, toVersion) ==
    /\ terms[t].from # terms[t].to
    /\ wallets[terms[t].from].exists /\ wallets[terms[t].to].exists
    /\ wallets[terms[t].from].reserved > terms[t].amount
    /\ wallets[terms[t].from].version = fromVersion
    /\ wallets[terms[t].to].version = toVersion
    /\ transactions[t].exists /\ transactions[t].status = "WORKING"

\* CancelTransaction that does not look at the status of the transaction.
CanReleaseAnyStatus(t, version) ==
    /\ wallets[terms[t].from].exists
    /\ wallets[terms[t].from].version = version
    /\ transactions[t].exists

-----------------------------------------------------------------------------
(* Update expressions: what a write does to one item *)

\* CreateTransaction on the sender's wallet.
Reserve(w, amount) ==
    [w EXCEPT !.balance = @ - amount, !.reserved = @ + amount, !.version = @ + 1]

\* CancelTransaction on the sender's wallet.
Release(w, amount) ==
    [w EXCEPT !.balance = @ + amount, !.reserved = @ - amount, !.version = @ + 1]

\* executeSettlement on the sender's and on the receiver's wallet.
Spend(w, amount) == [w EXCEPT !.reserved = @ - amount, !.version = @ + 1]
Earn(w, amount) == [w EXCEPT !.balance = @ + amount, !.version = @ + 1]

\* executeSettlement puts a debit on the sender's and a credit on the receiver's
\* account; uuid.New() makes new entries of them whatever has been posted before.
PostEntries(entries, x) ==
    [u \in Users |->
        [debit |-> entries[u].debit + (IF u = x.from THEN x.amount ELSE 0),
         credit |-> entries[u].credit + (IF u = x.to THEN x.amount ELSE 0)]]

-----------------------------------------------------------------------------
(* Conditional writes *)

\* CreateWallet: attribute_not_exists(user_id).
PutWallet(u) ==
    /\ ~wallets[u].exists
    /\ wallets[u].created_at < MaxCreations
    /\ wallets' = [wallets EXCEPT ![u] = NewWallet(@.created_at + 1)]
    /\ UNCHANGED <<transactions, ledger, terms>>

\* DeleteWallet: attribute_exists(user_id), whatever the wallet holds or has
\* reserved.  The expiry of the item by its ttl has the same effect.
RemoveWallet(u) ==
    /\ wallets[u].exists
    /\ wallets' = [wallets EXCEPT ![u] = NoWallet(@.created_at)]
    /\ UNCHANGED <<transactions, ledger, terms>>

\* The condition of CreateTransaction on the sender's wallet.
CanReserve(t, version) ==
    LET sender == wallets[terms[t].from] IN
    /\ sender.exists
    /\ sender.balance >= terms[t].amount
    /\ sender.version = version

\* CreateTransaction: the sender's wallet and the new item, in one write.  The id
\* is fresh, so attribute_not_exists(id) always holds.
ReserveFunds(t, version) ==
    /\ transactions[t].status = "NONE"
    /\ CanReserve(t, version)
    /\ wallets' = [wallets EXCEPT ![terms[t].from] = Reserve(@, terms[t].amount)]
    /\ transactions' = [transactions EXCEPT ![t] =
                         [exists |-> TRUE, old |-> FALSE, status |-> "RESERVED"]]
    /\ UNCHANGED <<ledger, terms>>

\* The condition of acquireTransactionLock.
CanLock(t) == transactions[t].exists /\ transactions[t].status = "RESERVED"

LockTransaction(t) ==
    /\ CanLock(t)
    /\ transactions' = [transactions EXCEPT ![t].status = "WORKING"]
    /\ UNCHANGED <<wallets, ledger, terms>>

\* The conditions of executeSettlement on the two wallets and the transaction.
\* DynamoDB rejects a TransactWriteItems call with two operations on one item, so
\* a transfer from a user to the same user never gets through.
CanSettle(t, fromVersion, toVersion) ==
    LET sender == wallets[terms[t].from]
        receiver == wallets[terms[t].to] IN
    /\ terms[t].from # terms[t].to
    /\ sender.exists /\ receiver.exists
    /\ sender.reserved >= terms[t].amount
    /\ sender.version = fromVersion
    /\ receiver.version = toVersion
    /\ transactions[t].exists /\ transactions[t].status = "WORKING"

SettleTransfer(t, fromVersion, toVersion) ==
    /\ CanSettle(t, fromVersion, toVersion)
    /\ wallets' = [wallets EXCEPT ![terms[t].from] = Spend(@, terms[t].amount),
                                  ![terms[t].to] = Earn(@, terms[t].amount)]
    /\ ledger' = [ledger EXCEPT ![t] = PostEntries(@, terms[t])]
    /\ transactions' = [transactions EXCEPT ![t].status = "COMPLETED"]
    /\ UNCHANGED terms

\* The conditions of CancelTransaction: no look at what the wallet has reserved.
CanRelease(t, version) ==
    LET sender == wallets[terms[t].from] IN
    /\ sender.exists
    /\ sender.version = version
    /\ transactions[t].exists /\ transactions[t].status = "RESERVED"

ReleaseFunds(t, version) ==
    /\ CanRelease(t, version)
    /\ wallets' = [wallets EXCEPT ![terms[t].from] = Release(@, terms[t].amount)]
    /\ transactions' = [transactions EXCEPT ![t].status = "CANCELLED"]
    /\ UNCHANGED <<ledger, terms>>

\* The item passes the age at which reconciliation takes it for stuck.
Age(t) ==
    /\ transactions[t].exists
    /\ ~transactions[t].old
    /\ transactions' = [transactions EXCEPT ![t].old = TRUE]
    /\ UNCHANGED <<wallets, ledger, terms>>

\* The ttl CreateTransaction sets, 24 hours, is never renewed: DynamoDB removes
\* the item whatever its status, and with it nothing else.
ExpireTransaction(t) ==
    /\ transactions[t].exists
    /\ transactions[t].old
    /\ transactions' = [transactions EXCEPT ![t].exists = FALSE]
    /\ UNCHANGED <<wallets, ledger, terms>>

-----------------------------------------------------------------------------
(* The tables on their own: every write at any time, with the versions in the table *)

TablesNext ==
    \/ \E u \in Users : PutWallet(u) \/ RemoveWallet(u)
    \/ \E t \in TxIds :
        LET from == wallets[terms[t].from].version
            to == wallets[terms[t].to].version IN
        \/ ReserveFunds(t, from)
        \/ LockTransaction(t)
        \/ SettleTransfer(t, from, to)
        \/ ReleaseFunds(t, from)
        \/ Age(t)
        \/ ExpireTransaction(t)

TablesSpec == TablesInit /\ [][TablesNext]_tables

-----------------------------------------------------------------------------
(* Properties *)

\* u has sent or been sent a negative amount.
InNegative(u) ==
    \E t \in TxIds : /\ transactions[t].status # "NONE"
                     /\ terms[t].amount < 0
                     /\ u \in {terms[t].from, terms[t].to}

\* The balance condition of CreateTransaction, the only one there is: however
\* reservations, settlements and refunds interleave and wallets come and go, nobody is
\* overdrawn by amounts of zero or more.  The service accepts negative ones, and these
\* overdraw whoever they are settled to, and a sender who cancels them.
OverdrawnByNegative == \A u \in Users : wallets[u].balance < 0 => InNegative(u)

\* What executeSettlement posts for t, once: a debit of the amount on the sender's
\* account and a credit on the receiver's.
Posting(t) ==
    [u \in Users |-> [debit |-> IF u = terms[t].from THEN terms[t].amount ELSE 0,
                      credit |-> IF u = terms[t].to THEN terms[t].amount ELSE 0]]

\* The ledger has exactly one posting for each completed transaction, even after
\* its item has expired, and nothing for any other.
PostedOnceCompleted ==
    \A t \in TxIds :
        ledger[t] = IF transactions[t].status = "COMPLETED" THEN Posting(t) ELSE NoEntries

\* Where the money of a transaction is, by its status; the lock does not matter.
EscrowOf(status) ==
    CASE status = "NONE" -> "none"
      [] status \in {"RESERVED", "WORKING"} -> "held"
      [] status = "COMPLETED" -> "paid"
      [] status = "CANCELLED" -> "refunded"

\* The tables implement the bank with one escrow per transfer: the wallets' pooled
\* `reserved` field, versions, the WORKING lock, expiry and ageing are details.
Bank == INSTANCE EscrowBank WITH
    open <- {u \in Users : wallets[u].exists},
    available <- [u \in Users |-> wallets[u].balance],
    terms <- terms,
    escrow <- [t \in TxIds |-> EscrowOf(transactions[t].status)]

ImplementsEscrowBank == Bank!Spec

\* What t holds of the money of u, and what it has brought u according to the ledger.
HeldOf(t, u) == IF Pending(t) /\ terms[t].from = u THEN terms[t].amount ELSE 0
NetOf(t, u) == ledger[t][u].credit - ledger[t][u].debit

\* The wallet of u is changed by d in `reserved`, and by n together with the balance.
WalletChanges(u, d, n) ==
    /\ wallets'[u].reserved - wallets[u].reserved = d
    /\ wallets'[u].balance + wallets'[u].reserved
         - (wallets[u].balance + wallets[u].reserved) = n

WalletStays(u) == wallets[u].exists /\ wallets'[u].exists


\* What t holds and has brought is left alone by a step.
HeldStays(t, u) == HeldOf(t, u)' = HeldOf(t, u) /\ NetOf(t, u)' = NetOf(t, u)

\* A step moves money in the wallet of u for no transaction, or for one.
BooksStep(u) ==
    \/ (\A t \in TxIds : HeldStays(t, u)) /\ WalletChanges(u, 0, 0)
    \/ \E t \in TxIds :
        /\ \A s \in TxIds \ {t} : HeldStays(s, u)
        /\ WalletChanges(u, HeldOf(t, u)' - HeldOf(t, u), NetOf(t, u)' - NetOf(t, u))

\* Double entry: what a step adds to or takes from `reserved`, and from the wallet as a
\* whole, is what the status of one transaction and the ledger say.  This is so for a
\* wallet made again after a deletion, too, where the totals no longer match.
BooksMove == [][\A u \in Users : WalletStays(u) => BooksStep(u)]_tables
=============================================================================
