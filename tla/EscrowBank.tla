---------------------------- MODULE EscrowBank ----------------------------
(***************************************************************************)
(* What the service promises its clients, without wallets' versions,       *)
(* locks, messages or time: a bank in which every transfer has an escrow   *)
(* of its own.  The money of a transfer leaves the payer's account when    *)
(* the transfer is held and from then on goes to exactly one place, once:  *)
(* to the payee, when it is paid, or back to the payer, when it is         *)
(* refunded.  A held transfer may stay held forever: when it must end is   *)
(* a question for TransferSystem, which has fairness.                      *)
(***************************************************************************)
EXTENDS Integers

CONSTANTS
    Users,         \* account holders
    TxIds,         \* transfers
    Terms,         \* what a transfer may ask for: [from, to, amount]
    SeedBalance,   \* money an account is opened with
    InitiallyOpen  \* accounts that exist when the behaviour starts

VARIABLES
    open,       \* the accounts that exist
    available,  \* available[u]: money u can spend
    terms,      \* terms[t]: payer, payee and amount of transfer t
    escrow      \* escrow[t]: "none", "held", "paid" or "refunded"

vars == <<open, available, terms, escrow>>

TypeOK ==
    /\ open \subseteq Users
    /\ available \in [Users -> Int]
    /\ terms \in [TxIds -> Terms]
    /\ escrow \in [TxIds -> {"none", "held", "paid", "refunded"}]

Init ==
    /\ open = InitiallyOpen
    /\ available = [u \in Users |-> IF u \in InitiallyOpen THEN SeedBalance ELSE 0]
    /\ terms \in [TxIds -> Terms]
    /\ escrow = [t \in TxIds |-> "none"]

-----------------------------------------------------------------------------

Open(u) ==
    /\ u \notin open
    /\ open' = open \union {u}
    /\ available' = [available EXCEPT ![u] = SeedBalance]
    /\ UNCHANGED <<terms, escrow>>

\* What is in escrow does not go with the account.
Close(u) ==
    /\ u \in open
    /\ open' = open \ {u}
    /\ available' = [available EXCEPT ![u] = 0]
    /\ UNCHANGED <<terms, escrow>>

Hold(t) ==
    /\ escrow[t] = "none"
    /\ terms[t].from \in open
    /\ available[terms[t].from] >= terms[t].amount
    /\ available' = [available EXCEPT ![terms[t].from] = @ - terms[t].amount]
    /\ escrow' = [escrow EXCEPT ![t] = "held"]
    /\ UNCHANGED <<open, terms>>

Pay(t) ==
    /\ escrow[t] = "held"
    /\ terms[t].to \in open
    /\ available' = [available EXCEPT ![terms[t].to] = @ + terms[t].amount]
    /\ escrow' = [escrow EXCEPT ![t] = "paid"]
    /\ UNCHANGED <<open, terms>>

Refund(t) ==
    /\ escrow[t] = "held"
    /\ terms[t].from \in open
    /\ available' = [available EXCEPT ![terms[t].from] = @ + terms[t].amount]
    /\ escrow' = [escrow EXCEPT ![t] = "refunded"]
    /\ UNCHANGED <<open, terms>>

Next ==
    \/ \E u \in Users : Open(u) \/ Close(u)
    \/ \E t \in TxIds : Hold(t) \/ Pay(t) \/ Refund(t)

Spec == Init /\ [][Next]_vars
=============================================================================
