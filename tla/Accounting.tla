---------------------------- MODULE Accounting ----------------------------
(***************************************************************************)
(* The books of TransferSystem: what the three tables must say about each  *)
(* other in every state.  The sums are over all transactions of a user.    *)
(***************************************************************************)
EXTENDS TransferSystem, Functions, FiniteSets

\* uuid.New() draws an id from 2^128, and DynamoDB allows a user id 2048 bytes.
ASSUME BooksAssumption == IsFiniteSet(TxIds) /\ IsFiniteSet(Users)

\* The money of u that is held by pending transactions, expired or not.
HeldFrom(u) == SumFunction([t \in TxIds |-> HeldOf(t, u)])

\* What all postings together have brought u.
Posted(u) == SumFunction([t \in TxIds |-> NetOf(t, u)])

\* What the wallet of u is worth, and all wallets together.
Worth(u) == wallets[u].balance + wallets[u].reserved
Money == SumFunction([u \in Users |-> Worth(u)])

\* The first wallet of u, as opposed to one made after a deletion.
FirstWallet(u) == wallets[u].exists /\ wallets[u].created_at = 1

\* As long as a wallet is not replaced, `reserved` is exactly the sum of the amounts
\* of the user's pending transactions: no reservation is released twice, lost to a
\* crash or paid for by another, through any race of settlement and cancellation.
ReservedMatchesPending ==
    \A u \in Users : FirstWallet(u) => wallets[u].reserved = HeldFrom(u)

\* The ledger is a complete audit trail (README.md): it explains, to the unit, how
\* far a wallet's balance and reservation together are from the seed balance.
LedgerExplainsWallets ==
    \A u \in Users : FirstWallet(u) =>
        Worth(u) = SeedBalance + Posted(u)

\* Money is conserved: whatever the handlers and lambdas do, through crashes, expiries
\* and wallets made again, a write moves money between wallets or within one, except that
\* POST /wallets pays in the seed balance, and that DELETE, or the wallet's own ttl of 24
\* hours (wallets.go:19), destroys what the wallet held.
MoneyConserved ==
    [][ \/ Money' = Money
        \/ \E u \in Users : /\ ~wallets[u].exists /\ wallets'[u].exists
                            /\ Money' = Money + SeedBalance
        \/ \E u \in Users : /\ wallets[u].exists /\ ~wallets'[u].exists
                            /\ Money' = Money - Worth(u) ]_tables

\* A negative amount pending makes `reserved` less than what others of the user hold.
NegativePending(u, t) ==
    \E s \in TxIds \ {t} : Pending(s) /\ terms[s].from = u /\ terms[s].amount < 0

\* What can keep w from settling t after it has taken the lock: the transfer itself, an
\* item that is gone, a negative amount, or a read that is not the wallet as it is when
\* it is used, whether it was out of date from the start or has been written to since.
Disturbed(w, t) ==
    LET from == terms[t].from
        to == terms[t].to IN
    \/ from = to
    \/ ~transactions[t].exists \/ ~FirstWallet(from) \/ ~wallets[to].exists
    \/ NegativePending(from, t)
    \/ worker[w].pc = "sender" /\ \E r \in Copies : ~copies[r][from].exists
    \/ worker[w].pc = "receiver" /\ \E r \in Copies : ~copies[r][to].exists
    \/ /\ worker[w].pc = "settle"
       /\ wallets[from] # worker[w].sender \/ wallets[to] # worker[w].receiver

\* Nothing but a fault or what Disturbed lists makes a settlement fail that has taken the
\* lock: the funds it needs are always reserved, no other invocation, cancellation or
\* reconciliation interferes, and current reads that stay current always settle.
StrandedByCause ==
    [][\A t \in TxIds : ~Stranded(t) /\ Stranded(t)' =>
          \/ faults' # faults
          \/ \E w \in Workers : worker[w].tx = t /\ Disturbed(w, t)]_vars

\* api/spec.yaml on Wallet.reserved: "Funds reserved for pending transactions."
ReservedIsForPending ==
    \A u \in Users : wallets[u].exists => wallets[u].reserved = HeldFrom(u)
=============================================================================
