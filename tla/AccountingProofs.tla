-------------------------- MODULE AccountingProofs --------------------------
(***************************************************************************)
(* The books balance for every number of users, transactions, invocations  *)
(* and clients, and every number of faults.  Each write changes one term   *)
(* of a sum (TablesProofs), and a sum follows its terms (SumProofs).       *)
(***************************************************************************)
EXTENDS Accounting, TransferProofs, SumProofs

\* A user who never had a wallet has sent and received nothing.
Unused(u) ==
    wallets[u].created_at = 0 =>
        /\ ~wallets[u].exists
        /\ \A t \in TxIds : HeldOf(t, u) = 0 /\ NetOf(t, u) = 0

\* The books of one user, as long as the wallet is the first one.
Matches(u) ==
    FirstWallet(u) =>
        wallets[u].reserved = HeldFrom(u) /\ Worth(u) = SeedBalance + Posted(u)

\* A deleted wallet takes with it what it held.
Absent(u) == ~wallets[u].exists => Worth(u) = 0

\* The inductive invariant.  Unused is what the books of a first wallet start from, Absent
\* what the money starts from when a wallet is made.
BooksInv == \A u \in Users : Unused(u) /\ Absent(u) /\ Matches(u)

-----------------------------------------------------------------------------
(* The sums over the transactions *)

BooksAreNumbers == \A t \in TxIds, u \in Users : HeldOf(t, u) \in Int /\ NetOf(t, u) \in Int

\* What is held and posted are numbers, before a step and after it.
LEMMA AllBooksTyped == TablesTypeOK => BooksAreNumbers
BY BooksTyped DEF BooksAreNumbers

\* The sums as sums over a set, of integers.
LEMMA BooksAreSums ==
    ASSUME TablesTypeOK, NEW u \in Users
    PROVE  /\ HeldFrom(u) = SumFunctionOnSet([t \in TxIds |-> HeldOf(t, u)], TxIds)
           /\ Posted(u) = SumFunctionOnSet([t \in TxIds |-> NetOf(t, u)], TxIds)
           /\ HeldFrom(u) \in Int /\ Posted(u) \in Int
<1>1. /\ HeldFrom(u) = SumFunctionOnSet([t \in TxIds |-> HeldOf(t, u)], TxIds)
      /\ Posted(u) = SumFunctionOnSet([t \in TxIds |-> NetOf(t, u)], TxIds)
  BY Zenon DEF HeldFrom, Posted, SumFunction
<1>2. SumFunctionOnSet([t \in TxIds |-> HeldOf(t, u)], TxIds) \in Int
  <2> DEFINE f == [t \in TxIds |-> HeldOf(t, u)]
  <2>1. \A t \in TxIds : f[t] \in Int
    BY BooksTyped
  <2> HIDE DEF f
  <2>2. SumFunctionOnSet(f, TxIds) \in Int
    BY <2>1, SumTyped, BooksAssumption
  <2> QED BY <2>2 DEF f
<1>3. SumFunctionOnSet([t \in TxIds |-> NetOf(t, u)], TxIds) \in Int
  <2> DEFINE f == [t \in TxIds |-> NetOf(t, u)]
  <2>1. \A t \in TxIds : f[t] \in Int
    BY BooksTyped
  <2> HIDE DEF f
  <2>2. SumFunctionOnSet(f, TxIds) \in Int
    BY <2>1, SumTyped, BooksAssumption
  <2> QED BY <2>2 DEF f
<1> QED BY <1>1, <1>2, <1>3

\* Where no transaction has touched a user, the books are empty.
LEMMA EmptyBooks ==
    ASSUME TablesTypeOK, NEW u \in Users,
           \A t \in TxIds : HeldOf(t, u) = 0 /\ NetOf(t, u) = 0
    PROVE  HeldFrom(u) = 0 /\ Posted(u) = 0
<1> DEFINE f == [t \in TxIds |-> HeldOf(t, u)]
           g == [t \in TxIds |-> NetOf(t, u)]
<1>1. \A t \in TxIds : f[t] = 0 /\ g[t] = 0
  OBVIOUS
<1>2. HeldFrom(u) = SumFunctionOnSet(f, TxIds) /\ Posted(u) = SumFunctionOnSet(g, TxIds)
  BY BooksAreSums
<1> HIDE DEF f, g
<1> QED BY <1>1, <1>2, SumZero, BooksAssumption

\* A step that changes the books of no transaction with u leaves the totals alone.
LEMMA BooksStay ==
    ASSUME TablesTypeOK, TablesTypeOK', NEW u \in Users, \A t \in TxIds : HeldStays(t, u)
    PROVE  HeldFrom(u)' = HeldFrom(u) /\ Posted(u)' = Posted(u)
<1> DEFINE f == [t \in TxIds |-> HeldOf(t, u)]
           g == [t \in TxIds |-> NetOf(t, u)]
<1>1. f' = f /\ g' = g
  BY DEF HeldStays
<1>2. /\ HeldFrom(u) = SumFunction(f) /\ Posted(u) = SumFunction(g)
      /\ HeldFrom(u)' = SumFunction(f') /\ Posted(u)' = SumFunction(g')
  BY Zenon DEF HeldFrom, Posted
<1> HIDE DEF f, g
<1> QED BY <1>1, <1>2

\* A step that changes the books of t only changes the totals by as much.
LEMMA BooksFollow ==
    ASSUME TablesTypeOK, TablesTypeOK', NEW u \in Users, NEW t \in TxIds,
           \A s \in TxIds \ {t} : HeldStays(s, u)
    PROVE  /\ HeldFrom(u)' = HeldFrom(u) + (HeldOf(t, u)' - HeldOf(t, u))
           /\ Posted(u)' = Posted(u) + (NetOf(t, u)' - NetOf(t, u))
<1> DEFINE f == [s \in TxIds |-> HeldOf(s, u)]
           g == [s \in TxIds |-> NetOf(s, u)]
           fn == [s \in TxIds |-> HeldOf(s, u)']
           gn == [s \in TxIds |-> NetOf(s, u)']
<1>1. /\ HeldFrom(u) = SumFunctionOnSet(f, TxIds) /\ Posted(u) = SumFunctionOnSet(g, TxIds)
      /\ HeldFrom(u)' = SumFunctionOnSet(fn, TxIds) /\ Posted(u)' = SumFunctionOnSet(gn, TxIds)
  BY Zenon DEF HeldFrom, Posted, SumFunction
<1>2. \A s \in TxIds : f[s] \in Int /\ g[s] \in Int /\ fn[s] \in Int /\ gn[s] \in Int
  <2>1. \A s \in TxIds : HeldOf(s, u) \in Int /\ NetOf(s, u) \in Int
    BY BooksTyped
  <2>2. BooksAreNumbers'
    BY AllBooksTyped, PTL
  <2>3. \A s \in TxIds : HeldOf(s, u)' \in Int /\ NetOf(s, u)' \in Int
    BY <2>2 DEF BooksAreNumbers
  <2> QED BY <2>1, <2>3
<1>3. \A s \in TxIds \ {t} : f[s] = fn[s] /\ g[s] = gn[s]
  BY DEF HeldStays
<1>4. /\ f[t] = HeldOf(t, u) /\ fn[t] = HeldOf(t, u)'
      /\ g[t] = NetOf(t, u) /\ gn[t] = NetOf(t, u)'
  OBVIOUS
<1> HIDE DEF f, g, fn, gn
<1>5. SumFunctionOnSet(fn, TxIds) = SumFunctionOnSet(f, TxIds) + (fn[t] - f[t])
  BY <1>2, <1>3, SumChanged, BooksAssumption
<1>6. SumFunctionOnSet(gn, TxIds) = SumFunctionOnSet(g, TxIds) + (gn[t] - g[t])
  BY <1>2, <1>3, SumChanged, BooksAssumption
<1> QED BY <1>1, <1>4, <1>5, <1>6

-----------------------------------------------------------------------------
(* Users without a wallet *)

\* The books of u rest in a step, and a wallet made in it is a new one.
Rests(u) ==
    /\ \A t \in TxIds : HeldStays(t, u)
    /\ wallets'[u] \in {wallets[u], NewWallet(wallets[u].created_at + 1)}

\* Every write that moves money of u requires a wallet of u: while there is none the
\* books of u rest, and the wallet that comes next is a new one.
LEMMA NoWalletNoMoney ==
    ASSUME TablesTypeOK, [TablesNext]_tables, NEW u \in Users, ~wallets[u].exists
    PROVE  Rests(u)
<1>k. ASSUME UNCHANGED <<ledger, terms>>, \A t \in TxIds : Pending(t)' <=> Pending(t),
             wallets'[u] \in {wallets[u], NewWallet(wallets[u].created_at + 1)}
      PROVE  Rests(u)
  BY <1>k, BooksKept DEF Rests
<1>m. ASSUME NEW t \in TxIds, NEW v \in Int, NEW x \in Int,
             ReserveFunds(t, v) \/ ReleaseFunds(t, v) \/ SettleTransfer(t, v, x)
      PROVE  Rests(u)
  <2>1. BooksStep(u)
    BY <1>m, MoneyMoves
  <2>2. \A s \in TxIds \ {t} : HeldStays(s, u)
    <3>1. \A s \in TxIds \ {t} : transactions'[s] = transactions[s] /\ ledger'[s] = ledger[s]
      BY <1>m DEF TablesTypeOK, ReserveFunds, ReleaseFunds, SettleTransfer
    <3> QED BY <1>m, <3>1, OthersKept DEF ReserveFunds, ReleaseFunds, SettleTransfer
  <2>3. terms[t].from # u /\ (SettleTransfer(t, v, x) => terms[t].to # u)
    BY <1>m DEF ReserveFunds, CanReserve, ReleaseFunds, CanRelease, SettleTransfer, CanSettle
  <2>4. terms' = terms /\ wallets'[u] = wallets[u]
    BY <1>m, <2>3, TermsTyped
       DEF ReserveFunds, ReleaseFunds, SettleTransfer, TablesTypeOK
  <2>5. HeldOf(t, u)' = HeldOf(t, u)
    BY <2>3, <2>4 DEF HeldOf
  <2>6. NetOf(t, u)' = NetOf(t, u)
    <3>1. CASE ledger' = ledger
      BY <3>1 DEF NetOf
    <3>2. CASE SettleTransfer(t, v, x)
      <4>1. ledger'[t] = PostEntries(ledger[t], terms[t])
        BY <3>2 DEF SettleTransfer, TablesTypeOK
      <4>2. ledger[t][u] \in [debit : Int, credit : Int]
        BY DEF TablesTypeOK
      <4>3. ledger'[t][u].debit = ledger[t][u].debit /\ ledger'[t][u].credit = ledger[t][u].credit
        BY <2>3, <3>2, <4>1, <4>2 DEF PostEntries
      <4> QED BY <4>3 DEF NetOf
    <3> QED BY <1>m, <3>1, <3>2 DEF ReserveFunds, ReleaseFunds
  <2> QED BY <2>2, <2>4, <2>5, <2>6 DEF Rests, HeldStays
<1>1. ASSUME NEW a \in Users, PutWallet(a) PROVE Rests(u)
  <2>1. wallets'[u] \in {wallets[u], NewWallet(wallets[u].created_at + 1)}
    BY <1>1 DEF PutWallet, TablesTypeOK
  <2> QED BY <1>1, <1>k, <2>1 DEF PutWallet, Pending
<1>2. ASSUME NEW a \in Users, RemoveWallet(a) PROVE Rests(u)
  <2>1. wallets'[u] = wallets[u]
    BY <1>2 DEF RemoveWallet, TablesTypeOK
  <2> QED BY <1>2, <1>k, <2>1 DEF RemoveWallet, Pending
<1>3. ASSUME NEW t \in TxIds, NEW v \in Int, ReserveFunds(t, v) PROVE Rests(u)
  BY <1>3, <1>m
<1>4. ASSUME NEW t \in TxIds, LockTransaction(t) PROVE Rests(u)
  BY <1>4, <1>k DEF LockTransaction, CanLock, Pending, TablesTypeOK, Transaction
<1>5. ASSUME NEW t \in TxIds, NEW v \in Int, NEW x \in Int, SettleTransfer(t, v, x) PROVE Rests(u)
  BY <1>5, <1>m
<1>6. ASSUME NEW t \in TxIds, NEW v \in Int, ReleaseFunds(t, v) PROVE Rests(u)
  BY <1>6, <1>m
<1>7. ASSUME NEW t \in TxIds, Age(t) PROVE Rests(u)
  BY <1>7, <1>k DEF Age, Pending, TablesTypeOK, Transaction
<1>8. ASSUME NEW t \in TxIds, ExpireTransaction(t) PROVE Rests(u)
  BY <1>8, <1>k DEF ExpireTransaction, Pending, TablesTypeOK, Transaction
<1>9. CASE UNCHANGED tables
  <2>1. UNCHANGED <<ledger, terms>> /\ \A t \in TxIds : Pending(t)' <=> Pending(t)
    BY <1>9 DEF tables, Pending
  <2>2. wallets'[u] = wallets[u]
    BY <1>9 DEF tables
  <2> QED BY <1>k, <2>1, <2>2
<1> QED
  BY <1>1, <1>2, <1>3, <1>4, <1>5, <1>6, <1>7, <1>8, <1>9, TablesNextCases

-----------------------------------------------------------------------------
(* The books of one user *)

\* Where a first wallet comes from: it was there, or there has never been another.
LEMMA FirstWalletFrom ==
    ASSUME TablesTypeOK, TablesTypeOK', [TablesNext]_tables, NEW u \in Users, Unused(u),
           FirstWallet(u)'
    PROVE  \/ FirstWallet(u) /\ WalletStays(u)
           \/ /\ ~wallets[u].exists /\ wallets[u].created_at = 0
              /\ wallets'[u] = NewWallet(1)
<1>1. wallets'[u].exists /\ wallets'[u].created_at = 1
  BY DEF FirstWallet
<1>2. wallets[u].created_at \in Nat /\ WalletMoves(u)
  BY WalletEvolves DEF TablesTypeOK, Wallet
<1>3. CASE wallets[u].exists
  <2>1. wallets[u].created_at # 0
    BY <1>3 DEF Unused
  <2>2. wallets[u].created_at = 1
    BY <1>1, <1>2, <2>1 DEF WalletMoves
  <2> QED BY <1>1, <1>3, <2>2 DEF FirstWallet, WalletStays
<1>4. CASE ~wallets[u].exists
  <2>1. wallets'[u] = NewWallet(wallets[u].created_at + 1)
    BY <1>1, <1>4, NoWalletNoMoney DEF Rests
  <2>2. wallets[u].created_at + 1 = 1
    BY <1>1, <2>1 DEF NewWallet
  <2>3. wallets[u].created_at = 0
    BY <1>2, <2>2
  <2> QED BY <1>4, <2>1, <2>2, <2>3
<1> QED BY <1>3, <1>4

\* A user whose first wallet is still to come has sent and received nothing.
LEMMA UnusedStep ==
    ASSUME TablesTypeOK, TablesTypeOK', [TablesNext]_tables, NEW u \in Users, Unused(u)
    PROVE  Unused(u)'
<1> SUFFICES ASSUME wallets'[u].created_at = 0
             PROVE  /\ ~wallets'[u].exists
                    /\ \A t \in TxIds : HeldOf(t, u)' = 0 /\ NetOf(t, u)' = 0
  BY DEF Unused
<1>1. wallets[u].created_at \in Nat /\ WalletMoves(u)
  BY WalletEvolves DEF TablesTypeOK, Wallet
<1>2. wallets[u].created_at = 0
  BY <1>1 DEF WalletMoves
<1>3. ~wallets[u].exists /\ \A t \in TxIds : HeldOf(t, u) = 0 /\ NetOf(t, u) = 0
  BY <1>2 DEF Unused
<1>4. Rests(u)
  BY <1>3, NoWalletNoMoney
<1>5. \A t \in TxIds : HeldOf(t, u)' = 0 /\ NetOf(t, u)' = 0
  BY <1>3, <1>4 DEF Rests, HeldStays
<1>6. ~wallets'[u].exists
  BY <1>2, <1>3, <1>4 DEF Rests, NewWallet
<1> QED BY <1>5, <1>6

\* Only DELETE takes a wallet away, and it leaves nothing behind.
LEMMA AbsentStep ==
    ASSUME TablesTypeOK, [TablesNext]_tables, NEW u \in Users, Absent(u)
    PROVE  Absent(u)'
<1>1. CASE ~wallets[u].exists
  <2>1. wallets'[u] \in {wallets[u], NewWallet(wallets[u].created_at + 1)}
    BY <1>1, NoWalletNoMoney DEF Rests
  <2> QED BY <1>1, <2>1 DEF Absent, Worth, NewWallet
<1>2. CASE wallets[u].exists
  <2>0. ASSUME wallets'[u].exists = wallets[u].exists PROVE Absent(u)'
    BY <1>2, <2>0 DEF Absent
  <2>1. ASSUME NEW a \in Users, PutWallet(a) PROVE Absent(u)'
    BY <1>2, <2>0, <2>1 DEF PutWallet, TablesTypeOK
  <2>2. ASSUME NEW a \in Users, RemoveWallet(a) PROVE Absent(u)'
    <3>1. CASE a = u
      <4>1. wallets'[u].balance = 0 /\ wallets'[u].reserved = 0
        BY <2>2, <3>1 DEF RemoveWallet, NoWallet, TablesTypeOK
      <4> QED BY <4>1 DEF Absent, Worth
    <3>2. CASE a # u
      BY <2>0, <2>2, <3>2 DEF RemoveWallet, TablesTypeOK
    <3> QED BY <3>1, <3>2
  <2>3. ASSUME NEW t \in TxIds, NEW v \in Int, ReserveFunds(t, v) PROVE Absent(u)'
    BY <2>0, <2>3, ReserveEffect
  <2>4. ASSUME NEW t \in TxIds, LockTransaction(t) PROVE Absent(u)'
    BY <2>0, <2>4 DEF LockTransaction
  <2>5. ASSUME NEW t \in TxIds, NEW v \in Int, NEW x \in Int, SettleTransfer(t, v, x)
        PROVE Absent(u)'
    BY <2>0, <2>5, SettleEffect
  <2>6. ASSUME NEW t \in TxIds, NEW v \in Int, ReleaseFunds(t, v) PROVE Absent(u)'
    BY <2>0, <2>6, ReleaseEffect
  <2>7. ASSUME NEW t \in TxIds, Age(t) PROVE Absent(u)'
    BY <2>0, <2>7 DEF Age
  <2>8. ASSUME NEW t \in TxIds, ExpireTransaction(t) PROVE Absent(u)'
    BY <2>0, <2>8 DEF ExpireTransaction
  <2>9. CASE UNCHANGED tables
    BY <2>0, <2>9 DEF tables
  <2> QED BY <2>1, <2>2, <2>3, <2>4, <2>5, <2>6, <2>7, <2>8, <2>9, TablesNextCases
<1> QED BY <1>1, <1>2

\* The totals follow every write to a first wallet, and are empty when it is made.
LEMMA MatchesStep ==
    ASSUME TablesTypeOK, TablesTypeOK', [TablesNext]_tables, NEW u \in Users,
           Unused(u), Matches(u)
    PROVE  Matches(u)'
<1> SUFFICES ASSUME FirstWallet(u)'
             PROVE  /\ wallets'[u].reserved = HeldFrom(u)'
                    /\ Worth(u)' = SeedBalance + Posted(u)'
  BY DEF Matches
<1>1. CASE FirstWallet(u) /\ WalletStays(u)
  <2>1. /\ wallets[u].reserved = HeldFrom(u)
        /\ wallets[u].balance + wallets[u].reserved = SeedBalance + Posted(u)
    BY <1>1 DEF Matches, Worth
  <2>2. BooksStep(u)
    BY <1>1, EveryStepBooks
  <2>3. /\ wallets[u].reserved \in Int /\ wallets[u].balance \in Int
        /\ wallets'[u].reserved \in Int /\ wallets'[u].balance \in Int
    BY DEF TablesTypeOK, Wallet
  <2>4. HeldFrom(u) \in Int /\ Posted(u) \in Int /\ SeedBalance \in Int
    <3>1. HeldFrom(u) \in Int /\ Posted(u) \in Int
      BY BooksAreSums
    <3> QED BY <3>1, SeedAssumption
  <2>5. CASE (\A t \in TxIds : HeldStays(t, u)) /\ WalletChanges(u, 0, 0)
    <3>1. HeldFrom(u)' = HeldFrom(u) /\ Posted(u)' = Posted(u)
      BY <2>5, BooksStay
    <3> QED BY <2>1, <2>3, <2>4, <2>5, <3>1 DEF WalletChanges, Worth
  <2>6. ASSUME NEW t \in TxIds, \A s \in TxIds \ {t} : HeldStays(s, u),
               WalletChanges(u, HeldOf(t, u)' - HeldOf(t, u), NetOf(t, u)' - NetOf(t, u))
        PROVE  /\ wallets'[u].reserved = HeldFrom(u)'
               /\ Worth(u)' = SeedBalance + Posted(u)'
    <3> DEFINE d == HeldOf(t, u)' - HeldOf(t, u)
               n == NetOf(t, u)' - NetOf(t, u)
    <3>1. HeldFrom(u)' = HeldFrom(u) + d /\ Posted(u)' = Posted(u) + n
      BY <2>6, BooksFollow
    <3>2. d \in Int /\ n \in Int
      <4>1. HeldOf(t, u) \in Int /\ NetOf(t, u) \in Int
        BY BooksTyped
      <4>2. BooksAreNumbers'
        BY AllBooksTyped, PTL
      <4> QED BY <4>1, <4>2 DEF BooksAreNumbers
    <3>3. WalletChanges(u, d, n)
      BY <2>6
    <3> HIDE DEF d, n
    <3> QED BY <2>1, <2>3, <2>4, <3>1, <3>2, <3>3 DEF WalletChanges, Worth
  <2> QED BY <2>2, <2>5, <2>6 DEF BooksStep
<1>2. CASE /\ ~wallets[u].exists /\ wallets[u].created_at = 0
           /\ wallets'[u] = NewWallet(1)
  <2>1. \A t \in TxIds : HeldOf(t, u) = 0 /\ NetOf(t, u) = 0
    BY <1>2 DEF Unused
  <2>2. HeldFrom(u) = 0 /\ Posted(u) = 0
    BY <2>1, EmptyBooks
  <2>3. HeldFrom(u)' = 0 /\ Posted(u)' = 0
    BY <1>2, <2>2, NoWalletNoMoney, BooksStay DEF Rests
  <2>4. wallets'[u].reserved = 0 /\ wallets'[u].balance = SeedBalance
    BY <1>2 DEF NewWallet
  <2> QED BY <2>3, <2>4, SeedAssumption DEF Worth
<1> QED BY <1>1, <1>2, FirstWalletFrom

\* Initially nothing is held or posted, and a wallet has the seed balance.
LEMMA BooksInit == TablesInit => BooksInv
<1> SUFFICES ASSUME TablesInit, NEW u \in Users PROVE Unused(u) /\ Absent(u) /\ Matches(u)
  BY DEF BooksInv
<1>1. \A t \in TxIds : HeldOf(t, u) = 0 /\ NetOf(t, u) = 0
  BY DEF TablesInit, HeldOf, NetOf, Pending, NoTransaction, NoEntries
<1>2. TablesTypeOK /\ HeldFrom(u) = 0 /\ Posted(u) = 0
  BY <1>1, TablesTypeInit, EmptyBooks
<1>3. wallets[u] = IF u \in InitiallyOpen THEN NewWallet(1) ELSE NoWallet(0)
  BY DEF TablesInit
<1>4. CASE u \in InitiallyOpen
  <2>1. /\ wallets[u].created_at = 1 /\ wallets[u].reserved = 0
        /\ wallets[u].balance = SeedBalance
    BY <1>3, <1>4 DEF NewWallet
  <2>2. wallets[u].exists
    BY <1>3, <1>4 DEF NewWallet
  <2> QED BY <1>2, <2>1, <2>2, SeedAssumption DEF Unused, Absent, Matches, Worth
<1>5. CASE u \notin InitiallyOpen
  <2>1. ~wallets[u].exists /\ wallets[u].balance = 0 /\ wallets[u].reserved = 0
    BY <1>3, <1>5 DEF NoWallet
  <2> QED BY <1>1, <2>1 DEF Unused, Absent, Worth, Matches, FirstWallet
<1> QED BY <1>4, <1>5

\* Every write to the tables preserves the books.
LEMMA BooksInvStep == TablesTypeOK /\ TablesTypeOK' /\ BooksInv /\ [TablesNext]_tables => BooksInv'
BY UnusedStep, AbsentStep, MatchesStep DEF BooksInv

\* Whatever writes reach the tables, in any order, the books of first wallets match.
LEMMA TablesBooks == TablesSpec => []BooksInv
BY BooksInit, BooksInvStep, TablesTypeCorrect, PTL DEF TablesSpec

\* No reservation is released twice, lost to a crash or paid for by another.
THEOREM ReservedAddsUp == Spec => []ReservedMatchesPending
<1>1. BooksInv => ReservedMatchesPending
  BY DEF BooksInv, Matches, ReservedMatchesPending
<1> QED BY <1>1, TablesBooks, SystemImplementsTables, PTL DEF ImplementsTables

\* The ledger explains every first wallet to the unit.
THEOREM LedgerAddsUp == Spec => []LedgerExplainsWallets
<1>1. BooksInv => LedgerExplainsWallets
  BY DEF BooksInv, Matches, LedgerExplainsWallets
<1> QED BY <1>1, TablesBooks, SystemImplementsTables, PTL DEF ImplementsTables

-----------------------------------------------------------------------------
(* What follows from the books *)

\* What each pending transaction holds is there in its sender's first wallet, unless a
\* negative amount of the same sender is pending, too.
ReservedCoversPending ==
    \A t \in TxIds :
        Pending(t) /\ FirstWallet(terms[t].from) /\ ~NegativePending(terms[t].from, t) =>
            wallets[terms[t].from].reserved >= terms[t].amount

\* CancelTransaction has no condition on `reserved` and, among amounts of zero or more,
\* needs none: it is never less than what is released, nor, for the same reason, does
\* executeSettlement ever fail on it.
THEOREM PendingIsCovered == Spec => []ReservedCoversPending
<1>1. TypeOK /\ ReservedMatchesPending => ReservedCoversPending
  <2> SUFFICES ASSUME TypeOK, ReservedMatchesPending,
                      NEW t \in TxIds, Pending(t), FirstWallet(terms[t].from),
                      ~NegativePending(terms[t].from, t)
               PROVE  wallets[terms[t].from].reserved >= terms[t].amount
    BY DEF ReservedCoversPending
  <2> DEFINE u == terms[t].from
             f == [s \in TxIds |-> HeldOf(s, u)]
  <2>1. TablesTypeOK /\ u \in Users
    BY PartsFromType, TermsTyped
  <2>2. wallets[u].reserved = SumFunctionOnSet(f, TxIds)
    BY <2>1, BooksAreSums DEF ReservedMatchesPending
  <2>3. \A s \in TxIds : f[s] \in Int
    BY <2>1, BooksTyped
  <2>4. \A s \in TxIds \ {t} : f[s] \in Nat
    BY <2>1, TermsTyped DEF HeldOf, NegativePending
  <2>5. f[t] = terms[t].amount
    BY DEF HeldOf
  <2> HIDE DEF f
  <2> QED BY <2>2, <2>3, <2>4, <2>5, SumCovers, BooksAssumption
<1> QED BY <1>1, ReservedAddsUp, TypeCorrect, PTL

-----------------------------------------------------------------------------
(* What strands a transaction *)

\* Only the lock of t itself makes t WORKING.
LEMMA WorkingFrom ==
    ASSUME TablesTypeOK, NEW t \in TxIds, transactions'[t].status = "WORKING",
           NEW s \in TxIds, NEW v, NEW x,
           \/ ReserveFunds(s, v) \/ ReleaseFunds(s, v) \/ SettleTransfer(s, v, x)
           \/ Age(s) \/ ExpireTransaction(s) \/ (LockTransaction(s) /\ s # t)
    PROVE  transactions[t].status = "WORKING"
<1>0. transactions \in [TxIds -> Transaction]
  BY DEF TablesTypeOK
<1>1. CASE ReserveFunds(s, v)
  BY <1>0, <1>1 DEF ReserveFunds
<1>2. CASE ReleaseFunds(s, v)
  BY <1>0, <1>2 DEF ReleaseFunds, Transaction
<1>3. CASE SettleTransfer(s, v, x)
  BY <1>0, <1>3 DEF SettleTransfer, Transaction
<1>4. CASE Age(s)
  BY <1>0, <1>4 DEF Age, Transaction
<1>5. CASE ExpireTransaction(s)
  BY <1>0, <1>5 DEF ExpireTransaction, Transaction
<1>6. CASE LockTransaction(s) /\ s # t
  BY <1>0, <1>6 DEF LockTransaction
<1> QED BY <1>1, <1>2, <1>3, <1>4, <1>5, <1>6

\* An invocation that nothing disturbs settles: the lock it holds keeps the status, what it
\* has read are the wallets as they are, and the funds it needs are reserved.
LEMMA SettlesUndisturbed ==
    ASSUME TypeOK, LockIsExclusive, VersionDetectsChange, ReservedCoversPending,
           NEW w \in Workers, worker[w].pc = "settle", ~Disturbed(w, worker[w].tx)
    PROVE  CanSettle(worker[w].tx, worker[w].sender.version, worker[w].receiver.version)
<1> DEFINE t == worker[w].tx
<1>1. t \in TxIds
  BY PartsFromType
<1>2. transactions[t].status = "WORKING"
  BY DEF LockIsExclusive, Locked
<1>3. /\ terms[t].from # terms[t].to /\ transactions[t].exists
      /\ FirstWallet(terms[t].from) /\ wallets[terms[t].to].exists
      /\ wallets[terms[t].from] = worker[w].sender /\ wallets[terms[t].to] = worker[w].receiver
      /\ ~NegativePending(terms[t].from, t)
  BY DEF Disturbed
<1>4. wallets[terms[t].from].reserved >= terms[t].amount
  BY <1>1, <1>2, <1>3 DEF ReservedCoversPending, Pending
<1> HIDE DEF t
<1> QED BY <1>2, <1>3, <1>4 DEF CanSettle, FirstWallet, t

\* Of all steps without a fault only the end of an invocation that was disturbed between
\* the lock and the settlement strands its transaction.
LEMMA StrandedFrom ==
    ASSUME TypeOK, LockIsExclusive, VersionDetectsChange, ReservedCoversPending, [Next]_vars,
           NEW t \in TxIds, ~Stranded(t), Stranded(t)', faults' = faults
    PROVE  \E w \in Workers : worker[w].tx = t /\ Disturbed(w, t)
<1> DEFINE P == \E w \in Workers : worker[w].tx = t /\ Disturbed(w, t)
<1> HIDE DEF P
<1> SUFFICES P
  BY DEF P
<1>p. /\ TablesTypeOK
      /\ worker \in [Workers -> WorkerState]
      /\ \A w \in Workers : worker[w].pc # "idle" => worker[w].tx \in TxIds
      /\ \A c \in Cancellers : cancel[c].pc # "idle" => cancel[c].tx \in TxIds
      /\ transactions'[t].status = "WORKING"
      /\ \A w \in Workers : worker'[w].pc \in Locked => worker'[w].tx # t
  BY PartsFromType DEF Stranded
<1>0. ASSUME UNCHANGED worker, transactions[t].status = "WORKING" PROVE P
  BY <1>0, <1>p DEF Stranded
<1>k. ASSUME UNCHANGED <<worker, transactions>> PROVE P
  BY <1>0, <1>k, <1>p
<1>w. ASSUME NEW w \in Workers, NEW s, worker' = [worker EXCEPT ![w] = s],
             worker[w].pc \in Locked => worker[w].tx # t, transactions[t].status = "WORKING"
      PROVE  P
  <2>1. \A v \in Workers \ {w} : worker'[v] = worker[v]
    BY <1>p, <1>w
  <2> QED BY <1>p, <1>w, <2>1 DEF Stranded
<1>f. ASSUME Fault PROVE P
  <2>1. faults \in Nat
    BY PartsFromType, BoundsAssumption
  <2> QED BY <1>f, <2>1 DEF Fault
<1>d. ASSUME NEW w \in Workers, Finish(w), UNCHANGED transactions,
             worker[w].tx = t => Disturbed(w, t)
      PROVE  P
  <2>1. CASE worker[w].tx = t
    BY <1>d, <2>1 DEF P
  <2>2. CASE worker[w].tx # t
    BY <1>d, <1>p, <1>w, <2>2 DEF Finish
  <2> QED BY <2>1, <2>2
<1>g. ASSUME NEW w \in Workers, NEW s, worker' = [worker EXCEPT ![w] = s],
             s.pc \in Locked, s.tx = worker[w].tx, UNCHANGED transactions
      PROVE  P
  <2>1. worker'[w] = s
    BY <1>g, <1>p
  <2> QED BY <1>g, <1>p, <1>w, <2>1
<1>1. ASSUME NEW u \in Users, CreateWallet(u) PROVE P
  BY <1>k, <1>1 DEF CreateWallet, PutWallet, processes
<1>2. ASSUME NEW u \in Users, DeleteWallet(u) PROVE P
  BY <1>k, <1>2 DEF DeleteWallet, RemoveWallet, processes
<1>3. ASSUME NEW s \in TxIds, ScheduleRead(s) PROVE P
  BY <1>k, <1>3 DEF ScheduleRead, tables
<1>4. ASSUME NEW s \in TxIds, ScheduleWrite(s) PROVE P
  <2>1. CASE ReserveFunds(s, sched[s].saw.version)
    BY <1>0, <1>4, <1>p, <2>1, WorkingFrom DEF ScheduleWrite
  <2> QED BY <1>k, <1>4, <2>1 DEF ScheduleWrite, tables
<1>5. ASSUME NEW s \in TxIds, ScheduleSend(s) PROVE P
  BY <1>k, <1>5 DEF ScheduleSend, tables
<1>6. ASSUME NEW s \in TxIds, ScheduleFails(s) PROVE P
  BY <1>k, <1>6 DEF ScheduleFails, tables
<1>7. ASSUME NEW c \in Cancellers, NEW s \in TxIds, CancelRead(c, s) PROVE P
  BY <1>k, <1>7 DEF CancelRead, tables
<1>8. ASSUME NEW c \in Cancellers, CancelReadWallet(c) PROVE P
  BY <1>k, <1>8 DEF CancelReadWallet, tables
<1>9. ASSUME NEW c \in Cancellers, CancelWrite(c) PROVE P
  <2>1. cancel[c].tx \in TxIds
    BY <1>9, <1>p DEF CancelWrite
  <2>2. CASE ReleaseFunds(cancel[c].tx, cancel[c].saw.version)
    BY <1>0, <1>9, <1>p, <2>1, <2>2, WorkingFrom DEF CancelWrite
  <2> QED BY <1>k, <1>9, <2>2 DEF CancelWrite, tables
<1>10. ASSUME NEW c \in Cancellers, CancelFails(c) PROVE P
  BY <1>k, <1>10 DEF CancelFails, tables
<1>11. ASSUME NEW w \in Workers, NEW s \in TxIds, Receive(w, s) PROVE P
  <2>1. worker[w].pc \notin Locked /\ transactions[t].status = "WORKING"
    BY <1>11, <1>p DEF Receive, Locked, tables
  <2> QED BY <1>w, <1>11, <2>1 DEF Receive
<1>12. ASSUME NEW w \in Workers, AcquireLock(w) PROVE P
  <2>1. worker[w].tx \in TxIds /\ worker[w].pc \notin Locked
    BY <1>12, <1>p DEF AcquireLock, Locked
  <2>2. CASE LockTransaction(worker[w].tx) /\ WorkerGoto(w, "sender")
    <3> DEFINE s == [worker[w] EXCEPT !.pc = "sender"]
    <3>1. worker' = [worker EXCEPT ![w] = s]
      BY <2>2 DEF WorkerGoto
    <3>2. worker'[w] = s /\ s.pc \in Locked /\ s.tx = worker[w].tx
      BY <1>p, <3>1 DEF WorkerState, Locked
    <3>3. worker[w].tx # t
      BY <1>p, <3>2
    <3>4. transactions[t].status = "WORKING"
      BY <1>p, <2>1, <2>2, <3>3, WorkingFrom
    <3> QED BY <1>w, <2>1, <3>1, <3>4
  <2>3. CASE Finish(w) /\ UNCHANGED tables
    BY <1>w, <1>p, <2>1, <2>3 DEF Finish, tables
  <2> QED BY <1>12, <2>2, <2>3 DEF AcquireLock
<1>13. ASSUME NEW w \in Workers, AcquireLockFails(w) PROVE P
  BY <1>f, <1>13 DEF AcquireLockFails
<1>14. ASSUME NEW w \in Workers, ReadSender(w) PROVE P
  <2>1. ASSUME NEW sender,
               worker' = [worker EXCEPT ![w].pc = "receiver", ![w].sender = sender]
        PROVE  P
    <3> DEFINE s == [worker[w] EXCEPT !.pc = "receiver", !.sender = sender]
    <3>1. worker' = [worker EXCEPT ![w] = s]
      BY <1>p, <2>1
    <3>2. s.tx = worker[w].tx /\ s.pc \in Locked
      BY <1>p DEF WorkerState, Locked
    <3> QED BY <1>g, <1>14, <3>1, <3>2 DEF ReadSender, tables
  <2>2. ASSUME NEW sender \in Readable(terms[worker[w].tx].from), ~sender.exists, Finish(w)
        PROVE  P
    <3>1. worker[w].tx = t => Disturbed(w, t)
      BY <1>14, <2>2 DEF ReadSender, Readable, Disturbed, FirstWallet
    <3> QED BY <1>d, <1>14, <2>2, <3>1 DEF ReadSender, tables
  <2> QED BY <1>14, <2>1, <2>2 DEF ReadSender
<1>15. ASSUME NEW w \in Workers, ReadReceiver(w) PROVE P
  <2>1. ASSUME NEW receiver,
               worker' = [worker EXCEPT ![w].pc = "settle", ![w].receiver = receiver]
        PROVE  P
    <3> DEFINE s == [worker[w] EXCEPT !.pc = "settle", !.receiver = receiver]
    <3>1. worker' = [worker EXCEPT ![w] = s]
      BY <1>p, <2>1
    <3>2. s.tx = worker[w].tx /\ s.pc \in Locked
      BY <1>p DEF WorkerState, Locked
    <3> QED BY <1>g, <1>15, <3>1, <3>2 DEF ReadReceiver, tables
  <2>2. ASSUME NEW receiver \in Readable(terms[worker[w].tx].to), ~receiver.exists, Finish(w)
        PROVE  P
    <3>1. worker[w].tx = t => Disturbed(w, t)
      BY <1>15, <2>2 DEF ReadReceiver, Readable, Disturbed
    <3> QED BY <1>d, <1>15, <2>2, <3>1 DEF ReadReceiver, tables
  <2> QED BY <1>15, <2>1, <2>2 DEF ReadReceiver
<1>16. ASSUME NEW w \in Workers, Settle(w) PROVE P
  <2> DEFINE from == worker[w].sender.version
             to == worker[w].receiver.version
  <2>1. worker[w].pc = "settle" /\ worker[w].tx \in TxIds
    BY <1>16, <1>p DEF Settle
  <2>2. CASE SettleTransfer(worker[w].tx, from, to)
    <3>1. transactions[t].status = "WORKING"
      BY <1>p, <2>1, <2>2, WorkingFrom
    <3>2. transactions'[worker[w].tx].status = "COMPLETED"
      BY <1>p, <2>1, <2>2 DEF SettleTransfer, TablesTypeOK, Transaction
    <3>3. worker[w].tx # t
      BY <1>p, <3>2
    <3>4. CASE Finish(w)
      BY <1>w, <3>1, <3>3, <3>4 DEF Finish
    <3>5. CASE ~Finish(w)
      BY <1>w, <1>16, <3>1, <3>3, <3>5 DEF Settle
    <3> QED BY <3>4, <3>5
  <2>3. CASE ~CanSettle(worker[w].tx, from, to)
    <3>1. Disturbed(w, worker[w].tx)
      BY <2>1, <2>3, SettlesUndisturbed
    <3> QED BY <1>d, <1>16, <2>3, <3>1 DEF Settle, SettleTransfer, tables
  <2> QED BY <1>16, <2>2, <2>3 DEF Settle
<1>17. ASSUME NEW w \in Workers, SettleFails(w) PROVE P
  BY <1>f, <1>17 DEF SettleFails
<1>18. ASSUME NEW w \in Workers, Notify(w) PROVE P
  BY <1>w, <1>18, <1>p DEF Notify, Finish, Locked, tables
<1>19. ASSUME NEW w \in Workers, WorkerCrash(w) PROVE P
  BY <1>f, <1>19 DEF WorkerCrash
<1>20. ASSUME NEW s \in TxIds, DuplicateMessage(s) PROVE P
  BY <1>f, <1>20 DEF DuplicateMessage
<1>21. CASE Reconcile
  BY <1>k, <1>21 DEF Reconcile, ReconQuery, ReconCrash, ReconSend, ReconSendFails, tables
<1>22. ASSUME NEW s \in TxIds, GrowOld(s) PROVE P
  BY <1>0, <1>22, <1>p, WorkingFrom DEF GrowOld, processes
<1>23. ASSUME NEW s \in TxIds, Expire(s) PROVE P
  BY <1>0, <1>23, <1>p, WorkingFrom DEF Expire, processes
<1>24. CASE UNCHANGED vars
  BY <1>k, <1>24 DEF vars
<1>25. ASSUME NEW r \in Copies, NEW u \in Users, Replicate(r, u) PROVE P
  BY <1>k, <1>25 DEF Replicate, tables
<1> QED
  BY <1>1, <1>2, <1>3, <1>4, <1>5, <1>6, <1>7, <1>8, <1>9, <1>10, <1>11, <1>12, <1>13,
     <1>14, <1>15, <1>16, <1>17, <1>18, <1>19, <1>20, <1>21, <1>22, <1>23, <1>24, <1>25, NextCases

\* A settlement that has taken the lock fails only by a fault or by what Disturbed lists:
\* reads that are current when they are used, of wallets that were never replaced and with
\* no negative amount pending, always settle, whatever the other processes do.
THEOREM StrandingHasCause == Spec => StrandedByCause
<1>1. /\ TypeOK /\ LockIsExclusive /\ VersionDetectsChange /\ ReservedCoversPending
      /\ [Next]_vars
      => \A t \in TxIds : ~Stranded(t) /\ Stranded(t)' =>
            \/ faults' # faults
            \/ \E w \in Workers : worker[w].tx = t /\ Disturbed(w, t)
  BY StrandedFrom
<1> QED
  BY <1>1, TypeCorrect, LockWorks, VersionWorks, PendingIsCovered, PTL DEF Spec, StrandedByCause

-----------------------------------------------------------------------------
(* Without deletions *)

\* Where nobody's wallet can be deleted, every wallet is its user's first.
FirstOrNone ==
    \A u \in Users :
        \/ ~wallets[u].exists /\ wallets[u].created_at = 0
        \/ wallets[u].exists /\ wallets[u].created_at = 1

\* Only DeleteWallet ends a wallet, so that without it none is made a second time.
LEMMA FirstOrNoneStep ==
    Deletable = {} /\ TypeOK /\ FirstOrNone /\ [Next]_vars => FirstOrNone'
<1> SUFFICES ASSUME Deletable = {}, TypeOK, FirstOrNone, [Next]_vars PROVE FirstOrNone'
  OBVIOUS
<1>p. TablesTypeOK /\ wallets \in [Users -> Wallet]
  BY PartsFromType DEF TablesTypeOK
<1>0. ASSUME UNCHANGED wallets PROVE FirstOrNone'
  BY <1>0 DEF FirstOrNone
<1>e. ASSUME \A u \in Users : /\ wallets'[u].exists = wallets[u].exists
                             /\ wallets'[u].created_at = wallets[u].created_at
      PROVE  FirstOrNone'
  BY <1>e DEF FirstOrNone
<1>m. ASSUME NEW t \in TxIds, NEW v, NEW x,
             ReserveFunds(t, v) \/ ReleaseFunds(t, v) \/ SettleTransfer(t, v, x)
      PROVE  FirstOrNone'
  <2> DEFINE a == terms[t].amount
  <2>0. a \in Int
    BY <1>p, TermsTyped
  <2>1. \A u \in Users :
            wallets'[u] \in {wallets[u], Reserve(wallets[u], a), Release(wallets[u], a),
                             Spend(wallets[u], a), Earn(wallets[u], a)}
    <3>1. CASE ReserveFunds(t, v)
      BY <1>p, <3>1 DEF ReserveFunds
    <3>2. CASE ReleaseFunds(t, v)
      BY <1>p, <3>2 DEF ReleaseFunds
    <3>3. CASE SettleTransfer(t, v, x)
      BY <1>p, <3>3 DEF SettleTransfer, CanSettle
    <3> QED BY <1>m, <3>1, <3>2, <3>3
  <2> HIDE DEF a
  <2>2. \A u \in Users : /\ wallets'[u].exists = wallets[u].exists
                         /\ wallets'[u].created_at = wallets[u].created_at
    <3> SUFFICES ASSUME NEW u \in Users
                 PROVE  /\ wallets'[u].exists = wallets[u].exists
                        /\ wallets'[u].created_at = wallets[u].created_at
      OBVIOUS
    <3>0. wallets[u] \in Wallet
      BY <1>p DEF TablesTypeOK
    <3>1. CASE wallets'[u] = wallets[u]
      BY <3>1
    <3>2. CASE wallets'[u] = Reserve(wallets[u], a)
      BY <2>0, <3>0, <3>2, ReserveWallet
    <3>3. CASE wallets'[u] = Release(wallets[u], a)
      BY <2>0, <3>0, <3>3, ReleaseWallet
    <3>4. CASE wallets'[u] = Spend(wallets[u], a)
      BY <2>0, <3>0, <3>4, SpendWallet
    <3>5. CASE wallets'[u] = Earn(wallets[u], a)
      BY <2>0, <3>0, <3>5, EarnWallet
    <3> QED BY <2>1, <3>1, <3>2, <3>3, <3>4, <3>5
  <2> QED BY <1>e, <2>2
<1>t. ASSUME NEW t \in TxIds, LockTransaction(t) \/ Age(t) \/ ExpireTransaction(t)
      PROVE  FirstOrNone'
  BY <1>0, <1>t DEF LockTransaction, Age, ExpireTransaction
<1>1. ASSUME NEW u \in Users, CreateWallet(u) PROVE FirstOrNone'
  <2>1. /\ ~wallets[u].exists /\ wallets'[u] = NewWallet(wallets[u].created_at + 1)
        /\ \A y \in Users \ {u} : wallets'[y] = wallets[y]
    BY <1>p, <1>1 DEF CreateWallet, PutWallet
  <2>2. wallets'[u].exists /\ wallets'[u].created_at = 1
    BY <2>1 DEF FirstOrNone, NewWallet
  <2> QED BY <2>1, <2>2 DEF FirstOrNone
<1>2. ASSUME NEW u \in Users, DeleteWallet(u) PROVE FirstOrNone'
  BY <1>2 DEF DeleteWallet
<1>3. ASSUME NEW t \in TxIds, ScheduleRead(t) PROVE FirstOrNone'
  BY <1>0, <1>3 DEF ScheduleRead, tables
<1>4. ASSUME NEW t \in TxIds, ScheduleWrite(t) PROVE FirstOrNone'
  BY <1>0, <1>m, <1>4 DEF ScheduleWrite, tables
<1>5. ASSUME NEW t \in TxIds, ScheduleSend(t) PROVE FirstOrNone'
  BY <1>0, <1>5 DEF ScheduleSend, tables
<1>6. ASSUME NEW t \in TxIds, ScheduleFails(t) PROVE FirstOrNone'
  BY <1>0, <1>6 DEF ScheduleFails, tables
<1>7. ASSUME NEW c \in Cancellers, NEW t \in TxIds, CancelRead(c, t) PROVE FirstOrNone'
  BY <1>0, <1>7 DEF CancelRead, tables
<1>8. ASSUME NEW c \in Cancellers, CancelReadWallet(c) PROVE FirstOrNone'
  BY <1>0, <1>8 DEF CancelReadWallet, tables
<1>9. ASSUME NEW c \in Cancellers, CancelWrite(c) PROVE FirstOrNone'
  <2>1. cancel[c].tx \in TxIds
    BY <1>9, PartsFromType DEF CancelWrite
  <2> QED BY <1>0, <1>m, <1>9, <2>1 DEF CancelWrite, tables
<1>10. ASSUME NEW c \in Cancellers, CancelFails(c) PROVE FirstOrNone'
  BY <1>0, <1>10 DEF CancelFails, tables
<1>11. ASSUME NEW w \in Workers, NEW t \in TxIds, Receive(w, t) PROVE FirstOrNone'
  BY <1>0, <1>11 DEF Receive, tables
<1>w. ASSUME NEW w \in Workers, worker[w].pc # "idle" PROVE worker[w].tx \in TxIds
  BY <1>w, PartsFromType
<1>12. ASSUME NEW w \in Workers, AcquireLock(w) PROVE FirstOrNone'
  BY <1>0, <1>t, <1>w, <1>12 DEF AcquireLock, tables
<1>13. ASSUME NEW w \in Workers, AcquireLockFails(w) PROVE FirstOrNone'
  BY <1>0, <1>t, <1>w, <1>13 DEF AcquireLockFails, tables
<1>14. ASSUME NEW w \in Workers, ReadSender(w) PROVE FirstOrNone'
  BY <1>0, <1>14 DEF ReadSender, tables
<1>15. ASSUME NEW w \in Workers, ReadReceiver(w) PROVE FirstOrNone'
  BY <1>0, <1>15 DEF ReadReceiver, tables
<1>16. ASSUME NEW w \in Workers, Settle(w) PROVE FirstOrNone'
  BY <1>0, <1>m, <1>w, <1>16 DEF Settle, tables
<1>17. ASSUME NEW w \in Workers, SettleFails(w) PROVE FirstOrNone'
  BY <1>0, <1>m, <1>w, <1>17 DEF SettleFails, tables
<1>18. ASSUME NEW w \in Workers, Notify(w) PROVE FirstOrNone'
  BY <1>0, <1>18 DEF Notify, tables
<1>19. ASSUME NEW w \in Workers, WorkerCrash(w) PROVE FirstOrNone'
  BY <1>0, <1>19 DEF WorkerCrash, tables
<1>20. ASSUME NEW t \in TxIds, DuplicateMessage(t) PROVE FirstOrNone'
  BY <1>0, <1>20 DEF DuplicateMessage, tables
<1>21. CASE Reconcile
  BY <1>0, <1>21 DEF Reconcile, ReconQuery, ReconCrash, ReconSend, ReconSendFails, tables
<1>22. ASSUME NEW t \in TxIds, GrowOld(t) PROVE FirstOrNone'
  BY <1>t, <1>22 DEF GrowOld
<1>23. ASSUME NEW t \in TxIds, Expire(t) PROVE FirstOrNone'
  BY <1>t, <1>23 DEF Expire
<1>24. CASE UNCHANGED vars
  BY <1>0, <1>24 DEF vars
<1>25. ASSUME NEW r \in Copies, NEW u \in Users, Replicate(r, u) PROVE FirstOrNone'
  BY <1>0, <1>25 DEF Replicate, tables
<1> QED
  BY <1>1, <1>2, <1>3, <1>4, <1>5, <1>6, <1>7, <1>8, <1>9, <1>10, <1>11, <1>12, <1>13,
     <1>14, <1>15, <1>16, <1>17, <1>18, <1>19, <1>20, <1>21, <1>22, <1>23, <1>24, <1>25, NextCases

\* Deletion is the only cause of the divergence the replaced run shows: where wallets are
\* not deleted, and do not expire, the reserved field of every wallet is what is pending.
THEOREM ReservedUnlessDeleted ==
    ASSUME Deletable = {}
    PROVE  Spec => []ReservedIsForPending
<1>1. Init => FirstOrNone
  <2> SUFFICES ASSUME Init, NEW u \in Users
               PROVE  \/ ~wallets[u].exists /\ wallets[u].created_at = 0
                      \/ wallets[u].exists /\ wallets[u].created_at = 1
    BY DEF FirstOrNone
  <2>1. wallets[u] = NewWallet(1) \/ wallets[u] = NoWallet(0)
    BY DEF Init, TablesInit
  <2> QED BY <2>1 DEF NewWallet, NoWallet
<1>2. TypeOK /\ FirstOrNone /\ [Next]_vars => FirstOrNone'
  BY FirstOrNoneStep
<1>3. FirstOrNone /\ ReservedMatchesPending => ReservedIsForPending
  BY DEF FirstOrNone, FirstWallet, ReservedMatchesPending, ReservedIsForPending
<1> QED BY <1>1, <1>2, <1>3, ReservedAddsUp, TypeCorrect, PTL DEF Spec

-----------------------------------------------------------------------------
(* Money is conserved *)

\* A step of the tables keeps the money, or makes or deletes one wallet.
MoneyStep ==
    \/ Money' = Money
    \/ \E u \in Users : /\ ~wallets[u].exists /\ wallets'[u].exists
                        /\ Money' = Money + SeedBalance
    \/ \E u \in Users : /\ wallets[u].exists /\ ~wallets'[u].exists
                        /\ Money' = Money - Worth(u)

WorthIsNumber == \A u \in Users : Worth(u) \in Int

\* The worth of a wallet is an integer.
LEMMA WorthTyped == TablesTypeOK => WorthIsNumber
BY DEF TablesTypeOK, Wallet, Worth, WorthIsNumber

\* All wallets together are worth a number.
LEMMA MoneyTyped == ASSUME TablesTypeOK PROVE Money \in Int
<1> DEFINE f == [u \in Users |-> Worth(u)]
<1>1. Money = SumFunctionOnSet(f, Users)
  BY Zenon DEF Money, SumFunction
<1>2. \A u \in Users : f[u] \in Int
  BY WorthTyped DEF WorthIsNumber
<1> HIDE DEF f
<1> QED BY <1>1, <1>2, SumTyped, BooksAssumption

\* Where no wallet's worth changes, neither does the sum.
LEMMA MoneyStays ==
    ASSUME \A u \in Users : Worth(u)' = Worth(u)
    PROVE  Money' = Money
<1> DEFINE f == [u \in Users |-> Worth(u)]
<1>1. f' = f
  OBVIOUS
<1>2. Money = SumFunction(f) /\ Money' = SumFunction(f')
  BY Zenon DEF Money
<1> HIDE DEF f
<1> QED BY <1>1, <1>2

\* Where one wallet's worth changes, the sum changes as much.
LEMMA MoneyFollows ==
    ASSUME TablesTypeOK, TablesTypeOK', NEW u \in Users,
           \A x \in Users \ {u} : Worth(x)' = Worth(x)
    PROVE  Money' = Money + (Worth(u)' - Worth(u))
<1> DEFINE f == [x \in Users |-> Worth(x)]
           g == [x \in Users |-> Worth(x)']
<1>1. Money = SumFunctionOnSet(f, Users) /\ Money' = SumFunctionOnSet(g, Users)
  BY Zenon DEF Money, SumFunction
<1>2. WorthIsNumber /\ WorthIsNumber'
  BY WorthTyped, PTL
<1>3. \A x \in Users : f[x] \in Int /\ g[x] \in Int
  BY <1>2 DEF WorthIsNumber
<1>4. /\ f[u] = Worth(u) /\ g[u] = Worth(u)'
      /\ \A x \in Users \ {u} : f[x] = g[x]
  OBVIOUS
<1> HIDE DEF f, g
<1>5. SumFunctionOnSet(g, Users) = SumFunctionOnSet(f, Users) + (g[u] - f[u])
  BY <1>3, <1>4, SumChanged, BooksAssumption
<1> QED BY <1>1, <1>4, <1>5

\* Where one wallet gains what another loses, the sum stays.
LEMMA MoneyPasses ==
    ASSUME TablesTypeOK, TablesTypeOK', NEW a \in Int, NEW u \in Users, NEW v \in Users, u # v,
           Worth(u)' = Worth(u) - a, Worth(v)' = Worth(v) + a,
           \A x \in Users \ {u, v} : Worth(x)' = Worth(x)
    PROVE  Money' = Money
<1> DEFINE f == [x \in Users |-> Worth(x)]
           h == [x \in Users |-> IF x = u THEN Worth(u) - a ELSE Worth(x)]
           g == [x \in Users |-> Worth(x)']
<1>1. Money = SumFunctionOnSet(f, Users) /\ Money' = SumFunctionOnSet(g, Users)
  BY Zenon DEF Money, SumFunction
<1>2. WorthIsNumber /\ WorthIsNumber'
  BY WorthTyped, PTL
<1>3. \A x \in Users : f[x] \in Int /\ g[x] \in Int /\ h[x] \in Int
  BY <1>2 DEF WorthIsNumber
<1>4. /\ h[u] = f[u] - a /\ \A x \in Users \ {u} : f[x] = h[x]
      /\ g[v] = h[v] + a /\ \A x \in Users \ {v} : h[x] = g[x]
  OBVIOUS
<1> HIDE DEF f, g, h
<1>5. SumFunctionOnSet(h, Users) = SumFunctionOnSet(f, Users) + (h[u] - f[u])
  BY <1>3, <1>4, SumChanged, BooksAssumption
<1>6. SumFunctionOnSet(g, Users) = SumFunctionOnSet(h, Users) + (g[v] - h[v])
  BY <1>3, <1>4, SumChanged, BooksAssumption
<1>7. SumFunctionOnSet(f, Users) \in Int
  BY <1>3, SumTyped, BooksAssumption
<1> QED BY <1>1, <1>3, <1>4, <1>5, <1>6, <1>7

\* CreateTransaction and CancelTransaction move money within a wallet, executeSettlement
\* from one wallet to another; the lock, ageing and expiry touch no wallet.
LEMMA EveryStepConserves ==
    TablesTypeOK /\ TablesTypeOK' /\ BooksInv /\ [TablesNext]_tables => MoneyStep
<1> SUFFICES ASSUME TablesTypeOK, TablesTypeOK', BooksInv, [TablesNext]_tables
             PROVE  MoneyStep
  OBVIOUS
<1>w. \A u \in Users : wallets[u].balance \in Int /\ wallets[u].reserved \in Int
  BY DEF TablesTypeOK, Wallet
<1>0. ASSUME \A u \in Users : Worth(u)' = Worth(u) PROVE MoneyStep
  BY <1>0, MoneyStays DEF MoneyStep
<1>1. ASSUME NEW a \in Users, PutWallet(a) PROVE MoneyStep
  <2>1. /\ ~wallets[a].exists /\ wallets'[a] = NewWallet(wallets[a].created_at + 1)
        /\ \A x \in Users \ {a} : wallets'[x] = wallets[x]
    BY <1>1 DEF PutWallet, TablesTypeOK
  <2>2. Worth(a)' = SeedBalance /\ wallets'[a].exists
    BY <2>1, SeedAssumption DEF Worth, NewWallet
  <2>3. Worth(a) = 0
    BY <2>1 DEF BooksInv, Absent
  <2>4. Money' = Money + (Worth(a)' - Worth(a))
    BY <2>1, MoneyFollows DEF Worth
  <2>5. Money' = Money + SeedBalance
    BY <2>2, <2>3, <2>4, SeedAssumption
  <2> QED BY <2>1, <2>2, <2>5 DEF MoneyStep
<1>2. ASSUME NEW a \in Users, RemoveWallet(a) PROVE MoneyStep
  <2>1. /\ wallets[a].exists /\ wallets'[a] = NoWallet(wallets[a].created_at)
        /\ \A x \in Users \ {a} : wallets'[x] = wallets[x]
    BY <1>2 DEF RemoveWallet, TablesTypeOK
  <2>2. Worth(a)' = 0 /\ ~wallets'[a].exists
    BY <2>1 DEF Worth, NoWallet
  <2>3. Money' = Money + (Worth(a)' - Worth(a))
    BY <2>1, MoneyFollows DEF Worth
  <2>4. Money \in Int /\ Worth(a) \in Int
    BY <1>w, MoneyTyped DEF Worth
  <2>5. Money' = Money - Worth(a)
    BY <2>2, <2>3, <2>4
  <2> QED BY <2>1, <2>2, <2>5 DEF MoneyStep
<1>3. ASSUME NEW t \in TxIds, NEW v \in Int, ReserveFunds(t, v) PROVE MoneyStep
  <2>1. \A u \in Users : Worth(u)' = Worth(u)
    BY <1>3, <1>w, ReserveEffect, TermsTyped DEF Worth
  <2> QED BY <1>0, <2>1
<1>4. ASSUME NEW t \in TxIds, LockTransaction(t) PROVE MoneyStep
  BY <1>0, <1>4 DEF LockTransaction, Worth
<1>5. ASSUME NEW t \in TxIds, NEW v \in Int, NEW x \in Int, SettleTransfer(t, v, x)
      PROVE MoneyStep
  <2>1. PICK p \in Users, q \in Users, a \in Int :
            terms[t].from = p /\ terms[t].to = q /\ terms[t].amount = a /\ p # q
    BY <1>5, TermsTyped DEF SettleTransfer, CanSettle
  <2>2. \A u \in Users : /\ wallets'[u].balance = wallets[u].balance + (IF u = q THEN a ELSE 0)
                         /\ wallets'[u].reserved = wallets[u].reserved - (IF u = p THEN a ELSE 0)
    BY <1>5, <2>1, SettleEffect
  <2>3. /\ Worth(p)' = Worth(p) - a /\ Worth(q)' = Worth(q) + a
        /\ \A u \in Users \ {p, q} : Worth(u)' = Worth(u)
    BY <1>w, <2>1, <2>2 DEF Worth
  <2> QED BY <2>1, <2>3, MoneyPasses DEF MoneyStep
<1>6. ASSUME NEW t \in TxIds, NEW v \in Int, ReleaseFunds(t, v) PROVE MoneyStep
  <2>1. \A u \in Users : Worth(u)' = Worth(u)
    BY <1>6, <1>w, ReleaseEffect, TermsTyped DEF Worth
  <2> QED BY <1>0, <2>1
<1>7. ASSUME NEW t \in TxIds, Age(t) PROVE MoneyStep
  BY <1>0, <1>7 DEF Age, Worth
<1>8. ASSUME NEW t \in TxIds, ExpireTransaction(t) PROVE MoneyStep
  BY <1>0, <1>8 DEF ExpireTransaction, Worth
<1>9. CASE UNCHANGED tables
  BY <1>0, <1>9 DEF tables, Worth
<1> QED BY <1>1, <1>2, <1>3, <1>4, <1>5, <1>6, <1>7, <1>8, <1>9, TablesNextCases

\* Money is neither made nor lost by transfers, only by making and deleting wallets.
THEOREM MoneyIsConserved == Spec => MoneyConserved
<1>1. TablesTypeOK /\ TablesTypeOK' /\ BooksInv /\ [TablesNext]_tables
        => \/ Money' = Money
           \/ \E u \in Users : /\ ~wallets[u].exists /\ wallets'[u].exists
                               /\ Money' = Money + SeedBalance
           \/ \E u \in Users : /\ wallets[u].exists /\ ~wallets'[u].exists
                               /\ Money' = Money - Worth(u)
  BY EveryStepConserves DEF MoneyStep
<1>2. TablesSpec => MoneyConserved
  BY <1>1, TablesBooks, TablesTypeCorrect, PTL DEF TablesSpec, MoneyConserved
<1> QED BY <1>2, SystemImplementsTables, PTL DEF ImplementsTables
=============================================================================
