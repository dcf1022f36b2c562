--------------------------- MODULE TablesProofs ---------------------------
(***************************************************************************)
(* What Tables keeps for every set of users, transactions and requests and *)
(* every number of wallet creations.                                       *)
(***************************************************************************)
EXTENDS Tables, TLAPS

\* A step of the tables is one write.  Proofs by cases on the write cite this.
LEMMA TablesNextCases ==
    ASSUME [TablesNext]_tables, NEW P,
           \A u \in Users : PutWallet(u) => P,
           \A u \in Users : RemoveWallet(u) => P,
           \A t \in TxIds, v \in Int : ReserveFunds(t, v) => P,
           \A t \in TxIds : LockTransaction(t) => P,
           \A t \in TxIds, v \in Int, x \in Int : SettleTransfer(t, v, x) => P,
           \A t \in TxIds, v \in Int : ReleaseFunds(t, v) => P,
           \A t \in TxIds : Age(t) => P,
           \A t \in TxIds : ExpireTransaction(t) => P,
           UNCHANGED tables => P,
           TablesTypeOK
    PROVE  P
<1>1. \A t \in TxIds : wallets[terms[t].from].version \in Int
                    /\ wallets[terms[t].to].version \in Int
  BY TermsAssumption DEF TablesTypeOK, Wallet
<1> QED BY <1>1 DEF TablesNext

\* The update expressions make wallets of wallets, and change the fields they name.
LEMMA ReserveWallet ==
    ASSUME NEW w \in Wallet, NEW a \in Int
    PROVE  /\ Reserve(w, a) \in Wallet
           /\ Reserve(w, a).exists = w.exists
           /\ Reserve(w, a).balance = w.balance - a
           /\ Reserve(w, a).reserved = w.reserved + a
           /\ Reserve(w, a).version = w.version + 1
           /\ Reserve(w, a).created_at = w.created_at
<1>1. w.balance - a \in Int /\ w.reserved + a \in Int /\ w.version + 1 \in Nat
  BY DEF Wallet
<1>2. Reserve(w, a) = [w EXCEPT !.balance = w.balance - a, !.reserved = w.reserved + a, !.version = w.version + 1]
  BY DEF Reserve
<1>3. Reserve(w, a) \in Wallet
  BY <1>1, <1>2, Zenon DEF Wallet
<1>4. /\ Reserve(w, a).exists = w.exists
      /\ Reserve(w, a).created_at = w.created_at
  BY <1>2 DEF Wallet
<1>5. /\ Reserve(w, a).balance = w.balance - a
      /\ Reserve(w, a).reserved = w.reserved + a
      /\ Reserve(w, a).version = w.version + 1
  BY <1>2 DEF Wallet
<1> QED BY <1>3, <1>4, <1>5

\* What CancelTransaction makes of the sender's wallet.
LEMMA ReleaseWallet ==
    ASSUME NEW w \in Wallet, NEW a \in Int
    PROVE  /\ Release(w, a) \in Wallet
           /\ Release(w, a).exists = w.exists
           /\ Release(w, a).balance = w.balance + a
           /\ Release(w, a).reserved = w.reserved - a
           /\ Release(w, a).version = w.version + 1
           /\ Release(w, a).created_at = w.created_at
<1>1. w.balance + a \in Int /\ w.reserved - a \in Int /\ w.version + 1 \in Nat
  BY DEF Wallet
<1>2. Release(w, a) = [w EXCEPT !.balance = w.balance + a, !.reserved = w.reserved - a, !.version = w.version + 1]
  BY DEF Release
<1>3. Release(w, a) \in Wallet
  BY <1>1, <1>2, Zenon DEF Wallet
<1>4. /\ Release(w, a).exists = w.exists
      /\ Release(w, a).created_at = w.created_at
  BY <1>2 DEF Wallet
<1>5. /\ Release(w, a).balance = w.balance + a
      /\ Release(w, a).reserved = w.reserved - a
      /\ Release(w, a).version = w.version + 1
  BY <1>2 DEF Wallet
<1> QED BY <1>3, <1>4, <1>5

\* What executeSettlement makes of the sender's wallet.
LEMMA SpendWallet ==
    ASSUME NEW w \in Wallet, NEW a \in Int
    PROVE  /\ Spend(w, a) \in Wallet
           /\ Spend(w, a).exists = w.exists
           /\ Spend(w, a).balance = w.balance
           /\ Spend(w, a).reserved = w.reserved - a
           /\ Spend(w, a).version = w.version + 1
           /\ Spend(w, a).created_at = w.created_at
<1>1. w.reserved - a \in Int /\ w.version + 1 \in Nat
  BY DEF Wallet
<1>2. Spend(w, a) = [w EXCEPT !.reserved = w.reserved - a, !.version = w.version + 1]
  BY DEF Spend
<1>3. Spend(w, a) \in Wallet
  BY <1>1, <1>2, Zenon DEF Wallet
<1>4. /\ Spend(w, a).exists = w.exists
      /\ Spend(w, a).created_at = w.created_at
  BY <1>2 DEF Wallet
<1>5. /\ Spend(w, a).balance = w.balance
      /\ Spend(w, a).reserved = w.reserved - a
      /\ Spend(w, a).version = w.version + 1
  BY <1>2 DEF Wallet
<1> QED BY <1>3, <1>4, <1>5

\* What executeSettlement makes of the receiver's wallet.
LEMMA EarnWallet ==
    ASSUME NEW w \in Wallet, NEW a \in Int
    PROVE  /\ Earn(w, a) \in Wallet
           /\ Earn(w, a).exists = w.exists
           /\ Earn(w, a).balance = w.balance + a
           /\ Earn(w, a).reserved = w.reserved
           /\ Earn(w, a).version = w.version + 1
           /\ Earn(w, a).created_at = w.created_at
<1>1. w.balance + a \in Int /\ w.version + 1 \in Nat
  BY DEF Wallet
<1>2. Earn(w, a) = [w EXCEPT !.balance = w.balance + a, !.version = w.version + 1]
  BY DEF Earn
<1>3. Earn(w, a) \in Wallet
  BY <1>1, <1>2, Zenon DEF Wallet
<1>4. /\ Earn(w, a).exists = w.exists
      /\ Earn(w, a).created_at = w.created_at
  BY <1>2 DEF Wallet
<1>5. /\ Earn(w, a).balance = w.balance + a
      /\ Earn(w, a).reserved = w.reserved
      /\ Earn(w, a).version = w.version + 1
  BY <1>2 DEF Wallet
<1> QED BY <1>3, <1>4, <1>5

\* A typed request names two users and an amount of either sign.
LEMMA TermsTyped ==
    ASSUME TablesTypeOK, NEW t \in TxIds
    PROVE  /\ terms[t].from \in Users /\ terms[t].to \in Users
           /\ terms[t].amount \in Int
           /\ wallets[terms[t].from] \in Wallet /\ wallets[terms[t].to] \in Wallet
BY TermsAssumption DEF TablesTypeOK

\* The tables are well typed: each write puts an item of the right shape.
LEMMA TablesTypeStep == TablesTypeOK /\ [TablesNext]_tables => TablesTypeOK'
<1> SUFFICES ASSUME TablesTypeOK, [TablesNext]_tables PROVE TablesTypeOK'
  OBVIOUS
<1>1. ASSUME NEW u \in Users, PutWallet(u) PROVE TablesTypeOK'
  BY <1>1, SeedAssumption DEF TablesTypeOK, PutWallet, NewWallet, Wallet
<1>2. ASSUME NEW u \in Users, RemoveWallet(u) PROVE TablesTypeOK'
  BY <1>2 DEF TablesTypeOK, RemoveWallet, NoWallet, Wallet
<1>3. ASSUME NEW t \in TxIds, NEW v \in Int, ReserveFunds(t, v) PROVE TablesTypeOK'
  <2>1. Reserve(wallets[terms[t].from], terms[t].amount) \in Wallet
    BY TermsTyped, ReserveWallet DEF TablesTypeOK
  <2>2. wallets' \in [Users -> Wallet]
    BY <1>3, <2>1 DEF TablesTypeOK, ReserveFunds
  <2>3. transactions' \in [TxIds -> Transaction]
    BY <1>3 DEF TablesTypeOK, ReserveFunds, Transaction
  <2> QED BY <1>3, <2>2, <2>3 DEF TablesTypeOK, ReserveFunds
<1>4. ASSUME NEW t \in TxIds, LockTransaction(t) PROVE TablesTypeOK'
  BY <1>4 DEF TablesTypeOK, LockTransaction, Transaction
<1>5. ASSUME NEW t \in TxIds, NEW v \in Int, NEW x \in Int, SettleTransfer(t, v, x)
      PROVE TablesTypeOK'
  <2>0. /\ wallets[terms[t].from] \in Wallet /\ wallets[terms[t].to] \in Wallet
        /\ terms[t].amount \in Int
    BY TermsTyped
  <2>1. /\ Spend(wallets[terms[t].from], terms[t].amount) \in Wallet
        /\ Earn(wallets[terms[t].to], terms[t].amount) \in Wallet
    <3>1. Spend(wallets[terms[t].from], terms[t].amount) \in Wallet
      BY <2>0, SpendWallet
    <3>2. Earn(wallets[terms[t].to], terms[t].amount) \in Wallet
      BY <2>0, EarnWallet
    <3> QED BY <3>1, <3>2
  <2>2. wallets' \in [Users -> Wallet]
    BY <1>5, <2>1 DEF TablesTypeOK, SettleTransfer
  <2>3. transactions' \in [TxIds -> Transaction]
    BY <1>5 DEF TablesTypeOK, SettleTransfer, Transaction
  <2>4. ledger' \in [TxIds -> [Users -> [debit : Int, credit : Int]]]
    <3>1. PostEntries(ledger[t], terms[t]) \in [Users -> [debit : Int, credit : Int]]
      BY TermsTyped DEF TablesTypeOK, PostEntries
    <3> QED BY <1>5, <3>1 DEF TablesTypeOK, SettleTransfer
  <2> QED BY <1>5, <2>2, <2>3, <2>4 DEF TablesTypeOK, SettleTransfer
<1>6. ASSUME NEW t \in TxIds, NEW v \in Int, ReleaseFunds(t, v) PROVE TablesTypeOK'
  <2>1. Release(wallets[terms[t].from], terms[t].amount) \in Wallet
    BY TermsTyped, ReleaseWallet DEF TablesTypeOK
  <2>2. wallets' \in [Users -> Wallet]
    BY <1>6, <2>1 DEF TablesTypeOK, ReleaseFunds
  <2>3. transactions' \in [TxIds -> Transaction]
    BY <1>6 DEF TablesTypeOK, ReleaseFunds, Transaction
  <2> QED BY <1>6, <2>2, <2>3 DEF TablesTypeOK, ReleaseFunds
<1>7. ASSUME NEW t \in TxIds, Age(t) PROVE TablesTypeOK'
  BY <1>7 DEF TablesTypeOK, Age, Transaction
<1>8. ASSUME NEW t \in TxIds, ExpireTransaction(t) PROVE TablesTypeOK'
  BY <1>8 DEF TablesTypeOK, ExpireTransaction, Transaction
<1>9. CASE UNCHANGED tables
  BY <1>9 DEF TablesTypeOK, tables
<1> QED BY <1>1, <1>2, <1>3, <1>4, <1>5, <1>6, <1>7, <1>8, <1>9, TablesNextCases

\* The tables start well typed.
LEMMA TablesTypeInit == TablesInit => TablesTypeOK
<1> SUFFICES ASSUME TablesInit PROVE TablesTypeOK
  OBVIOUS
<1>1. \A u \in Users : NewWallet(1) \in Wallet /\ NoWallet(0) \in Wallet
  BY SeedAssumption DEF NewWallet, NoWallet, Wallet
<1>2. wallets \in [Users -> Wallet]
  BY <1>1 DEF TablesInit
<1>3. transactions \in [TxIds -> Transaction]
  BY DEF TablesInit, NoTransaction, Transaction
<1>4. ledger \in [TxIds -> [Users -> [debit : Int, credit : Int]]]
  BY DEF TablesInit, NoEntries
<1> QED BY <1>2, <1>3, <1>4 DEF TablesInit, TablesTypeOK

\* In every state the tables have the items the code reads and writes.
THEOREM TablesTypeCorrect == TablesSpec => []TablesTypeOK
BY TablesTypeInit, TablesTypeStep, PTL DEF TablesSpec

-----------------------------------------------------------------------------
(* What the three writes that move money do to the wallet of any user *)

\* CreateTransaction, in terms of each wallet's balance and each item.
LEMMA ReserveEffect ==
    ASSUME TablesTypeOK, NEW t \in TxIds, NEW v \in Int, ReserveFunds(t, v), NEW u \in Users
    PROVE  /\ wallets'[u].exists = wallets[u].exists
           /\ wallets'[u].balance = wallets[u].balance
                - (IF u = terms[t].from THEN terms[t].amount ELSE 0)
           /\ wallets'[u].reserved = wallets[u].reserved
                + (IF u = terms[t].from THEN terms[t].amount ELSE 0)
<1>1. wallets[u] \in Wallet
  BY DEF TablesTypeOK
<1>2. wallets'[u] = IF u = terms[t].from THEN Reserve(wallets[u], terms[t].amount)
                                         ELSE wallets[u]
  BY TermsTyped DEF ReserveFunds, TablesTypeOK
<1>3. CASE u = terms[t].from
  <2>1. wallets'[u] = Reserve(wallets[u], terms[t].amount) /\ terms[t].amount \in Int
    BY <1>2, <1>3, TermsTyped
  <2>2. /\ wallets'[u].exists = wallets[u].exists
        /\ wallets'[u].balance = wallets[u].balance - terms[t].amount
        /\ wallets'[u].reserved = wallets[u].reserved + terms[t].amount
    BY <1>1, <2>1, ReserveWallet
  <2> QED BY <1>3, <2>2
<1>4. CASE u # terms[t].from
  BY <1>1, <1>2, <1>4 DEF Wallet
<1> QED BY <1>3, <1>4

\* CancelTransaction, in the same terms.
LEMMA ReleaseEffect ==
    ASSUME TablesTypeOK, NEW t \in TxIds, NEW v \in Int, ReleaseFunds(t, v), NEW u \in Users
    PROVE  /\ wallets'[u].exists = wallets[u].exists
           /\ wallets'[u].balance = wallets[u].balance
                + (IF u = terms[t].from THEN terms[t].amount ELSE 0)
           /\ wallets'[u].reserved = wallets[u].reserved
                - (IF u = terms[t].from THEN terms[t].amount ELSE 0)
<1>1. wallets[u] \in Wallet
  BY DEF TablesTypeOK
<1>2. wallets'[u] = IF u = terms[t].from THEN Release(wallets[u], terms[t].amount)
                                         ELSE wallets[u]
  BY TermsTyped DEF ReleaseFunds, TablesTypeOK
<1>3. CASE u = terms[t].from
  <2>1. wallets'[u] = Release(wallets[u], terms[t].amount) /\ terms[t].amount \in Int
    BY <1>2, <1>3, TermsTyped
  <2>2. /\ wallets'[u].exists = wallets[u].exists
        /\ wallets'[u].balance = wallets[u].balance + terms[t].amount
        /\ wallets'[u].reserved = wallets[u].reserved - terms[t].amount
    BY <1>1, <2>1, ReleaseWallet
  <2> QED BY <1>3, <2>2
<1>4. CASE u # terms[t].from
  BY <1>1, <1>2, <1>4 DEF Wallet
<1> QED BY <1>3, <1>4

\* executeSettlement, in the same terms.
LEMMA SettleEffect ==
    ASSUME TablesTypeOK, NEW t \in TxIds, NEW v \in Int, NEW x \in Int,
           SettleTransfer(t, v, x), NEW u \in Users
    PROVE  /\ wallets'[u].exists = wallets[u].exists
           /\ wallets'[u].balance = wallets[u].balance
                + (IF u = terms[t].to THEN terms[t].amount ELSE 0)
           /\ wallets'[u].reserved = wallets[u].reserved
                - (IF u = terms[t].from THEN terms[t].amount ELSE 0)
<1>1. wallets[u] \in Wallet /\ terms[t].from # terms[t].to
  BY DEF TablesTypeOK, SettleTransfer, CanSettle
<1>2. wallets'[u] = IF u = terms[t].to THEN Earn(wallets[u], terms[t].amount)
                    ELSE IF u = terms[t].from THEN Spend(wallets[u], terms[t].amount)
                    ELSE wallets[u]
  BY <1>1, TermsTyped DEF SettleTransfer, TablesTypeOK
<1>3. CASE u = terms[t].to
  <2>1. wallets'[u] = Earn(wallets[u], terms[t].amount) /\ terms[t].amount \in Int
    BY <1>2, <1>3, TermsTyped
  <2>2. /\ wallets'[u].exists = wallets[u].exists
        /\ wallets'[u].balance = wallets[u].balance + terms[t].amount
        /\ wallets'[u].reserved = wallets[u].reserved
    BY <1>1, <2>1, EarnWallet
  <2> QED BY <1>1, <1>3, <2>2 DEF Wallet
<1>4. CASE u = terms[t].from
  <2>1. wallets'[u] = Spend(wallets[u], terms[t].amount) /\ terms[t].amount \in Int
    BY <1>1, <1>2, <1>4, TermsTyped
  <2>2. /\ wallets'[u].exists = wallets[u].exists
        /\ wallets'[u].balance = wallets[u].balance
        /\ wallets'[u].reserved = wallets[u].reserved - terms[t].amount
    BY <1>1, <2>1, SpendWallet
  <2> QED BY <1>1, <1>4, <2>2 DEF Wallet
<1>5. CASE u # terms[t].from /\ u # terms[t].to
  BY <1>1, <1>2, <1>5 DEF Wallet
<1> QED BY <1>3, <1>4, <1>5

-----------------------------------------------------------------------------
(* No overdraft *)

\* Only CreateTransaction takes a positive amount from a balance, and its condition leaves
\* the rest; what a settlement or a cancellation adds is negative only if the amount is.
LEMMA BalancesStep ==
    TablesTypeOK /\ OverdrawnByNegative /\ [TablesNext]_tables => OverdrawnByNegative'
<1> SUFFICES ASSUME TablesTypeOK, OverdrawnByNegative, [TablesNext]_tables
             PROVE  OverdrawnByNegative'
  OBVIOUS
<1>w. /\ \A u \in Users : wallets[u].balance \in Int
      /\ transactions \in [TxIds -> Transaction]
  BY DEF TablesTypeOK, Wallet
<1>b. ASSUME terms' = terms,
             \A t \in TxIds : transactions[t].status # "NONE" => transactions'[t].status # "NONE",
             \A u \in Users : wallets'[u].balance < 0
                                => wallets[u].balance < 0 \/ InNegative(u)'
      PROVE  OverdrawnByNegative'
  BY <1>b DEF OverdrawnByNegative, InNegative
<1>k. ASSUME UNCHANGED <<wallets, terms>>,
             \A t \in TxIds : transactions[t].status # "NONE" => transactions'[t].status # "NONE"
      PROVE  OverdrawnByNegative'
  BY <1>b, <1>k
<1>n. ASSUME NEW t \in TxIds, NEW u \in Users, terms' = terms, transactions'[t].status # "NONE",
             terms[t].amount < 0, u \in {terms[t].from, terms[t].to}
      PROVE  InNegative(u)'
  BY <1>n DEF InNegative
<1>1. ASSUME NEW u \in Users, PutWallet(u) PROVE OverdrawnByNegative'
  <2>1. \A x \in Users : wallets'[x] = wallets[x] \/ wallets'[x].balance = SeedBalance
    BY <1>1 DEF PutWallet, NewWallet, TablesTypeOK
  <2>2. \A x \in Users : wallets'[x].balance < 0 => wallets[x].balance < 0
    BY <1>w, <2>1, SeedAssumption
  <2> QED BY <1>1, <1>b, <2>2 DEF PutWallet
<1>2. ASSUME NEW u \in Users, RemoveWallet(u) PROVE OverdrawnByNegative'
  <2>1. \A x \in Users : wallets'[x] = wallets[x] \/ wallets'[x].balance = 0
    BY <1>2 DEF RemoveWallet, NoWallet, TablesTypeOK
  <2>2. \A x \in Users : wallets'[x].balance < 0 => wallets[x].balance < 0
    BY <1>w, <2>1
  <2> QED BY <1>2, <1>b, <2>2 DEF RemoveWallet
<1>3. ASSUME NEW t \in TxIds, NEW v \in Int, ReserveFunds(t, v) PROVE OverdrawnByNegative'
  <2>1. wallets[terms[t].from].balance >= terms[t].amount
    BY <1>3 DEF ReserveFunds, CanReserve
  <2>2. \A u \in Users : wallets'[u].balance < 0 => wallets[u].balance < 0
    BY <1>3, <1>w, <2>1, TermsTyped, ReserveEffect
  <2>3. terms' = terms /\ \A s \in TxIds : transactions[s].status # "NONE"
                                            => transactions'[s].status # "NONE"
    BY <1>3, <1>w DEF ReserveFunds
  <2> QED BY <1>b, <2>2, <2>3
<1>4. ASSUME NEW t \in TxIds, LockTransaction(t) PROVE OverdrawnByNegative'
  BY <1>4, <1>k, <1>w DEF LockTransaction, Transaction
<1>5. ASSUME NEW t \in TxIds, NEW v \in Int, NEW x \in Int, SettleTransfer(t, v, x)
      PROVE OverdrawnByNegative'
  <2>1. /\ terms' = terms /\ transactions'[t].status = "COMPLETED"
        /\ \A s \in TxIds \ {t} : transactions'[s] = transactions[s]
    BY <1>5, <1>w DEF SettleTransfer, Transaction
  <2>2. ASSUME NEW u \in Users, wallets'[u].balance < 0
        PROVE  wallets[u].balance < 0 \/ InNegative(u)'
    <3>1. wallets[u].balance < 0 \/ (u = terms[t].to /\ terms[t].amount < 0)
      BY <1>5, <1>w, <2>2, TermsTyped, SettleEffect
    <3> QED BY <1>n, <2>1, <3>1
  <2> QED BY <1>b, <2>1, <2>2
<1>6. ASSUME NEW t \in TxIds, NEW v \in Int, ReleaseFunds(t, v) PROVE OverdrawnByNegative'
  <2>1. /\ terms' = terms /\ transactions'[t].status = "CANCELLED"
        /\ \A s \in TxIds \ {t} : transactions'[s] = transactions[s]
    BY <1>6, <1>w DEF ReleaseFunds, Transaction
  <2>2. ASSUME NEW u \in Users, wallets'[u].balance < 0
        PROVE  wallets[u].balance < 0 \/ InNegative(u)'
    <3>1. wallets[u].balance < 0 \/ (u = terms[t].from /\ terms[t].amount < 0)
      BY <1>6, <1>w, <2>2, TermsTyped, ReleaseEffect
    <3> QED BY <1>n, <2>1, <3>1
  <2> QED BY <1>b, <2>1, <2>2
<1>7. ASSUME NEW t \in TxIds, Age(t) PROVE OverdrawnByNegative'
  BY <1>7, <1>k, <1>w DEF Age, Transaction
<1>8. ASSUME NEW t \in TxIds, ExpireTransaction(t) PROVE OverdrawnByNegative'
  BY <1>8, <1>k, <1>w DEF ExpireTransaction, Transaction
<1>9. CASE UNCHANGED tables
  BY <1>9, <1>k DEF tables
<1> QED BY <1>1, <1>2, <1>3, <1>4, <1>5, <1>6, <1>7, <1>8, <1>9, TablesNextCases

\* The items the tables start with.
LEMMA FirstItems ==
    /\ NewWallet(1).exists = TRUE /\ NewWallet(1).balance = SeedBalance
    /\ NoWallet(0).exists = FALSE /\ NoWallet(0).balance = 0
BY DEF NewWallet, NoWallet

\* No wallet is ever overdrawn, unless its user has sent or been sent a negative amount.
THEOREM NoOverdraft == TablesSpec => []OverdrawnByNegative
<1>1. TablesInit => OverdrawnByNegative
  <2>1. ASSUME TablesInit, NEW u \in Users PROVE ~(wallets[u].balance < 0)
    <3>1. wallets[u] = NewWallet(1) \/ wallets[u] = NoWallet(0)
      BY <2>1 DEF TablesInit
    <3> QED BY <3>1, SeedAssumption, FirstItems
  <2> QED BY <2>1, ZenonT(30) DEF OverdrawnByNegative
<1> QED BY <1>1, BalancesStep, TablesTypeCorrect, PTL DEF TablesSpec

-----------------------------------------------------------------------------
(* One posting per completed transaction *)

\* The lock makes the posting unique: executeSettlement posts from WORKING only,
\* when nothing has been posted, and leaves COMPLETED, which no write leaves.
LEMMA PostedStep ==
    TablesTypeOK /\ PostedOnceCompleted /\ [TablesNext]_tables => PostedOnceCompleted'
<1> SUFFICES ASSUME TablesTypeOK, PostedOnceCompleted, [TablesNext]_tables
             PROVE  PostedOnceCompleted'
  OBVIOUS
<1>0. ASSUME UNCHANGED <<ledger, terms>>,
             \A t \in TxIds : transactions'[t].status = "COMPLETED"
                                <=> transactions[t].status = "COMPLETED"
      PROVE  PostedOnceCompleted'
  BY <1>0 DEF PostedOnceCompleted, Posting
<1>1. ASSUME NEW u \in Users, PutWallet(u) PROVE PostedOnceCompleted'
  BY <1>0, <1>1 DEF PutWallet
<1>2. ASSUME NEW u \in Users, RemoveWallet(u) PROVE PostedOnceCompleted'
  BY <1>0, <1>2 DEF RemoveWallet
<1>3. ASSUME NEW t \in TxIds, NEW v \in Int, ReserveFunds(t, v) PROVE PostedOnceCompleted'
  BY <1>0, <1>3 DEF ReserveFunds, TablesTypeOK
<1>4. ASSUME NEW t \in TxIds, LockTransaction(t) PROVE PostedOnceCompleted'
  BY <1>0, <1>4 DEF LockTransaction, CanLock, TablesTypeOK, Transaction
<1>5. ASSUME NEW t \in TxIds, NEW v \in Int, NEW x \in Int, SettleTransfer(t, v, x)
      PROVE PostedOnceCompleted'
  <2>1. ledger[t] = NoEntries
    BY <1>5 DEF PostedOnceCompleted, SettleTransfer, CanSettle
  <2>2. PostEntries(NoEntries, terms[t]) = Posting(t)
    BY TermsTyped DEF PostEntries, NoEntries, Posting
  <2>3. ledger'[t] = Posting(t) /\ transactions'[t].status = "COMPLETED" /\ terms' = terms
    BY <1>5, <2>1, <2>2 DEF SettleTransfer, TablesTypeOK, Transaction
  <2>4. \A s \in TxIds \ {t} : ledger'[s] = ledger[s] /\ transactions'[s] = transactions[s]
    BY <1>5 DEF SettleTransfer, TablesTypeOK
  <2> QED BY <2>3, <2>4 DEF PostedOnceCompleted, Posting
<1>6. ASSUME NEW t \in TxIds, NEW v \in Int, ReleaseFunds(t, v) PROVE PostedOnceCompleted'
  BY <1>0, <1>6 DEF ReleaseFunds, CanRelease, TablesTypeOK, Transaction
<1>7. ASSUME NEW t \in TxIds, Age(t) PROVE PostedOnceCompleted'
  BY <1>0, <1>7 DEF Age, TablesTypeOK, Transaction
<1>8. ASSUME NEW t \in TxIds, ExpireTransaction(t) PROVE PostedOnceCompleted'
  BY <1>0, <1>8 DEF ExpireTransaction, TablesTypeOK, Transaction
<1>9. CASE UNCHANGED tables
  BY <1>0, <1>9 DEF tables
<1> QED BY <1>1, <1>2, <1>3, <1>4, <1>5, <1>6, <1>7, <1>8, <1>9, TablesNextCases

\* README.md: "even if the same settlement message is processed multiple times [...]
\* the funds will only be moved once".
THEOREM PostedOnce == TablesSpec => []PostedOnceCompleted
<1>1. TablesInit => PostedOnceCompleted
  BY DEF TablesInit, PostedOnceCompleted, NoTransaction
<1> QED BY <1>1, PostedStep, TablesTypeCorrect, PTL DEF TablesSpec

-----------------------------------------------------------------------------
(* Double entry *)

\* Amounts held and posted are numbers.
LEMMA BooksTyped ==
    ASSUME TablesTypeOK, NEW t \in TxIds, NEW u \in Users
    PROVE  HeldOf(t, u) \in Int /\ NetOf(t, u) \in Int
<1>1. HeldOf(t, u) \in Int
  BY TermsTyped DEF HeldOf
<1>2. ledger[t][u] \in [debit : Int, credit : Int]
  BY DEF TablesTypeOK
<1> QED BY <1>1, <1>2 DEF NetOf

\* A write that leaves the item and the entries of s alone leaves its books alone.
LEMMA BooksKept ==
    ASSUME NEW s \in TxIds, NEW u \in Users, terms' = terms,
           Pending(s)' <=> Pending(s), ledger'[s] = ledger[s]
    PROVE  HeldStays(s, u)
BY DEF HeldStays, HeldOf, NetOf

\* A write to transactions without money in it moves none.
LEMMA NothingMoves ==
    ASSUME TablesTypeOK, NEW u \in Users, UNCHANGED <<ledger, terms>>,
           wallets'[u] = wallets[u],
           \A s \in TxIds : Pending(s)' <=> Pending(s)
    PROVE  BooksStep(u)
<1>1. wallets[u].balance \in Int /\ wallets[u].reserved \in Int
  BY DEF TablesTypeOK, Wallet
<1>2. WalletChanges(u, 0, 0)
  BY <1>1 DEF WalletChanges
<1>3. \A s \in TxIds : HeldStays(s, u)
  BY BooksKept
<1> QED BY <1>2, <1>3 DEF BooksStep

\* A write to the item and the entries of t only.
LEMMA OthersKept ==
    ASSUME TablesTypeOK, NEW t \in TxIds, NEW u \in Users, terms' = terms,
           \A s \in TxIds \ {t} : transactions'[s] = transactions[s] /\ ledger'[s] = ledger[s]
    PROVE  \A s \in TxIds \ {t} : HeldStays(s, u)
BY DEF HeldStays, HeldOf, NetOf, Pending

\* Each of the three writes that move money does so for its transaction alone.
LEMMA MoneyMoves ==
    ASSUME TablesTypeOK, NEW t \in TxIds, NEW u \in Users,
           NEW v \in Int, NEW x \in Int,
           ReserveFunds(t, v) \/ ReleaseFunds(t, v) \/ SettleTransfer(t, v, x)
    PROVE  BooksStep(u)
<1> DEFINE a == terms[t].amount
           sent == IF u = terms[t].from THEN a ELSE 0
           got == IF u = terms[t].to THEN a ELSE 0
<1>1. /\ a \in Int /\ terms' = terms
      /\ wallets[u].balance \in Int /\ wallets[u].reserved \in Int
      /\ ledger[t][u].credit \in Int /\ ledger[t][u].debit \in Int
  <2>1. wallets[u] \in Wallet /\ ledger[t][u] \in [debit : Int, credit : Int]
    BY DEF TablesTypeOK
  <2>2. terms' = terms
    BY DEF ReserveFunds, ReleaseFunds, SettleTransfer
  <2> QED BY <2>1, <2>2, TermsTyped DEF Wallet
<1>2. \A s \in TxIds \ {t} : HeldStays(s, u)
  <2>1. \A s \in TxIds \ {t} : transactions'[s] = transactions[s] /\ ledger'[s] = ledger[s]
    BY DEF TablesTypeOK, ReserveFunds, ReleaseFunds, SettleTransfer
  <2> QED BY <1>1, <2>1, OthersKept
<1>3. CASE ReserveFunds(t, v)
  <2>1. HeldOf(t, u) = 0 /\ HeldOf(t, u)' = sent
    BY <1>1, <1>3 DEF ReserveFunds, HeldOf, Pending, TablesTypeOK
  <2>2. NetOf(t, u)' = NetOf(t, u)
    BY <1>3 DEF ReserveFunds, NetOf
  <2>3. /\ wallets'[u].balance = wallets[u].balance - sent
        /\ wallets'[u].reserved = wallets[u].reserved + sent
    BY <1>3, ReserveEffect
  <2>4. WalletChanges(u, HeldOf(t, u)' - HeldOf(t, u), NetOf(t, u)' - NetOf(t, u))
    BY <1>1, <2>1, <2>2, <2>3, BooksTyped DEF WalletChanges
  <2> QED BY <1>2, <2>4 DEF BooksStep
<1>4. CASE ReleaseFunds(t, v)
  <2>1. HeldOf(t, u) = sent /\ HeldOf(t, u)' = 0
    BY <1>1, <1>4 DEF ReleaseFunds, CanRelease, HeldOf, Pending, TablesTypeOK, Transaction
  <2>2. NetOf(t, u)' = NetOf(t, u)
    BY <1>4 DEF ReleaseFunds, NetOf
  <2>3. /\ wallets'[u].balance = wallets[u].balance + sent
        /\ wallets'[u].reserved = wallets[u].reserved - sent
    BY <1>4, ReleaseEffect
  <2>4. WalletChanges(u, HeldOf(t, u)' - HeldOf(t, u), NetOf(t, u)' - NetOf(t, u))
    BY <1>1, <2>1, <2>2, <2>3, BooksTyped DEF WalletChanges
  <2> QED BY <1>2, <2>4 DEF BooksStep
<1>5. CASE SettleTransfer(t, v, x)
  <2>1. HeldOf(t, u) = sent /\ HeldOf(t, u)' = 0
    BY <1>1, <1>5 DEF SettleTransfer, CanSettle, HeldOf, Pending, TablesTypeOK, Transaction
  <2>2. NetOf(t, u)' = NetOf(t, u) + got - sent
    <3>1. ledger'[t][u] = [debit |-> ledger[t][u].debit + sent,
                           credit |-> ledger[t][u].credit + got]
      BY <1>5 DEF SettleTransfer, PostEntries, TablesTypeOK
    <3> QED BY <1>1, <3>1 DEF NetOf
  <2>3. /\ wallets'[u].balance = wallets[u].balance + got
        /\ wallets'[u].reserved = wallets[u].reserved - sent
    BY <1>5, SettleEffect
  <2>4. WalletChanges(u, HeldOf(t, u)' - HeldOf(t, u), NetOf(t, u)' - NetOf(t, u))
    BY <1>1, <2>1, <2>2, <2>3, BooksTyped DEF WalletChanges
  <2> QED BY <1>2, <2>4 DEF BooksStep
<1> QED BY <1>3, <1>4, <1>5

\* Every write is double entry: creations and deletions begin and end a wallet, the lock,
\* ageing and expiry leave pending what was pending.
LEMMA EveryStepBooks ==
    ASSUME TablesTypeOK, [TablesNext]_tables, NEW u \in Users, WalletStays(u)
    PROVE  BooksStep(u)
<1>1. ASSUME NEW y \in Users, PutWallet(y) PROVE BooksStep(u)
  <2>1. wallets'[u] = wallets[u]
    BY <1>1 DEF PutWallet, WalletStays, TablesTypeOK
  <2> QED BY <1>1, <2>1, NothingMoves DEF PutWallet, Pending
<1>2. ASSUME NEW y \in Users, RemoveWallet(y) PROVE BooksStep(u)
  <2>1. wallets'[u] = wallets[u]
    BY <1>2 DEF RemoveWallet, NoWallet, WalletStays, TablesTypeOK
  <2> QED BY <1>2, <2>1, NothingMoves DEF RemoveWallet, Pending
<1>3. ASSUME NEW t \in TxIds, NEW v \in Int, ReserveFunds(t, v) PROVE BooksStep(u)
  BY <1>3, MoneyMoves
<1>4. ASSUME NEW t \in TxIds, LockTransaction(t) PROVE BooksStep(u)
  BY <1>4, NothingMoves DEF LockTransaction, CanLock, Pending, TablesTypeOK, Transaction
<1>5. ASSUME NEW t \in TxIds, NEW v \in Int, NEW x \in Int, SettleTransfer(t, v, x)
      PROVE BooksStep(u)
  BY <1>5, MoneyMoves
<1>6. ASSUME NEW t \in TxIds, NEW v \in Int, ReleaseFunds(t, v) PROVE BooksStep(u)
  BY <1>6, MoneyMoves
<1>7. ASSUME NEW t \in TxIds, Age(t) PROVE BooksStep(u)
  BY <1>7, NothingMoves DEF Age, Pending, TablesTypeOK, Transaction
<1>8. ASSUME NEW t \in TxIds, ExpireTransaction(t) PROVE BooksStep(u)
  BY <1>8, NothingMoves DEF ExpireTransaction, Pending, TablesTypeOK, Transaction
<1>9. CASE UNCHANGED tables
  BY <1>9, NothingMoves DEF tables, Pending
<1> QED BY <1>1, <1>2, <1>3, <1>4, <1>5, <1>6, <1>7, <1>8, <1>9, TablesNextCases

\* Each write moves, in every wallet, what the status of one transaction and the ledger
\* say it moves.
THEOREM DoubleEntry == TablesSpec => BooksMove
<1>1. TablesTypeOK /\ [TablesNext]_tables => \A u \in Users : WalletStays(u) => BooksStep(u)
  BY EveryStepBooks
<1> QED BY <1>1, TablesTypeCorrect, PTL DEF TablesSpec, BooksMove

-----------------------------------------------------------------------------
(* The bank with an escrow per transfer *)

\* A step that changes no wallet's existence or balance and no transaction's escrow
\* stutters in the bank.
LEMMA BankStutter ==
    ASSUME UNCHANGED terms,
           \A u \in Users : /\ wallets'[u].exists = wallets[u].exists
                            /\ wallets'[u].balance = wallets[u].balance,
           \A t \in TxIds : EscrowOf(transactions'[t].status)
                              = EscrowOf(transactions[t].status)
    PROVE  UNCHANGED Bank!vars
BY DEF Bank!vars

\* Every write is a step of the bank, or none.
LEMMA BankStep == TablesTypeOK /\ [TablesNext]_tables => [Bank!Next]_Bank!vars
<1> SUFFICES ASSUME TablesTypeOK, [TablesNext]_tables PROVE [Bank!Next]_Bank!vars
  OBVIOUS
<1>1. ASSUME NEW u \in Users, PutWallet(u) PROVE [Bank!Next]_Bank!vars
  <2>1. wallets'[u].exists /\ wallets'[u].balance = SeedBalance
    BY <1>1 DEF PutWallet, NewWallet, TablesTypeOK
  <2>2. \A x \in Users \ {u} : wallets'[x] = wallets[x]
    BY <1>1 DEF PutWallet, TablesTypeOK
  <2>3. ~wallets[u].exists /\ UNCHANGED <<transactions, terms>>
    BY <1>1 DEF PutWallet
  <2>4. {x \in Users : wallets'[x].exists} = {x \in Users : wallets[x].exists} \union {u}
    BY <2>1, <2>2
  <2>5. [x \in Users |-> wallets'[x].balance]
          = [[x \in Users |-> wallets[x].balance] EXCEPT ![u] = SeedBalance]
    BY <2>1, <2>2
  <2>6. Bank!Open(u)
    BY <2>3, <2>4, <2>5 DEF Bank!Open
  <2> QED BY <2>6 DEF Bank!Next
<1>2. ASSUME NEW u \in Users, RemoveWallet(u) PROVE [Bank!Next]_Bank!vars
  <2>1. ~wallets'[u].exists /\ wallets'[u].balance = 0
    BY <1>2 DEF RemoveWallet, NoWallet, TablesTypeOK
  <2>2. \A x \in Users \ {u} : wallets'[x] = wallets[x]
    BY <1>2 DEF RemoveWallet, TablesTypeOK
  <2>3. wallets[u].exists /\ UNCHANGED <<transactions, terms>>
    BY <1>2 DEF RemoveWallet
  <2>4. {x \in Users : wallets'[x].exists} = {x \in Users : wallets[x].exists} \ {u}
    BY <2>1, <2>2
  <2>5. [x \in Users |-> wallets'[x].balance]
          = [[x \in Users |-> wallets[x].balance] EXCEPT ![u] = 0]
    BY <2>1, <2>2
  <2>6. Bank!Close(u)
    BY <2>3, <2>4, <2>5 DEF Bank!Close
  <2> QED BY <2>6 DEF Bank!Next
<1>3. ASSUME NEW t \in TxIds, NEW v \in Int, ReserveFunds(t, v) PROVE [Bank!Next]_Bank!vars
  <2> DEFINE f == terms[t].from
             b == wallets[f].balance - terms[t].amount
  <2>1. f \in Users /\ wallets[f].exists /\ wallets[f].balance >= terms[t].amount
    BY <1>3, TermsTyped DEF ReserveFunds, CanReserve
  <2>2. \A x \in Users : /\ wallets'[x].exists = wallets[x].exists
                         /\ wallets'[x].balance = IF x = f THEN b ELSE wallets[x].balance
    BY <1>3, ReserveEffect DEF TablesTypeOK, Wallet
  <2>3. \A x \in TxIds : EscrowOf(transactions'[x].status)
                           = IF x = t THEN "held" ELSE EscrowOf(transactions[x].status)
    <3>1. transactions'[t].status = "RESERVED"
      BY <1>3 DEF ReserveFunds, TablesTypeOK
    <3>2. \A x \in TxIds \ {t} : transactions'[x] = transactions[x]
      BY <1>3 DEF ReserveFunds, TablesTypeOK
    <3>3. EscrowOf("RESERVED") = "held"
      BY DEF EscrowOf
    <3> QED BY <3>1, <3>2, <3>3
  <2>4. EscrowOf(transactions[t].status) = "none" /\ UNCHANGED terms
    BY <1>3 DEF ReserveFunds, EscrowOf
  <2> HIDE DEF b
  <2>5. /\ {x \in Users : wallets'[x].exists} = {x \in Users : wallets[x].exists}
        /\ [x \in Users |-> wallets'[x].balance]
             = [[x \in Users |-> wallets[x].balance] EXCEPT ![f] = b]
    BY <2>1, <2>2
  <2>6. [x \in TxIds |-> EscrowOf(transactions'[x].status)]
          = [[x \in TxIds |-> EscrowOf(transactions[x].status)] EXCEPT ![t] = "held"]
    BY <2>3
  <2>7. Bank!Hold(t)
    BY <2>1, <2>4, <2>5, <2>6 DEF Bank!Hold, b
  <2> QED BY <2>7 DEF Bank!Next
<1>4. ASSUME NEW t \in TxIds, LockTransaction(t) PROVE [Bank!Next]_Bank!vars
  <2>1. \A x \in TxIds : EscrowOf(transactions'[x].status) = EscrowOf(transactions[x].status)
    BY <1>4 DEF LockTransaction, CanLock, TablesTypeOK, Transaction, EscrowOf
  <2>2. UNCHANGED <<wallets, terms>>
    BY <1>4 DEF LockTransaction
  <2> QED BY <2>1, <2>2, BankStutter
<1>5. ASSUME NEW t \in TxIds, NEW v \in Int, NEW x \in Int, SettleTransfer(t, v, x)
      PROVE [Bank!Next]_Bank!vars
  <2> DEFINE r == terms[t].to
             b == wallets[r].balance + terms[t].amount
  <2>1. r \in Users /\ wallets[r].exists
    BY <1>5, TermsTyped DEF SettleTransfer, CanSettle
  <2>2. \A y \in Users : /\ wallets'[y].exists = wallets[y].exists
                         /\ wallets'[y].balance = IF y = r THEN b ELSE wallets[y].balance
    BY <1>5, SettleEffect DEF TablesTypeOK, Wallet
  <2>3. \A y \in TxIds : EscrowOf(transactions'[y].status)
                           = IF y = t THEN "paid" ELSE EscrowOf(transactions[y].status)
    BY <1>5 DEF SettleTransfer, TablesTypeOK, Transaction, EscrowOf
  <2>4. EscrowOf(transactions[t].status) = "held" /\ UNCHANGED terms
    BY <1>5 DEF SettleTransfer, CanSettle, EscrowOf
  <2> HIDE DEF b
  <2>5. /\ {y \in Users : wallets'[y].exists} = {y \in Users : wallets[y].exists}
        /\ [y \in Users |-> wallets'[y].balance]
             = [[y \in Users |-> wallets[y].balance] EXCEPT ![r] = b]
    BY <2>1, <2>2
  <2>6. [y \in TxIds |-> EscrowOf(transactions'[y].status)]
          = [[y \in TxIds |-> EscrowOf(transactions[y].status)] EXCEPT ![t] = "paid"]
    BY <2>3
  <2>7. Bank!Pay(t)
    BY <2>1, <2>4, <2>5, <2>6 DEF Bank!Pay, b
  <2> QED BY <2>7 DEF Bank!Next
<1>6. ASSUME NEW t \in TxIds, NEW v \in Int, ReleaseFunds(t, v) PROVE [Bank!Next]_Bank!vars
  <2> DEFINE f == terms[t].from
             b == wallets[f].balance + terms[t].amount
  <2>1. f \in Users /\ wallets[f].exists
    BY <1>6, TermsTyped DEF ReleaseFunds, CanRelease
  <2>2. \A x \in Users : /\ wallets'[x].exists = wallets[x].exists
                         /\ wallets'[x].balance = IF x = f THEN b ELSE wallets[x].balance
    BY <1>6, ReleaseEffect DEF TablesTypeOK, Wallet
  <2>3. \A x \in TxIds : EscrowOf(transactions'[x].status)
                           = IF x = t THEN "refunded" ELSE EscrowOf(transactions[x].status)
    BY <1>6 DEF ReleaseFunds, TablesTypeOK, Transaction, EscrowOf
  <2>4. EscrowOf(transactions[t].status) = "held" /\ UNCHANGED terms
    BY <1>6 DEF ReleaseFunds, CanRelease, EscrowOf
  <2> HIDE DEF b
  <2>5. /\ {x \in Users : wallets'[x].exists} = {x \in Users : wallets[x].exists}
        /\ [x \in Users |-> wallets'[x].balance]
             = [[x \in Users |-> wallets[x].balance] EXCEPT ![f] = b]
    BY <2>1, <2>2
  <2>6. [x \in TxIds |-> EscrowOf(transactions'[x].status)]
          = [[x \in TxIds |-> EscrowOf(transactions[x].status)] EXCEPT ![t] = "refunded"]
    BY <2>3
  <2>7. Bank!Refund(t)
    BY <2>1, <2>4, <2>5, <2>6 DEF Bank!Refund, b
  <2> QED BY <2>7 DEF Bank!Next
<1>7. ASSUME NEW t \in TxIds, Age(t) PROVE [Bank!Next]_Bank!vars
  <2>1. \A x \in TxIds : transactions'[x].status = transactions[x].status
    BY <1>7 DEF Age, TablesTypeOK, Transaction
  <2> QED BY <1>7, <2>1, BankStutter DEF Age
<1>8. ASSUME NEW t \in TxIds, ExpireTransaction(t) PROVE [Bank!Next]_Bank!vars
  <2>1. \A x \in TxIds : transactions'[x].status = transactions[x].status
    BY <1>8 DEF ExpireTransaction, TablesTypeOK, Transaction
  <2> QED BY <1>8, <2>1, BankStutter DEF ExpireTransaction
<1>9. CASE UNCHANGED tables
  BY <1>9, BankStutter DEF tables
<1> QED BY <1>1, <1>2, <1>3, <1>4, <1>5, <1>6, <1>7, <1>8, <1>9, TablesNextCases

\* The conditional writes implement the bank: the money of a transaction leaves its
\* sender's balance once and then reaches one balance, the receiver's or the
\* sender's, at most once, although all pending money of a user is pooled in one
\* `reserved` number that deletions reset.
THEOREM ImplementsBank == TablesSpec => ImplementsEscrowBank
<1>1. TablesInit => Bank!Init
  <2> SUFFICES ASSUME TablesInit PROVE Bank!Init
    OBVIOUS
  <2>1. \A u \in Users : /\ wallets[u].exists <=> u \in InitiallyOpen
                         /\ wallets[u].balance = IF u \in InitiallyOpen THEN SeedBalance ELSE 0
    <3>1. ASSUME NEW u \in Users, u \in InitiallyOpen
          PROVE  wallets[u].exists /\ wallets[u].balance = SeedBalance
      <4>1. wallets[u] = NewWallet(1)
        BY <3>1 DEF TablesInit
      <4> QED BY <4>1, FirstItems
    <3>2. ASSUME NEW u \in Users, u \notin InitiallyOpen
          PROVE  ~wallets[u].exists /\ wallets[u].balance = 0
      <4>1. wallets[u] = NoWallet(0)
        BY <3>2 DEF TablesInit
      <4> QED BY <4>1, FirstItems
    <3> QED BY <3>1, <3>2, ZenonT(30)
  <2>2. \A t \in TxIds : EscrowOf(transactions[t].status) = "none"
    BY DEF TablesInit, NoTransaction, EscrowOf
  <2>3. {u \in Users : wallets[u].exists} = InitiallyOpen
    BY <2>1, InitiallyOpenAssumption
  <2>4. [u \in Users |-> wallets[u].balance]
          = [u \in Users |-> IF u \in InitiallyOpen THEN SeedBalance ELSE 0]
    BY <2>1
  <2>5. [t \in TxIds |-> EscrowOf(transactions[t].status)] = [t \in TxIds |-> "none"]
    BY <2>2
  <2> QED BY <2>3, <2>4, <2>5, ZenonT(30) DEF TablesInit, Bank!Init
<1> QED BY <1>1, BankStep, TablesTypeCorrect, PTL DEF TablesSpec, ImplementsEscrowBank, Bank!Spec
=============================================================================
