-------------------------- MODULE TransferSystem --------------------------
(***************************************************************************)
(* The processes that move money: API requests that schedule and cancel    *)
(* transactions (cmd/app, pkg/handlers), the settlement lambda             *)
(* (cmd/settlement_lambda), the reconciliation lambda                      *)
(* (cmd/reconciliation_lambda) and the SQS queue between them.  A handler  *)
(* is a process that takes one step per call to DynamoDB or SQS; what it   *)
(* read stays in its state while other processes take steps.               *)
(***************************************************************************)
EXTENDS Tables

CONSTANTS
    Workers,     \* concurrent invocations of the settlement lambda
    Cancellers,  \* clients that cancel transactions, one call at a time
    Deletable,   \* the users whose wallet may be deleted, or expire
    Expires,     \* the transactions whose item may expire
    Copies,      \* the copies of the Wallets table a read may get an old item from
    Replicated,  \* the users whose wallet the copies catch up with
    MaxFaults,   \* bound: crashes, lost or failed calls and duplicates in one behaviour
    MaxQueued,   \* bound: visible messages of one transaction before more are sent
    NoTx         \* the transaction of a process that has none

ASSUME NoTxAssumption == NoTx \notin TxIds
ASSUME BoundsAssumption == MaxFaults \in Nat /\ MaxQueued \in Nat \ {0}

VARIABLES
    sched,   \* sched[t]: the POST /transactions request that creates t
    cancel,  \* cancel[c]: the DELETE /transactions/{id} request of c
    worker,  \* worker[w]: the settlement lambda's invocation
    queue,   \* queue[t]: number of messages of t that can be, or will be, received
    recon,   \* the transactions the reconciliation lambda has yet to re-enqueue
    faults,  \* faults so far
    copies   \* copies[r][u]: the wallet of u in the copy r, which may be behind

processes == <<sched, cancel, worker, queue, recon, faults, copies>>
vars ==
    <<wallets, transactions, ledger, terms, sched, cancel, worker, queue, recon, faults, copies>>

\* A call about to be made, or the reply: 201, 422 or 500.
SchedPC == {"read", "write", "send", "created", "insufficient", "failed"}
\* A call about to be made, or the reply: 204, 409 or 500.
CancelReplies == {"cancelled", "conflict", "failed"}
CancelPC == {"idle", "wallet", "write"} \union CancelReplies
\* The calls between the lock and the settlement.
Locked == {"sender", "receiver", "settle"}
WorkerPC == {"idle", "lock", "notify"} \union Locked

TypeOK ==
    /\ TablesTypeOK
    /\ sched \in [TxIds -> [pc : SchedPC, saw : Wallet]]
    /\ cancel \in [Cancellers -> [pc : CancelPC, tx : TxIds \union {NoTx}, saw : Wallet]]
    /\ worker \in [Workers -> [pc : WorkerPC, tx : TxIds \union {NoTx},
                               sender : Wallet, receiver : Wallet]]
    /\ \A c \in Cancellers : cancel[c].pc # "idle" => cancel[c].tx \in TxIds
    /\ \A w \in Workers : worker[w].pc # "idle" => worker[w].tx \in TxIds
    /\ queue \in [TxIds -> Nat]
    /\ recon \subseteq TxIds
    /\ faults \in 0..MaxFaults
    /\ copies \in [Copies -> [Users -> Wallet]]

Unread == NoWallet(0)
IdleWorker == [pc |-> "idle", tx |-> NoTx, sender |-> Unread, receiver |-> Unread]

Init ==
    /\ TablesInit
    /\ sched = [t \in TxIds |-> [pc |-> "read", saw |-> Unread]]
    /\ cancel = [c \in Cancellers |-> [pc |-> "idle", tx |-> NoTx, saw |-> Unread]]
    /\ worker = [w \in Workers |-> IdleWorker]
    /\ queue = [t \in TxIds |-> 0]
    /\ recon = {}
    /\ faults = 0
    /\ copies = [r \in Copies |-> wallets]

\* A crash, a duplicate or a failed call.
Fault == faults < MaxFaults /\ faults' = faults + 1

-----------------------------------------------------------------------------
(* Faulty variants of definitions below, as in Tables: no action uses them *)

\* The cancellation forgets which transaction it is about.
CancelGotoNone(c, pc) == cancel' = [cancel EXCEPT ![c] = [pc |-> pc, tx |-> NoTx, saw |-> Unread]]

\* Settlement in two calls instead of one TransactWriteItems: the second one fails.
SettleFailsHalfway(w) ==
    /\ Fault
    /\ worker[w].pc = "settle"
    /\ transactions' = [transactions EXCEPT ![worker[w].tx].status = "COMPLETED"]
    /\ worker' = [worker EXCEPT ![w] = IdleWorker]
    /\ UNCHANGED <<wallets, ledger, terms, sched, cancel, queue, recon, copies>>

\* GetStuckTransactions that asks for the transactions under way.
StuckWorking(t) ==
    transactions[t].exists /\ transactions[t].status = "WORKING" /\ transactions[t].old

-----------------------------------------------------------------------------
(* Reads: GetWallet does not ask for a consistent read *)

\* What GetItem may return: the wallet as it is, or as a copy of the table still has it.
Readable(u) == {wallets[u]} \union {copies[r][u] : r \in Copies}

\* A copy catches up with the writes to the wallet of u.
Replicate(r, u) ==
    /\ u \in Replicated
    /\ copies[r][u] # wallets[u]
    /\ copies' = [copies EXCEPT ![r][u] = wallets[u]]
    /\ UNCHANGED <<tables, sched, cancel, worker, queue, recon, faults>>

-----------------------------------------------------------------------------
(* POST /wallets, DELETE /wallets/{userId}: one write each *)

CreateWallet(u) ==
    /\ PutWallet(u)
    /\ UNCHANGED processes

DeleteWallet(u) ==
    /\ u \in Deletable
    /\ RemoveWallet(u)
    /\ UNCHANGED processes

-----------------------------------------------------------------------------
(* POST /transactions: CreateTransaction, then ScheduleTransaction *)

SchedGoto(t, pc) == sched' = [sched EXCEPT ![t] = [pc |-> pc, saw |-> Unread]]

ScheduleRead(t) ==
    /\ sched[t].pc = "read"
    /\ \E sender \in Readable(terms[t].from) :
        IF sender.exists
        THEN sched' = [sched EXCEPT ![t] = [pc |-> "write", saw |-> sender]]
        ELSE SchedGoto(t, "failed")
    /\ UNCHANGED <<tables, cancel, worker, queue, recon, faults, copies>>

\* Every failed condition, the version's included, is reported as a lack of funds.
ScheduleWrite(t) ==
    /\ sched[t].pc = "write"
    /\ \/ /\ ReserveFunds(t, sched[t].saw.version)
          /\ SchedGoto(t, "send")
       \/ /\ ~CanReserve(t, sched[t].saw.version)
          /\ SchedGoto(t, "insufficient")
          /\ UNCHANGED tables
    /\ UNCHANGED <<cancel, worker, queue, recon, faults, copies>>

\* The reply is 201 whether or not the message could be sent: SQS may fail, and
\* ScheduleTransaction refuses a delay outside 0..15 minutes.  The handler then reads the
\* sender's wallet and publishes, which may take it to the timeout, or see it die.
ScheduleSend(t) ==
    /\ sched[t].pc = "send"
    /\ SchedGoto(t, "created") \/ SchedGoto(t, "failed")
    /\ \/ queue' = [queue EXCEPT ![t] = @ + 1]
       \/ UNCHANGED queue
    /\ UNCHANGED <<tables, cancel, worker, recon, faults, copies>>

\* A call fails before the write, or the API times out or dies at any point.  (A
\* write whose answer is lost is a write and then this step.)
ScheduleFails(t) ==
    /\ sched[t].pc \in {"read", "write", "send"}
    /\ SchedGoto(t, "failed")
    /\ UNCHANGED <<tables, cancel, worker, queue, recon, faults, copies>>

-----------------------------------------------------------------------------
(* DELETE /transactions/{id}: CancelTransaction *)

CancelGoto(c, pc) ==
    cancel' = [cancel EXCEPT ![c] = [pc |-> pc, tx |-> cancel[c].tx, saw |-> Unread]]

\* GetItem is eventually consistent, and may return any item t has had: none before it
\* was made, or a RESERVED one, even if it is no longer so.
CancelRead(c, t) ==
    /\ cancel[c].pc \in {"idle"} \union CancelReplies
    /\ transactions[t].status # "NONE"
    /\ \E pc \in {"failed", "wallet", "conflict"} :
        /\ pc = "conflict" => transactions[t].status # "RESERVED"
        /\ cancel' = [cancel EXCEPT ![c] = [pc |-> pc, tx |-> t, saw |-> Unread]]
    /\ UNCHANGED <<tables, sched, worker, queue, recon, faults, copies>>

CancelReadWallet(c) ==
    /\ cancel[c].pc = "wallet"
    /\ \E sender \in Readable(terms[cancel[c].tx].from) :
        IF sender.exists
        THEN cancel' = [cancel EXCEPT ![c] = [pc |-> "write", tx |-> cancel[c].tx,
                                              saw |-> sender]]
        ELSE CancelGoto(c, "failed")
    /\ UNCHANGED <<tables, sched, worker, queue, recon, faults, copies>>

\* The answer may be lost after the write: the client then sees a failure.
CancelWrite(c) ==
    /\ cancel[c].pc = "write"
    /\ \/ /\ ReleaseFunds(cancel[c].tx, cancel[c].saw.version)
          /\ CancelGoto(c, "cancelled") \/ CancelGoto(c, "failed")
       \/ /\ ~CanRelease(cancel[c].tx, cancel[c].saw.version)
          /\ CancelGoto(c, "failed")
          /\ UNCHANGED tables
    /\ UNCHANGED <<sched, worker, queue, recon, faults, copies>>

CancelFails(c) ==
    /\ cancel[c].pc \in {"wallet", "write"}
    /\ CancelGoto(c, "failed")
    /\ UNCHANGED <<tables, sched, worker, queue, recon, faults, copies>>

-----------------------------------------------------------------------------
(* The settlement lambda: one message per invocation (BatchSize 1).  HandleRequest *)
(* returns nil on every path, so the end of an invocation deletes its message; only *)
(* a crash or a timeout gives it back to the queue. *)

Finish(w) == worker' = [worker EXCEPT ![w] = IdleWorker]
WorkerGoto(w, pc) == worker' = [worker EXCEPT ![w].pc = pc]

Receive(w, t) ==
    /\ worker[w].pc = "idle"
    /\ queue[t] > 0
    /\ queue' = [queue EXCEPT ![t] = @ - 1]
    /\ worker' = [worker EXCEPT ![w] = [IdleWorker EXCEPT !.pc = "lock", !.tx = t]]
    /\ UNCHANGED <<tables, sched, cancel, recon, faults, copies>>

\* A transaction that is not RESERVED is skipped.
AcquireLock(w) ==
    /\ worker[w].pc = "lock"
    /\ \/ /\ LockTransaction(worker[w].tx)
          /\ WorkerGoto(w, "sender")
       \/ /\ ~CanLock(worker[w].tx)
          /\ Finish(w)
          /\ UNCHANGED tables
    /\ UNCHANGED <<sched, cancel, queue, recon, faults, copies>>

\* The update fails; or it is applied, its answer is lost, and the SDK's retry finds
\* the status WORKING and reports a failed condition.
AcquireLockFails(w) ==
    /\ Fault
    /\ worker[w].pc = "lock"
    /\ LockTransaction(worker[w].tx) \/ UNCHANGED tables
    /\ Finish(w)
    /\ UNCHANGED <<sched, cancel, queue, recon, copies>>

ReadSender(w) ==
    /\ worker[w].pc = "sender"
    /\ \E sender \in Readable(terms[worker[w].tx].from) :
        IF sender.exists
        THEN worker' = [worker EXCEPT ![w].pc = "receiver", ![w].sender = sender]
        ELSE Finish(w)
    /\ UNCHANGED <<tables, sched, cancel, queue, recon, faults, copies>>

ReadReceiver(w) ==
    /\ worker[w].pc = "receiver"
    /\ \E receiver \in Readable(terms[worker[w].tx].to) :
        IF receiver.exists
        THEN worker' = [worker EXCEPT ![w].pc = "settle", ![w].receiver = receiver]
        ELSE Finish(w)
    /\ UNCHANGED <<tables, sched, cancel, queue, recon, faults, copies>>

\* A failed condition is logged; the transaction stays WORKING.
Settle(w) ==
    LET t == worker[w].tx
        from == worker[w].sender.version
        to == worker[w].receiver.version IN
    /\ worker[w].pc = "settle"
    /\ \/ /\ SettleTransfer(t, from, to)
          /\ worker' = [worker EXCEPT ![w] = [IdleWorker EXCEPT !.pc = "notify", !.tx = t]]
       \/ /\ ~CanSettle(t, from, to)
          /\ Finish(w)
          /\ UNCHANGED tables
    /\ UNCHANGED <<sched, cancel, queue, recon, faults, copies>>

\* A read or the write fails, or the write's answer is lost after it was applied.
SettleFails(w) ==
    /\ Fault
    /\ \/ worker[w].pc \in Locked /\ UNCHANGED tables
       \/ /\ worker[w].pc = "settle"
          /\ SettleTransfer(worker[w].tx, worker[w].sender.version, worker[w].receiver.version)
    /\ Finish(w)
    /\ UNCHANGED <<sched, cancel, queue, recon, copies>>

\* POST /transactions/{id}/notify-settlement: a failure is logged.
Notify(w) ==
    /\ worker[w].pc = "notify"
    /\ Finish(w)
    /\ UNCHANGED <<tables, sched, cancel, queue, recon, faults, copies>>

\* The invocation dies or times out: its message becomes visible again.
WorkerCrash(w) ==
    /\ Fault
    /\ worker[w].pc # "idle"
    /\ Finish(w)
    /\ queue' = [queue EXCEPT ![worker[w].tx] = @ + 1]
    /\ UNCHANGED <<tables, sched, cancel, recon, copies>>

\* SQS delivers at least once.
DuplicateMessage(t) ==
    /\ Fault
    /\ queue[t] > 0 \/ \E w \in Workers : worker[w].tx = t
    /\ queue[t] < MaxQueued
    /\ queue' = [queue EXCEPT ![t] = @ + 1]
    /\ UNCHANGED <<tables, sched, cancel, worker, recon, copies>>

-----------------------------------------------------------------------------
(* The reconciliation lambda, every six hours *)

Stuck(t) ==
    transactions[t].exists /\ transactions[t].status = "RESERVED" /\ transactions[t].old

ReconQuery ==
    /\ recon = {}
    /\ recon' = {t \in TxIds : Stuck(t)}
    /\ UNCHANGED <<tables, sched, cancel, worker, queue, faults, copies>>

ReconSend(t) ==
    /\ t \in recon
    /\ queue[t] < MaxQueued
    /\ queue' = [queue EXCEPT ![t] = @ + 1]
    /\ recon' = recon \ {t}
    /\ UNCHANGED <<tables, sched, cancel, worker, faults, copies>>

\* One message cannot be sent: the next transactions are still tried.
ReconSendFails(t) ==
    /\ Fault
    /\ t \in recon
    /\ recon' = recon \ {t}
    /\ UNCHANGED <<tables, sched, cancel, worker, queue, copies>>

ReconCrash ==
    /\ Fault
    /\ recon # {}
    /\ recon' = {}
    /\ UNCHANGED <<tables, sched, cancel, worker, queue, copies>>

-----------------------------------------------------------------------------
(* Time *)

GrowOld(t) == Age(t) /\ UNCHANGED processes

Expire(t) == t \in Expires /\ ExpireTransaction(t) /\ UNCHANGED processes

-----------------------------------------------------------------------------

WalletRequest(u) == CreateWallet(u) \/ DeleteWallet(u)

Schedule(t) == ScheduleRead(t) \/ ScheduleWrite(t) \/ ScheduleSend(t) \/ ScheduleFails(t)

Cancel(c) ==
    \/ \E t \in TxIds : CancelRead(c, t)
    \/ CancelReadWallet(c) \/ CancelWrite(c) \/ CancelFails(c)

\* The steps of an invocation in which nothing fails.
Process(w) ==
    \/ AcquireLock(w) \/ ReadSender(w) \/ ReadReceiver(w) \/ Settle(w) \/ Notify(w)

WorkerFault(w) == AcquireLockFails(w) \/ SettleFails(w) \/ WorkerCrash(w)

Reconcile ==
    \/ ReconQuery \/ ReconCrash
    \/ \E t \in TxIds : ReconSend(t) \/ ReconSendFails(t)

Time(t) == GrowOld(t) \/ Expire(t)

Next ==
    \/ \E u \in Users : WalletRequest(u)
    \/ \E t \in TxIds : Schedule(t) \/ DuplicateMessage(t) \/ Time(t)
    \/ \E c \in Cancellers : Cancel(c)
    \/ \E w \in Workers : (\E t \in TxIds : Receive(w, t)) \/ Process(w) \/ WorkerFault(w)
    \/ Reconcile
    \/ \E r \in Copies, u \in Users : Replicate(r, u)

Spec == Init /\ [][Next]_vars

\* Time passes; SQS hands visible messages to the lambda, whose invocations run or
\* are killed at the timeout; EventBridge starts the reconciliation lambda, which
\* gets through its batch.  Requests may stop anywhere and nothing makes a client
\* send one.
Fairness ==
    /\ \A t \in TxIds : WF_vars(GrowOld(t))
    /\ \A t \in TxIds : WF_vars(\E w \in Workers : Receive(w, t))
    /\ \A w \in Workers : WF_vars(Process(w))
    /\ WF_vars(ReconQuery)
    /\ \A t \in TxIds : WF_vars(ReconSend(t))

FairSpec == Spec /\ Fairness

-----------------------------------------------------------------------------
(* Properties *)

\* The lock works: while an invocation is between acquireTransactionLock and the end
\* of executeSettlement its transaction is WORKING and no other invocation is there
\* for the same one, whatever is redelivered, duplicated or re-enqueued; and one that
\* notifies has settled.
LockIsExclusive ==
    \A w \in Workers :
        /\ worker[w].pc \in Locked =>
            /\ transactions[worker[w].tx].status = "WORKING"
            /\ \A v \in Workers \ {w} :
                ~(worker[v].pc \in Locked /\ worker[v].tx = worker[w].tx)
        /\ worker[w].pc = "notify" => transactions[worker[w].tx].status = "COMPLETED"

\* A wallet that was read and the wallet of the user now: as long as it is not another
\* wallet under the same user id, versions only grow and the same version means the
\* same content.
Snapshot(saw, current) ==
    /\ saw.exists
    /\ saw.created_at <= current.created_at
    /\ (current.exists /\ saw.created_at = current.created_at) =>
        /\ saw.version <= current.version
        /\ saw.version = current.version => saw = current

\* Optimistic locking is sound for CreateTransaction, CancelTransaction and
\* executeSettlement: the version condition detects every change made to the wallet
\* since it was read, and a read that was out of date already.
VersionDetectsChange ==
    /\ \A t \in TxIds :
        sched[t].pc = "write" => Snapshot(sched[t].saw, wallets[terms[t].from])
    /\ \A c \in Cancellers :
        cancel[c].pc = "write" => Snapshot(cancel[c].saw, wallets[terms[cancel[c].tx].from])
    /\ \A w \in Workers :
        /\ worker[w].pc \in {"receiver", "settle"} =>
            Snapshot(worker[w].sender, wallets[terms[worker[w].tx].from])
        /\ worker[w].pc = "settle" =>
            Snapshot(worker[w].receiver, wallets[terms[worker[w].tx].to])

\* What a client was told stays true: after 201 the transaction exists (or did), after
\* 422 there is none, after 204 it is CANCELLED for good, and after 409 it can never
\* again be cancelled.
RepliesStayTrue ==
    /\ \A t \in TxIds :
        /\ sched[t].pc = "created" => transactions[t].status # "NONE"
        /\ sched[t].pc = "insufficient" => transactions[t].status = "NONE"
    /\ \A c \in Cancellers :
        /\ cancel[c].pc = "cancelled" => transactions[cancel[c].tx].status = "CANCELLED"
        /\ cancel[c].pc = "conflict" =>
            transactions[cancel[c].tx].status \in {"WORKING", "COMPLETED", "CANCELLED"}

\* The handlers, lambdas and faults together change the tables only by conditional
\* writes that see the versions current at the time of the write.
ImplementsTables == TablesSpec

\* Self-healing (README): a RESERVED transaction does not stay so, even if the API
\* died before sending its message or the message was lost: it is settled or locked
\* for it, cancelled, or its item expires.
ReservedIsTakenUp ==
    \A t \in TxIds : CanLock(t) ~> ~CanLock(t)

\* README.md of the reconciliation lambda: "it guarantees that no transaction is
\* permanently lost or left in an intermediate state".
NoneLeftIntermediate == \A t \in TxIds : Pending(t) ~> ~Pending(t)

\* t is locked, and no invocation is left that could settle it.
Stranded(t) ==
    /\ transactions[t].status = "WORKING"
    /\ \A w \in Workers : worker[w].pc \in Locked => worker[w].tx # t

\* What the code does instead of NoneLeftIntermediate: once the invocation that took the
\* lock is gone, no redelivered message, run of the reconciliation lambda, cancellation or
\* deletion ever settles the transaction or gives its money back.
StrandedForGood == [][\A t \in TxIds : Stranded(t) => Stranded(t)']_vars

\* pkg/storage/errors.go: "ErrInsufficientFunds is returned when a wallet has an
\* insufficient balance for a transaction".
InsufficientMeansShort ==
    [][\A t \in TxIds :
        (sched[t].pc # "insufficient" /\ sched'[t].pc = "insufficient")
        => wallets[terms[t].from].balance < terms[t].amount]_vars
=============================================================================
