----------------------------- MODULE Retention -----------------------------
(***************************************************************************)
(* The time a RESERVED transaction has: the delay its sender asked for     *)
(* (pkg/scheduler/sqs.go), the age at which the reconciliation lambda      *)
(* takes it for stuck, the period of that lambda, and the ttl with which   *)
(* its item goes.  What TransferSystem leaves to chance, that an item      *)
(* grows old and expires, happens here when it is due; the settlement      *)
(* after the lock, wallets and ledger are left out.                        *)
(*                                                                         *)
(* Times are in any unit.  The clock does not pass a point at which        *)
(* something is due, so all that happens in between takes no time.         *)
(***************************************************************************)
EXTENDS Integers

CONSTANTS
    TxIds,
    Unaddressed,  \* those whose request has no to_user_id, which the API accepts
    Delays,       \* the delays a request may ask for
    MaxDelay,     \* ScheduleTransaction's limit, 15 minutes
    Threshold,    \* stuckTransactionThreshold, 6 hours
    Period,       \* the schedule of the reconciliation lambda, 6 hours
    Ttl,          \* of a transaction's item, 24 hours
    Visibility,   \* VisibilityTimeout of the queue, 5 minutes
    Delivery,     \* bound: how long SQS takes to hand a visible message to the lambda
    MaxFaults     \* bound: failed calls and crashes in one behaviour

ASSUME UnaddressedAssumption == Unaddressed \subseteq TxIds
ASSUME TimesAssumption ==
    /\ Delays \subseteq Int
    /\ {MaxDelay, Threshold, Period, Ttl, Visibility, Delivery, MaxFaults} \subseteq Nat
    /\ MaxDelay <= Threshold /\ Delivery < Period

VARIABLES
    status,    \* status[t]: of the item; "EXPIRED" if it was removed while RESERVED
    delay,     \* delay[t]: delay_seconds of the request
    age,       \* age[t]: time since created_at, up to Ttl
    queue,     \* messages: the transaction, and its age when the message gets visible
    untilRun,  \* time to the next run of the reconciliation lambda
    recon,     \* the transactions this run has yet to re-enqueue
    faults     \* faults so far

vars == <<status, delay, age, queue, untilRun, recon, faults>>

Message == [tx : TxIds, at : Nat]
Enqueued(t, at) == [tx |-> t, at |-> at]

TypeOK ==
    /\ status \in [TxIds -> {"NONE", "RESERVED", "WORKING", "CANCELLED", "EXPIRED"}]
    /\ delay \in [TxIds -> Int]
    /\ age \in [TxIds -> 0..Ttl]
    /\ queue \subseteq Message
    /\ untilRun \in 0..Period
    /\ recon \subseteq TxIds
    /\ faults \in 0..MaxFaults

Init ==
    /\ status = [t \in TxIds |-> "NONE"]
    /\ delay = [t \in TxIds |-> 0]
    /\ age = [t \in TxIds |-> 0]
    /\ queue = {}
    /\ untilRun \in 0..Period
    /\ recon = {}
    /\ faults = 0

Fault == faults < MaxFaults /\ faults' = faults + 1

-----------------------------------------------------------------------------
(* Faulty variants of definitions below; no action uses them *)

\* The lock without "status = RESERVED" gives a status the models do not know.
TakeTwice(t) == status' = [status EXCEPT ![t] = IF @ = "RESERVED" THEN "WORKING" ELSE "LOCKED"]

\* GetStuckTransactions that forgets the cutoff, and one with twice the threshold.
StuckAtOnce == {t \in TxIds : status[t] = "RESERVED"}
StuckLater == {t \in TxIds : status[t] = "RESERVED" /\ age[t] > 2 * Threshold}

\* HandleRequest that gives up the batch when one message cannot be sent, and reports
\* success for it.
BatchWithout(t) == {}

-----------------------------------------------------------------------------
(* Requests *)

\* SQSScheduler refuses a delay that SQS does not support.
Sendable(d) == d \in 0..MaxDelay

\* POST /transactions.  The message may get lost (SQS fails, the API dies), and is not
\* even sent if the delay is refused; the client is told 201 all the same.
Schedule(t, d) ==
    /\ status[t] = "NONE"
    /\ status' = [status EXCEPT ![t] = "RESERVED"]
    /\ delay' = [delay EXCEPT ![t] = d]
    /\ \/ Sendable(d) /\ queue' = queue \union {Enqueued(t, d)}
       \/ UNCHANGED queue
    /\ UNCHANGED <<age, untilRun, recon, faults>>

Cancel(t) ==
    /\ status[t] = "RESERVED"
    /\ status' = [status EXCEPT ![t] = "CANCELLED"]
    /\ UNCHANGED <<delay, age, queue, untilRun, recon, faults>>

-----------------------------------------------------------------------------
(* The settlement lambda, up to the lock *)

Take(t) == status' = [status EXCEPT ![t] = IF @ = "RESERVED" THEN "WORKING" ELSE @]

\* A message without a receiver is skipped, and gone.
Receive(x) ==
    /\ x \in queue /\ age[x.tx] >= x.at
    /\ queue' = queue \ {x}
    /\ IF x.tx \in Unaddressed THEN UNCHANGED status ELSE Take(x.tx)
    /\ UNCHANGED <<delay, age, untilRun, recon, faults>>

\* The call for the lock fails, which deletes the message; or the invocation dies before
\* or after it, and the message is visible again after the timeout.
ReceiveFails(x) ==
    /\ Fault
    /\ x \in queue /\ age[x.tx] >= x.at
    /\ \/ queue' = queue \ {x} /\ UNCHANGED status
       \/ /\ queue' = (queue \ {x}) \union {Enqueued(x.tx, age[x.tx] + Visibility)}
          /\ UNCHANGED status \/ (x.tx \notin Unaddressed /\ Take(x.tx))
    /\ UNCHANGED <<delay, age, untilRun, recon>>

-----------------------------------------------------------------------------
(* The reconciliation lambda *)

\* GetStuckTransactions.
Stuck == {t \in TxIds : status[t] = "RESERVED" /\ age[t] > Threshold}

StartRun ==
    /\ untilRun = 0 /\ recon = {}
    /\ untilRun' = Period

ReconQuery ==
    /\ StartRun
    /\ recon' = Stuck
    /\ UNCHANGED <<status, delay, age, queue, faults>>

ReconQueryFails ==
    /\ Fault
    /\ StartRun
    /\ UNCHANGED <<status, delay, age, queue, recon>>

\* The loop after one transaction: "don't let one failure stop the whole batch".
BatchAfter(t) == recon \ {t}

\* The message is sent without a delay.
ReconSend(t) ==
    /\ t \in recon
    /\ recon' = BatchAfter(t)
    /\ queue' = queue \union {Enqueued(t, age[t])}
    /\ UNCHANGED <<status, delay, age, untilRun, faults>>

ReconSendFails(t) ==
    /\ Fault
    /\ t \in recon
    /\ recon' = BatchAfter(t)
    /\ UNCHANGED <<status, delay, age, queue, untilRun>>

ReconCrash ==
    /\ Fault
    /\ recon # {}
    /\ recon' = {}
    /\ UNCHANGED <<status, delay, age, queue, untilRun>>

-----------------------------------------------------------------------------
(* Time *)

\* Neither a run, nor a message, nor an expiry is overdue.
NothingDue ==
    /\ untilRun > 0 /\ recon = {}
    /\ \A x \in queue : age[x.tx] < x.at + Delivery
    /\ \A t \in TxIds : status[t] = "RESERVED" => age[t] < Ttl

Tick ==
    /\ NothingDue
    /\ untilRun' = untilRun - 1
    /\ age' = [t \in TxIds |-> IF status[t] = "NONE" \/ age[t] = Ttl THEN age[t] ELSE age[t] + 1]
    /\ UNCHANGED <<status, delay, queue, recon, faults>>

\* DynamoDB removes the item, as early as it may.
Expire(t) ==
    /\ status[t] = "RESERVED" /\ age[t] = Ttl
    /\ status' = [status EXCEPT ![t] = "EXPIRED"]
    /\ UNCHANGED <<delay, age, queue, untilRun, recon, faults>>

-----------------------------------------------------------------------------

Request(t) == (\E d \in Delays : Schedule(t, d)) \/ Cancel(t)

Reconcile ==
    \/ ReconQuery \/ ReconQueryFails \/ ReconCrash
    \/ \E t \in TxIds : ReconSend(t) \/ ReconSendFails(t)

Next ==
    \/ \E t \in TxIds : Request(t) \/ Expire(t)
    \/ \E x \in queue : Receive(x) \/ ReceiveFails(x)
    \/ Reconcile
    \/ Tick

Spec == Init /\ [][Next]_vars

-----------------------------------------------------------------------------
(* Properties *)

\* A transaction is not taken up for settlement before the delay its sender asked for is
\* over, whoever sends its messages and however often; unless the delay is longer than
\* the age at which reconciliation takes it for stuck.
NotBeforeDelay ==
    [][\A t \in TxIds :
        (status[t] = "RESERVED" /\ status'[t] = "WORKING" /\ delay[t] <= Threshold)
        => age[t] >= delay[t]]_vars

\* Each fault costs a transaction at most one period of the reconciliation lambda.
LastRun == Threshold + Period + faults * Period

\* The self-healing has a deadline: even if its first message was never sent or got lost,
\* a transaction is RESERVED no longer than until the last of the runs that faults may
\* have spoiled, and the delivery of the message it sends.
TakenUpInTime ==
    \A t \in TxIds \ Unaddressed : status[t] = "RESERVED" => age[t] <= LastRun + Delivery

\* The ttl, which nothing renews, leaves time for that: the item of a transaction with a
\* receiver does not expire before it was taken up for settlement, or cancelled.  Nothing is
\* said of what comes after the lock: an item left WORKING expires with its funds reserved,
\* as does one without a receiver.
TriedBeforeExpiry == \A t \in TxIds \ Unaddressed : status[t] # "EXPIRED"
=============================================================================
