# Delayed Wallet Transactions: specifications and proofs

TLA+ models of the service in this repository, the TLC runs that check them and
the TLAPS proofs about them. The models are written from the Go code under `cmd/`
and `pkg/` and the TypeScript code under `web-client/src/`; paths below are relative
to the repository.

## 1. The system

A user schedules a transfer to another user. The API reserves the money at once,
a message with the chosen delay goes to an SQS queue, and a lambda settles the
transfer when the message arrives. Another lambda looks every six hours for
transfers that got stuck.

| Component | Code | State it keeps | Operations |
|---|---|---|---|
| Storage | `pkg/storage/dynamodb`, `pkg/models` | tables `Wallets` (balance, reserved, version), `Transactions` (status), `LedgerEntries` | conditional writes: CreateWallet, DeleteWallet, CreateTransaction, acquireTransactionLock, executeSettlement, CancelTransaction; reads; expiry by `ttl` |
| Scheduling and cancelling API | `pkg/handlers/transactions`, `pkg/scheduler` | what a request has read so far | `POST /transactions` (read wallet, write, send, reply), `DELETE /transactions/{id}` (read transaction, read wallet, write, reply), `POST /transactions/{id}/notify-settlement` |
| Wallet API | `pkg/handlers/wallets`, `pkg/mapping` | none | `POST /wallets`, `DELETE /wallets/{id}`, reads |
| Settlement lambda | `cmd/settlement_lambda` | what an invocation has read so far | per message: lock, read both wallets, settle, notify |
| Queue | SQS (`template.yaml`) | messages | at-least-once delivery; a message is deleted when the invocation returns nil and comes back when it does not return |
| Reconciliation lambda | `cmd/reconciliation_lambda` | the query's result | query for RESERVED transactions older than six hours, one send for each |
| WebSocket side | `pkg/websockets`, `pkg/handlers/websockets`, `pkg/storage/dynamodb/websockets.go` | table of connections | connect, disconnect, publish to all connections, remove stale ones |
| Web client | `web-client/src` | sockets, wallets and transactions on the page | connect and reconnect, deduplicate messages, fetch |
| The rest | `pkg/api` (generated), mocks, middleware, `cmd/app`, UI components | none | routing, logging, presentation |

The lambdas and the API share nothing but the tables and the queue; the page talks to
the API by HTTP requests and gets messages over its WebSocket. A handler is a
sequence of calls to DynamoDB and SQS; each call is atomic, and between two calls
of one handler anything else may happen: other requests, other invocations of the
same lambda, crashes, expiry of an item. What makes this hard is

- **stale reads**: a wallet is read, and written later on condition that its
  `version` is still the one that was read; `GetWallet` does not ask for a consistent
  read, so what it returns may be out of date from the start;
- **at-least-once delivery**: messages are duplicated, redelivered after a crash
  and sent again by reconciliation; the WORKING status is the lock against it;
- **races** of cancellation and settlement on one transaction;
- **crashes and lost replies** between the reservation and the message, between
  the lock and the settlement, and after the settlement;
- **a list of connections** that is read once and then posted to, while clients come
  and go, and whose index lags behind the table;
- **callbacks of the page** (messages, answers, timeouts, clicks) in any order, several
  fetches under way and several sockets at once;
- **deletion and re-creation** of wallets, whose versions start again from 1, and
  **expiry** of items whatever their state: delay, threshold, period and `ttl` must
  fit each other, with a margin for what fails.

`PROJECT.json` lists these hazards with their lines and the properties that are
about each.

What makes each component correct:

- storage: no overdraft among amounts of zero or more; money of a transfer leaves its sender once and arrives at
  most once; one posting per completed transfer;
- API: what a client was told stays true; optimistic locking notices every change;
- settlement: the lock is exclusive; a redelivered message changes nothing;
- reconciliation: a RESERVED transaction is always taken up in the end, not before its
  delay, and, if it has a receiver, before its item expires;
- publisher: one client's stale connection costs no other client the message; ids of
  closed connections go;
- page: it stays connected, comes to show what it was told of, and shows nothing as
  cancelled that is not;
- all together: `reserved` is the sum of what is pending, the ledger explains the
  wallets, and no step moves money otherwise.

## 2. Modules

```
EscrowBank            what the service promises: one escrow per transfer
   ^ implements
Tables                the three tables and every conditional write to them
   ^ implements, and EXTENDS
TransferSystem        API requests, lambdas, queue, faults, time
   ^ EXTENDS
Accounting            sums over all transactions and over all wallets

Retention             delays, ages and runs on a clock

Broadcast             what Publish promises: a message to an audience
   ^ implements
Notifications         connections table, $connect and $disconnect, the publisher's loop
SocketClient          the page's sockets: connect(), reconnection
WalletPage            messages, fetches and dialog of the page

MCTransfers, MCRetention, MCNotifications, MCSocketClient, MCWalletPage
                      what TLC runs
TablesProofs, TransferProofs, RetentionProofs, NotificationsProofs,
SocketClientProofs, WalletPageProofs
                      theorems about the module of that name
SumProofs, AccountingProofs
                      sums over finite sets; theorems about Accounting
```

`Retention` is `TransferSystem` seen as a timetable: statuses and messages as there, the
settlement after the lock left out, and a clock that says when an item is old, a run is
due and an item expires. `Notifications`, `SocketClient` and `WalletPage` are coupled to the rest by what is handed
on: `Notify` of
`TransferSystem` and the end of a scheduling request are a `Publish` of
`Notifications`; a post to an open connection is a message in the air of `WalletPage`;
a socket that is open in `SocketClient` is an open connection of `Notifications`, and
the number of open ones is `Copies` in `WalletPage`. They are checked apart, each with
its neighbours as nondeterministic as the code leaves them.

### EscrowBank

The abstract specification. `open` is the set of users who have an account,
`available` their money, `escrow[t]` where the money of transfer `t` is: "none",
"held", "paid" or "refunded". There are no versions, locks, messages or time, and no
pooled `reserved` field. Deleting an account makes what was in it vanish, as
`DeleteWallet` does.

### Tables

`wallets[u]` is the item of user `u` with the fields of `models.Wallet`. When a user
has none, `exists` is FALSE. `created_at` numbers the wallets a user has had, so
that a wallet made after a deletion can be told from the one before it; the code has
a time there. A wallet goes by `DeleteWallet` or by its `ttl` (`RemoveWallet` is both), and
only the users in `Deletable` lose theirs. `transactions[t].status` is the status of the item, and outlives the
item's expiry (`exists`) so that properties can speak of expired ones; no action
looks at the status of an item that does not exist. `ledger[t][u]` totals the
entries of `t` on the account of `u`. `terms[t]` is what the request and the item say
of sender, receiver and amount, which never change. An amount is any integer: the service
checks none, and of zero or less it reserves, settles and releases like any other.
`OverdrawnByNegative` says what the conditions are worth then: a wallet can be overdrawn
only if a transaction of a negative amount from or to its user was made.

Each write of the code is one action, with the condition expression as an operator
of its own (`CanReserve`, `CanLock`, `CanSettle`, `CanRelease`) so that its failure
can be modelled, and the update expression as another (`Reserve`, `Release`, `Spend`,
`Earn`, `PostEntries`). The version a write expects is a parameter. DynamoDB rejects
a TransactWriteItems call with two operations on one item, so `CanSettle` is false for
a transfer from a user to the same user, which the API accepts.

`TablesSpec` allows every write at any time with the current versions; it is an
abstraction of the processes, and it is what implements `EscrowBank`. `BooksMove` is
double entry as an action property: what a step does to a wallet is what it does to the
status and the ledger entries of at most one transaction.

### TransferSystem

Each handler is a record with a `pc` that names the call it makes next (or its
reply) and what it has read:

| Action | Code |
|---|---|
| `CreateWallet`, `DeleteWallet` | the handlers of `pkg/handlers/wallets/wallets.go` |
| `ScheduleRead`, `ScheduleWrite` | `CreateTransaction`: GetWallet, TransactWriteItems |
| `ScheduleSend` | `SQSScheduler.ScheduleTransaction`; the reply is 201 whether it works or not, unless reading the wallet and publishing take the handler to its timeout |
| `ScheduleFails` | a failed call, the 5 s timeout of the API, a crash |
| `CancelRead`, `CancelReadWallet`, `CancelWrite`, `CancelFails` | `CancelTransaction` and its replies |
| `Receive` | an invocation gets its message, which becomes invisible |
| `AcquireLock`, `AcquireLockFails` | `acquireTransactionLock`; the second may have been applied |
| `ReadSender`, `ReadReceiver`, `Settle`, `SettleFails` | `executeSettlement` |
| `Notify` | `notifyApi`; its effect is a `Publish` of `Notifications` |
| `WorkerCrash`, `DuplicateMessage` | SQS and Lambda: visibility timeout, at-least-once delivery |
| `ReconQuery`, `ReconSend`, `ReconSendFails`, `ReconCrash` | the reconciliation lambda |
| `GrowOld`, `Expire` | an item passes six hours; its `ttl` |

`HandleRequest` of the settlement lambda returns nil on every path, so in the model,
too, the end of an invocation deletes its message, also after a failure; only
`WorkerCrash` puts it back. A message carries the transaction's id, sender, receiver
and amount; all but the id are in `terms`, and the status it carries is not used.

A write whose reply is lost: for the API's writes it is the write followed by
`ScheduleFails`, or a choice of reply in `CancelWrite`; the SDK repeats a
TransactWriteItems call under the same token, so a repetition is not a second write.
The UpdateItem of the lock has no token: applied and repeated, it reports a failed
condition (`AcquireLockFails`).

`GetItem` is eventually consistent. `CancelRead` may answer with any item the
transaction has had: none, a RESERVED one, or the current one. For wallets, whose versions
matter, there are copies of the table that lag behind: `Readable(u)` is the current wallet
and what each of `Copies` has, and each read of a wallet picks one of them;
`Replicate` has a copy catch up at any time (for the users in `Replicated`; for others a
copy stays as it was at the start, which is the oldest read there is). It may do so after
each write or after several. The
writes themselves, and the conditions on them, see the current items.

### Accounting

`HeldFrom` and `Posted` are sums over transactions, `Money` is the sum over wallets of
what each is worth (balance and reserved together). `ReservedMatchesPending` and
`LedgerExplainsWallets` are about a user's first wallet: after a deletion neither holds,
which is the run `replaced`. `MoneyConserved` holds of every wallet, replaced or not: a
write to the tables leaves `Money` as it is, but for `POST /wallets`, which pays in the
seed balance, and `DELETE /wallets/{id}` or the wallet's `ttl`, which take what the wallet
was worth. `StrandedByCause` says what `Stranded` transactions are due to: a fault, or
what `Disturbed` lists, in which a read that is out of date counts whether it was so
when it was made or has become so since. The sums are those of the community modules, and finite (`BooksAssumption`).

### Retention

`age[t]` is the time since `created_at`, `delay[t]` what the request asked for, a message
in `queue` has the age of its transaction at which it gets visible, and `untilRun` is the
time to the next run of the reconciliation lambda.

| Action | Code |
|---|---|
| `Schedule` | `POST /transactions`: the message goes with its delay, is refused (`Sendable`), or is lost |
| `Cancel` | `DELETE /transactions/{id}` |
| `Receive`, `ReceiveFails` | the settlement lambda up to its lock; a transaction without receiver is skipped; a failed lock deletes the message, a crash makes it visible again after the `VisibilityTimeout` |
| `ReconQuery`, `ReconQueryFails` | a run starts, and finds the RESERVED transactions older than the threshold, or fails |
| `ReconSend`, `ReconSendFails`, `ReconCrash` | its loop, which goes on after a failed send |
| `Tick`, `Expire` | the clock; the `ttl` set when the transaction was made |

`TriedBeforeExpiry` is as far as this module can see: a transaction with a receiver is
taken up, and so is no longer RESERVED, before its item expires. It does not say that the
funds of an item that expires are free. A settlement that fails after the lock leaves a
WORKING item, which expires with its funds reserved, and so does a transaction without
receiver, which no settlement ever takes up; the run `stranded` and section 4 are about
that.

The clock does not pass a point at which a run, a message or an expiry is due
(`NothingDue`), so `Delivery`, a bound on how long SQS takes with a visible message, is
what the model assumes of the infrastructure. `Expire` is as early as DynamoDB may remove
an item; it takes longer in fact. The threshold is exclusive, as in the query.

### Broadcast

The abstract specification of `Publish`: connections join and leave, and a call addresses
an audience of connected clients, delivers to connected clients only, may lose one
(`Lose`, an error of the service), and returns when nobody of the audience is left who is
connected and was neither reached nor lost. There is no table, index, stale id or
route handler. `Notifications` implements it: ids in the index of clients that have gone,
or are not open yet, drop out of the audience.

### Notifications

`gate[c]` is a connection as API Gateway knows it, `handler[c]` the invocation of the
lambda for one of its routes, `table` the ids in `WebsocketConnections` and `index`
what the eventually consistent `pk-index` shows of them. `pub[p]` is a call of
`Publish`: its `pc`, the ids it has yet to post to, and, for the properties, whom it
has reached.

| Action | Code |
|---|---|
| `Connect`, `HandleConnect`, `HandleConnectFails`, `Accept` | `$connect`: API Gateway invokes the lambda, which writes the id; the connection opens when its 200 is back |
| `Close`, `HandleDisconnect`, `HandleDisconnectFails` | a connection goes; `$disconnect` is invoked at best |
| `IndexFollows`, `ExpireConnection` | DynamoDB: index, `ttl` |
| `Publish`, `Query` | a request publishes; `GetAllConnections` |
| `Post`, `PostToStale`, `PostFails` | `PostToConnection`: delivered, GoneException, another error |
| `RemoveStale`, `RemoveStaleFails`, `Finish`, `PublishFails` | the rest of the loop |

API Gateway and DynamoDB are external and modelled by what the code relies on: an id is
used once, a post to a connection that is not open is answered GoneException, and a
connection can be posted to only after `$connect` has replied. `$default` logs and
changes nothing; `ServeHTTP` is for a local server, which `cmd/app/main.go` does not
start.

### SocketClient

`sock[s]` is a socket's `readyState`, `socket` is `this.socket`, `attempts` is
`reconnectAttempts`, and `timers` counts the timeouts of `onclose` that have yet to fire.
`Render` is a render of the page: `onTransactionUpdate` is a new function each time, so
the effect of `WebSocketHandler` runs and calls `connect()`, which returns early for an
open socket only. `Open`, `Refuse` and `Drop` are `onopen` and `onclose`; `Reconnect` is the
timeout. `disconnect()` is never called. `renders` and `refused` are bounds, and the
properties use them as measures.

### WalletPage

`status` is the state of the service as far as answers and messages tell of it, with the
service's steps `ScheduleTransaction`, `Lock`, `Settle`, `CancelElsewhere`, `ServeCancel`
and `Publish` (which may lose a message, as the code only logs a failure to publish). A
request, its answer and the arrival of the answer are three steps, so that answers may
pass each other: `FetchWallets`, `Answer`, `Arrive`; `ShowTransactions`, `ListAnswer`,
`ListArrive`; `CancelTransaction`, `ServeCancel`, `Cancelled` or `CancelRefused`;
the POST of the form, `Scheduled` or `ScheduleFailed`. A cancellation may be answered with an
error whatever the status is (a version conflict, a failed read, a lost reply), also
when it was applied; a POST may fail after it has made its transaction.
`HandleWalletUpdate` is the handler of a message, with both fetches, the status it reports
and deduplication. `UpdateEffect` is the dialog's effect on `updatedTransaction`, which
comes after the next render and sees the last message only. `Listing` is what the API
lists: `toApiStatus` hides WORKING behind RESERVED, so that the dialog offers to cancel
what the service will refuse to cancel. Balances are a function of
what happened to the transactions, so an answer is a snapshot of their statuses.

## 3. Runs

| Run | Module, behaviour | Shows |
|---|---|---|
| `transfers` | `MCTransfers`, `Spec` | types, no overdraft, exclusive lock, sound optimistic locking, true replies, `reserved` equals what is pending, ledger explains wallets, settlements fail for the known causes only; two requests, two invocations, a client that cancels, one fault, reads as old as the table |
| `lifecycle` | `MCTransfers`, `FairSpec` | replies, ledger, double entry, postings, the conservation of money, `Tables` and the bank implemented, for a positive and for a negative amount and with reads that lag behind, while the wallets of one user are deleted and created again and the item expires, also for transfers from a user to the same user; a RESERVED transaction is taken up in the end, whatever fault there is; one left WORKING stays so, and is so for the known causes only; only a negative amount overdraws |
| `retention` | `MCRetention`, `Spec` | nothing is taken up before its delay; each fault costs at most one period; with one fault nothing that has a receiver expires before a settlement has tried it |
| `notifications` | `MCNotifications`, `FairSpec` | a failure with one connection keeps nobody else from a message; `Broadcast` implemented; ids of closed connections go |
| `sockets` | `MCSocketClient`, `FairSpec` | the page is never offline without having used up its attempts; it reconnects for ever if it does not fail too often in a row |
| `page` | `MCWalletPage`, `FairSpec` | what is shown as REJECTED is cancelled; what the page was told of comes to be shown |
| `stranded` | `FairSpec` | violation: a transaction stays WORKING for ever without any fault |
| `misreported` | `Spec` | violation: 422 although the wallet has enough |
| `replaced` | `Spec` | violation: `reserved` of a re-created wallet is not what is pending |
| `unlisted` | `MCNotifications`, `Spec` | violation: an open connection is removed as stale |
| `outoforder` | `MCWalletPage`, `Spec` | violation: older balances replace newer ones for good |
| `unannounced` | `MCWalletPage`, `Spec` | violation: a credit is taken for a duplicate of its debit |

**Bounds.** Two users are both ends of every transfer and, with two transactions,
share a wallet as sender, as receiver, or each as the other's receiver. The seed
balance is 3 and amounts are 2, so that one reservation fits and two do not, and what
arrives can be spent. `lifecycle` also has an amount of -4, which makes a receiver's
balance of 3 negative when it is settled. Two workers
are enough for two invocations on one transaction and for two settlements that
conflict on a wallet. `MaxFaults` bounds crashes, duplicates, and failed or lost calls
of the lambdas in a behaviour: one is enough to lose a lock's reply or to redeliver
after a settlement; failed API requests are not counted. `MaxQueued` bounds how many
copies of a message wait before another one may be added by a duplicate or by
reconciliation. `MaxCreations` bounds how many wallets a user has in a row: two are a
wallet and its replacement. In `lifecycle` one of the two users is deletable, and is
sender, receiver or both.

One copy of the wallets is enough for a read that is out of date, and either of two reads of
one invocation may be. In `transfers` the copy stays as it was at the start, so that a
read is of the current version or of version 1; in `lifecycle` it catches up with the
wallet of the user who keeps it at any time (not with the one that is deleted and made again,
so that a read may return a wallet that is gone). The runs `stranded`, `misreported` and `replaced`
have no copies: what they find needs none.

`retention` counts in hours: threshold and period 6, `ttl` 24; the 15 minutes, the
visibility timeout and the delivery of a message count as one hour, and the delays are
none, one that SQS takes, and two that it refuses: one of 3 hours, before whose end
reconciliation does not see the transaction, and one of 7 hours, which is longer than the
threshold and is not kept. One transaction has no receiver. With one fault a transaction is taken up after
6 + 6 + 6 + 1 hours at most; a second fault adds 6 more, which is past the `ttl`, and TLC
then finds an item that expires RESERVED. `NoneLostUntried` says for which values none
does.

`notifications` has two connections, one that fails and one that must not suffer, and two
faults; its publisher publishes again and again. `PublishWorks` is the theorem for any
number of publishers. `sockets` has as many sockets as can live at once with two
renders and one reconnection; six failures in a row are what the page needs to give up
after loading. `page` has one transaction, since the page handles each on its own (what
several messages do to one `updatedTransaction` is the same with the two messages of one
transaction), two fetches and one list under way; `unannounced` has two sockets, so that
each message comes twice. The theorems of section 5 have none of these bounds.

**Symmetry** is used in `transfers` only, where users, transactions and workers are
interchangeable; its one temporal property, `StrandedByCause`, has no liveness part.

**Deadlock.** `sockets` may stop: the page gives up. The other
runs check for deadlock.

**Fairness** (`lifecycle`, `stranded`): time passes (`GrowOld`), SQS delivers what is
visible to some invocation, an invocation takes its steps (`Process`; a failure or
crash is a step of another kind and ends it), EventBridge starts the reconciliation
lambda, and it gets through its batch. Clients and API requests have no fairness:
a request may stop anywhere, which is the case `ReservedIsTakenUp` is about. Faults are
bounded, so they cannot prevent progress for ever; without that, no retry would be
enough. `notifications`: a Publish call takes its steps unless it fails, and the index follows the table; that something is published again and
again is a premise of `StaleConnectionsGo`. `sockets`: timeouts fire, and an attempt to
connect succeeds or fails. `page`: the service answers, answers and messages that are on
their way arrive, and the page handles them; users have no fairness.

## 4. Disagreements with the documentation

Each is a run that TLC finds violated, and an entry under "findings" in
`PROJECT.json`.

- `stranded`: `executeSettlement` fails on a version conflict, which any request on
  one of the two wallets can cause between its reads and its write. The transaction is
  then WORKING, its message is deleted, and reconciliation looks for RESERVED only.
  The README of the reconciliation lambda promises that nothing is "left in an
  intermediate state". The code's own rule is the opposite, and a theorem
  (`StrandingIsFinal`): a WORKING transaction that no invocation holds is WORKING for good.
  Without a fault there are few causes (`StrandingHasCause`): a read of a wallet that was
  out of date, or that a write to the wallet has made so; a wallet that is gone or was
  replaced, or the item that is gone; a transfer to oneself; or another transaction of the
  sender, of a negative amount, that is pending.
- `misreported`: `ErrInsufficientFunds` is returned for any failed condition, so also when
  another write (a settlement that pays the sender, say) has changed the wallet's version
  between the request's read and its write.
- `replaced`: `DeleteWallet` does not look at what is reserved. That is the only cause:
  where no wallet is deleted, or expires, `reserved` is what is pending
  (`ReservedUnlessDeleted`).
- `unlisted`: `HandleConnect` lists an id before API Gateway opens the connection. A
  publisher that posts in between is told the connection is gone and removes it from the
  table, which "retrieves all active WebSocket connection IDs" no more.
- `outoforder`: `setWallets` takes the answer that arrives last, not the latest one.
- `unannounced`: debit and credit have the same transaction id, by which messages are
  deduplicated for two seconds.

Seen while modelling, in the model, but without a run of their own: a settlement that
fails returns nil, so its message is deleted, whereas `cmd/settlement_lambda/README.md`
says it becomes visible again; the message of a reservation makes the dialog show the
transaction as COMPLETED (`WebSocketHandler.tsx`, line 38); a page that renders while it
is connecting makes a second socket, and an attempt counted after the other one has
opened brings the end of reconnection nearer (the premise of `StaysConnected`); a wallet,
too, has a `ttl` of 24 hours, which creation, reservation and settlement renew and a
cancellation does not, and which takes the balance with it; the service takes amounts of
zero or less, which the web client's form does not, and a settled negative one takes from the
receiver what may not be there (`OverdrawnByNegative` is the invariant that is left; the
docs state no other).

## 5. Theorems

Proved with TLAPS for all values of the constants that satisfy the named assumptions:
amounts are integers, the seed balance is a natural number, `InitiallyOpen` is a set
of users, the bounds are natural numbers and `NoTx` is not a transaction; for the sums,
users and transactions are finite in number. Nothing is assumed of the copies that wallets
are read from but what the model says: each lags behind the table.

`TablesProofs`: every invariant is inductive together with the type invariant.
`NoOverdraft` rests on the balance condition, which only a negative amount gets around
(`BalancesStep`), `PostedOnce` on the status conditions
(`ledger[t]` only changes in the step from WORKING to COMPLETED). `ImplementsBank`
maps each write to a step of the bank or to a stutter; it needs `NoOverdraft`, as the
bank's guards are on what is available, and holds although wallets pool their
reservations, since a release or settlement is guarded by the transaction's status.
`DoubleEntry` goes through the writes by their effects on one wallet: each changes
`reserved` by what becomes or ceases to be pending, and balance and reserved together by
what is posted.

`TransferProofs`: `SystemImplementsTables` is the step that lets the theorems about
the tables be used for the system: a write with a version that is no longer current
fails its condition, so every write that is applied is one of `TablesSpec`;
`SystemNoOverdraft`, `SystemPostedOnce`, `SystemImplementsBank` and `SystemDoubleEntry`
follow.
`LockWorks` is by the observation that a lock is taken from RESERVED, when by the
invariant nobody is past the lock, and that only a holder leaves WORKING. `VersionWorks`
uses that a write to a wallet that stays bumps its version and that a wallet that
replaces another has a later `created_at` (`WalletEvolves`), so that what holds of a
snapshot is kept whatever is written (`SnapshotKept`); the copies that reads may come from are
such snapshots, too (`CopiesLag`, an invariant of its own), so a read begins with what it is
to keep (`SnapshotRead`); each action is then a case of `VersionKept`. `RepliesHold` needs a stronger invariant, `RepliesInv`: a request that
has not written yet must not find its transaction created, which holds as no other
process creates it. `StrandingIsFinal` is by cases on `Next`: only an invocation past the
lock writes to a WORKING transaction, and the lock is refused to any other
(`WorkingKept`), so what comes later, a redelivered message, a cancellation, a
run of reconciliation, is refused or does not see the transaction.

`SumProofs` is about the sum that the community modules define by a recursive function
on the subsets of a finite set. That a sum is taken apart at any element, whatever element
`CHOOSE` picks, needs induction over subsets. The library's induction theorems take a
predicate as a parameter, which the provers cannot instantiate; `SubsetInduction`
states the principle for a set of subsets instead, by a minimal element of those outside
it (the strict subset order on a finite set is well-founded, and `WFMin`). The lemmas
that proofs use are what a change of one summand does to the sum (`SumChanged`), that a
sum of zeros is zero, and that a sum is at least a summand if the others are not negative
(`SumCovers`).

`AccountingProofs`: the books of a user hold as long as the first wallet does, and to be
preserved they need two more facts, which together with them are `BooksInv`. A user who
never had a wallet has sent and received nothing (`Unused`), or the first wallet would begin
with books that do not match; and what is no wallet holds no money (`Absent`), or making
one would create some. A wallet, once there, changes by a write only, which by `BooksMove`
moves the summand of at most one transaction by what it moves the wallet (`BooksFollow`);
all other summands stay (`BooksStay`). `ReservedAddsUp` and `LedgerAddsUp` are parts of the
invariant, and the system has it since it implements `Tables`. `PendingIsCovered` is what
the code relies on without saying so: `CancelTransaction` lowers `reserved` without a condition
on it, and `executeSettlement` fails if it is short, which for a first wallet it never is as
long as no other transaction pending from it has a negative amount (with +2 and -2
pending, `reserved` is 0).
`ReservedUnlessDeleted` adds that without deletions every wallet is a first one.
`StrandingHasCause` puts four invariants together: an invocation about to settle holds the
lock (`LockWorks`), so that the status is WORKING; if the wallets are still as it has
read them, their versions are, and they are there (`VersionWorks`); and what it needs is
reserved (`PendingIsCovered`, unless a negative amount is pending, which `Disturbed` lists). So the condition holds (`SettlesUndisturbed`), and each other
step of `Next` strands nothing unless it counts a fault (`StrandedFrom`).
`MoneyIsConserved` goes through the writes: one wallet, or both wallets of a settlement,
change, by amounts that cancel out (`MoneyStays`, `MoneyFollows`, `MoneyPasses`).

`NotificationsProofs`: `PublishWorks` needs to know where a connection of the audience
is: still to be posted to, reached, refused, about to be removed, or closed. As ids are not
used again, a closed connection stays closed, which is the one fact about API Gateway the
proof uses. `PublishBroadcasts` adds that the audience is of clients that were connected at
the query; each step of the loop is then a step of `Broadcast`, where `RemoveStale` and the
routes of other connections are stutters.

`RetentionProofs`: the times are any numbers with `MaxDelay <= Threshold` and
`Delivery < Period`. For `SelfHealingInTime`, a RESERVED transaction is always `Watched`:
by a run that comes before it is too late, by the run under way that has yet to send its
message, or by a message that such a run has sent in this period. A fault may take any of
them away, but also counts, and moves the last run one period on (`FaultEndured`). `NoneLostUntried` is its
corollary when `Threshold + Period + MaxFaults * Period + Delivery < Ttl`. `DelayKept` is by
`DelayInv`: no message of a transaction whose delay is within the threshold gets visible
before that delay, and the batch holds only transactions past the threshold.

`SocketClientProofs`: `NeverSilentlyDown` is inductive with the types: `connect()` leaves a
socket that is open or connecting (`ConnectedAfterCall`), and `onclose` a timeout unless
the attempts are used up (`TimerAfterClose`), which nothing but an open socket resets.

`WalletPageProofs`: `RejectionsTrue` needs one more fact (`CancelInv`), that an answer
"done" to a cancellation is on its way only when the transaction is cancelled, which is
for good. The types need lemmas about bags of answers (`AnswerAdded`, `AnswerTaken`).

Only model-checked: the liveness properties (`ReservedIsTakenUp`, `StaleConnectionsGo`,
`StaysConnected`, `ChangesAreShown`), as the provers know neither fairness nor ENABLED.
Every invariant and action property of a passing run is a theorem.

## 6. Not modelled, and the plan

- **Scans behind the page.** The Scan of `ListWallets` is eventually consistent, too.
  `ChangesAreShown` assumes that it has caught up by the time the message has arrived.
  (`GetItem`'s reads of a wallet that are out of date are in `TransferSystem`.)
- **Snapshots.** `ListWallets` is a Scan, which may see one wallet before a settlement
  and another after it; in `WalletPage` an answer is of one state.
- **Clocks** are in `Retention` only. In `TransferSystem`, that an item is old, and that it
  expires, are events in this order; on the page, the two seconds of deduplication and the
  three of reconnection are events, too.
- **Pages.** `GetStuckTransactions` reads one page; in the models all stuck transactions fit.
- **Batches.** One message per invocation, as `template.yaml` has it. With more,
  `return nil` in `HandleRequest` would abandon the rest of a batch.
- **Amounts** beyond 64 bits: sums do not overflow in the models.
- **The page**: a dialog is opened again only when the requests of the last one have been
  answered, or have failed; the ledger drawer, the countdown and the form's validation are left out.
- Read-only handlers, wiring, generated code.

What could come next, in order of importance:

1. `WalletPage` with two transactions of two wallets, a Scan in two steps, dialogs that
   overlap.
2. `SettlementBatch`, should `BatchSize` be raised: several messages per invocation, where
   `return nil` abandons the rest. Property: no message is deleted unseen.
3. Balances in the messages: what `notify-settlement` reads and what the page makes of it.
4. Proofs: the bank's own invariants (each escrow goes one way), and that `Retention`'s
   queue and statuses are those of `TransferSystem`.
