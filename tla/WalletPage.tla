---------------------------- MODULE WalletPage ----------------------------
(***************************************************************************)
(* The page of the web client (app/page.tsx), its handler of WebSocket     *)
(* messages (WebSocketHandler.tsx) and the dialog with the outgoing        *)
(* transactions of a wallet (NewTransactionDialog.tsx), with as much of    *)
(* the service as they see.  A callback of the page is one step; a         *)
(* request, its answer and the arrival of the answer are three.            *)
(***************************************************************************)
EXTENDS Naturals, Bags

CONSTANTS
    TxIds,        \* transactions from the wallet of the dialog
    NoTx,         \* updatedTransaction before the first message
    Copies,       \* open sockets of the page: it gets each message once for each
    MaxFetches,   \* bound: fetchWallets calls under way
    MaxLists      \* bound: showTransactions calls under way

ASSUME PageAssumption ==
    /\ NoTx \notin TxIds
    /\ Copies \in Nat \ {0}
    /\ {MaxFetches, MaxLists} \subseteq Nat

VARIABLES
    status,        \* the status of each transaction in the service
    owed,          \* messages the API has yet to publish
    air,           \* air[m]: copies of the message m on their way to the page
    heard,         \* transactions whose credit message the page has handled, for the properties
    asked,         \* fetchWallets requests the service has yet to answer
    answers,       \* its answers on their way
    wallets,       \* React state of the page; see Snapshot
    error,         \* whether the page shows an error in their place
    isLoading,     \* whether the page waits for its first wallets
    listAsked,     \* the same for showTransactions
    listAnswers,
    transactions,  \* React state of the dialog: the status it shows
    view,          \* what the dialog shows
    updatedTransaction, \* React state of the page not yet passed to the dialog's effect
    posting,       \* transactions made by a POST of the dialog that has no reply yet
    cancel,        \* cancel[t]: the DELETE request for t
    processedIds,  \* transactions within the two seconds of deduplication
    toasts         \* transactions whose credit was announced

server == <<status, owed>>
page == <<air, heard, updatedTransaction, processedIds, toasts>>
fetch == <<asked, answers, wallets, error, isLoading>>
list == <<listAsked, listAnswers, transactions, view>>
requests == <<posting, cancel>>
vars == <<server, page, fetch, list, requests>>

Status == {"NONE", "RESERVED", "WORKING", "COMPLETED", "CANCELLED"}

\* Balances are a function of what has happened to each transaction, so the wallets of
\* an answer are described by the statuses at its time.  A list of transactions has
\* those that are not "NONE".
Snapshot == [TxIds -> Status]

Message == TxIds \X {"debit", "credit"}

\* CANCELLABLE_STATUSES, as far as the service has them.
CANCELLABLE == {"RESERVED"}

TypeOK ==
    /\ status \in Snapshot
    /\ owed \subseteq Message
    /\ air \in [Message -> 0..Copies]
    /\ heard \subseteq TxIds
    /\ asked \in Nat
    /\ IsABag(answers) /\ BagToSet(answers) \subseteq Snapshot
    /\ wallets \in Snapshot
    /\ error \in BOOLEAN /\ isLoading \in BOOLEAN
    /\ listAsked \in Nat
    /\ IsABag(listAnswers) /\ BagToSet(listAnswers) \subseteq Snapshot
    /\ transactions \in [TxIds -> Status \union {"REJECTED"}]
    /\ view \in {"closed", "form", "transactions"}
    /\ updatedTransaction \in TxIds \union {NoTx}
    /\ posting \subseteq TxIds
    /\ cancel \in [TxIds -> {"none", "asked", "done", "refused"}]
    /\ processedIds \subseteq TxIds
    /\ toasts \subseteq TxIds

Nothing == [t \in TxIds |-> "NONE"]

\* A page that has just been loaded.
Init ==
    /\ status = Nothing /\ owed = {}
    /\ air = [m \in Message |-> 0] /\ heard = {}
    /\ asked = 1 /\ answers = EmptyBag /\ wallets = Nothing
    /\ error = FALSE /\ isLoading = TRUE
    /\ listAsked = 0 /\ listAnswers = EmptyBag /\ transactions = Nothing
    /\ view = "closed" /\ updatedTransaction = NoTx
    /\ posting = {} /\ cancel = [t \in TxIds |-> "none"]
    /\ processedIds = {} /\ toasts = {}

FetchWallets(n) ==
    /\ asked + n + BagCardinality(answers) <= MaxFetches
    /\ asked' = asked + n

FetchList(n) ==
    /\ listAsked + n + BagCardinality(listAnswers) <= MaxLists
    /\ listAsked' = listAsked + n

\* The dialog's map over transactions changes those in the list.
ShowStatus(t, s) ==
    transactions' = [transactions EXCEPT ![t] = IF @ = "NONE" THEN @ ELSE s]

-----------------------------------------------------------------------------
(* Faulty variants of definitions below; no action uses them *)

\* onWalletUpdate after the deduplication check, where the toast is.
RefreshFresh(t) == IF t \in processedIds THEN UNCHANGED asked ELSE FetchWallets(2)

\* "REJECTED" is shown when the button is pressed.
ShowCancelling(t) == ShowStatus(t, "REJECTED")

\* The effect takes the message as the state instead of its status.
ShowUpdated(t) == transactions' = [transactions EXCEPT ![t] = "UPDATED"]

-----------------------------------------------------------------------------
(* The service *)

ScheduleTransaction(t) ==
    /\ status[t] = "NONE"
    /\ status' = [status EXCEPT ![t] = "RESERVED"]
    /\ owed' = owed \union {<<t, "debit">>}
    /\ \/ view = "form" /\ posting' = posting \union {t}
       \/ UNCHANGED posting
    /\ UNCHANGED <<page, fetch, list, cancel>>

Lock(t) ==
    /\ status[t] = "RESERVED"
    /\ status' = [status EXCEPT ![t] = "WORKING"]
    /\ UNCHANGED <<owed, page, fetch, list, requests>>

Settle(t) ==
    /\ status[t] = "WORKING"
    /\ status' = [status EXCEPT ![t] = "COMPLETED"]
    /\ owed' = owed \union {<<t, "credit">>}
    /\ UNCHANGED <<page, fetch, list, requests>>

\* A cancellation by another client, which no message tells of.
CancelElsewhere(t) ==
    /\ status[t] = "RESERVED"
    /\ status' = [status EXCEPT ![t] = "CANCELLED"]
    /\ UNCHANGED <<owed, page, fetch, list, requests>>

\* NotifySettlement, and the message of ScheduleTransaction; either may be lost.
Publish(m) ==
    /\ m \in owed
    /\ owed' = owed \ {m}
    /\ air' = [air EXCEPT ![m] = Copies] \/ UNCHANGED air
    /\ UNCHANGED <<status, heard, updatedTransaction, processedIds, toasts,
                   fetch, list, requests>>

\* The transaction is not RESERVED; or its wallet cannot be read, has another version by
\* now, or the call fails; or all goes well, but the answer may be lost.
ServeCancel(t) ==
    /\ cancel[t] = "asked"
    /\ \/ /\ status[t] = "RESERVED"
          /\ status' = [status EXCEPT ![t] = "CANCELLED"]
          /\ \E reply \in {"done", "refused"} : cancel' = [cancel EXCEPT ![t] = reply]
       \/ /\ cancel' = [cancel EXCEPT ![t] = "refused"]
          /\ UNCHANGED status
    /\ UNCHANGED <<owed, page, fetch, list, posting>>

-----------------------------------------------------------------------------
(* The page: fetchWallets and messages *)

Answer ==
    /\ asked > 0
    /\ asked' = asked - 1
    /\ answers' = answers (+) SetToBag({status})
    /\ UNCHANGED <<server, page, wallets, error, isLoading, list, requests>>

\* Answers may arrive in any order; the last one to arrive stays.  isLoading ends with
\* the fetch made when the page was loaded; here, with the first to end.
Arrive(a) ==
    /\ BagIn(a, answers)
    /\ answers' = answers (-) SetToBag({a})
    /\ wallets' = a
    /\ error' = FALSE /\ isLoading' = FALSE
    /\ UNCHANGED <<server, page, asked, list, requests>>

FetchFails ==
    /\ asked > 0
    /\ asked' = asked - 1
    /\ error' = TRUE /\ isLoading' = FALSE
    /\ UNCHANGED <<server, page, answers, wallets, list, requests>>

\* onWalletUpdate and onTransactionUpdate each fetch the wallets.
Refresh(t) == FetchWallets(2)

\* onWalletCreated: the dialog for new wallets has made one.
WalletCreated ==
    /\ FetchWallets(1)
    /\ UNCHANGED <<server, page, answers, wallets, error, isLoading, list, requests>>

\* A socket hands a copy of m to the handler subscribed.
Deliver(m) ==
    /\ air[m] > 0
    /\ air' = [air EXCEPT ![m] = @ - 1]
    /\ heard' = IF m[2] = "credit" THEN heard \union {m[1]} ELSE heard

Announce(m) ==
    IF m[1] \in processedIds THEN UNCHANGED <<processedIds, toasts>>
    ELSE /\ processedIds' = processedIds \union {m[1]}
         /\ toasts' = IF m[2] = "credit" THEN toasts \union {m[1]} ELSE toasts

\* handleWalletUpdate.  Both messages of a transaction have its id.
HandleWalletUpdate(m) ==
    /\ Deliver(m)
    /\ Refresh(m[1])
    /\ updatedTransaction' = m[1]
    /\ Announce(m)
    /\ UNCHANGED <<server, answers, wallets, error, isLoading, list, requests>>

\* Two seconds are over.
ForgetProcessed(t) ==
    /\ t \in processedIds
    /\ processedIds' = processedIds \ {t}
    /\ UNCHANGED <<server, air, heard, updatedTransaction, toasts, fetch, list, requests>>

-----------------------------------------------------------------------------
(* The dialog *)

\* A wallet can be clicked when the page shows its list.
WalletsShown == ~isLoading /\ ~error

FreshDialog == view' = "form" /\ transactions' = Nothing

\* The model opens a dialog again once the requests of the last one have been answered.
OpenDialog ==
    /\ view = "closed" /\ WalletsShown
    /\ posting = {} /\ \A t \in TxIds : cancel[t] = "none"
    /\ FreshDialog
    /\ UNCHANGED <<server, page, fetch, listAsked, listAnswers, requests>>

\* A dialog that is closed takes no more answers; replies to its POST and DELETE still
\* make the page fetch.
CloseDialog ==
    /\ view # "closed"
    /\ view' = "closed" /\ transactions' = Nothing
    /\ listAsked' = 0 /\ listAnswers' = EmptyBag
    /\ UNCHANGED <<server, page, fetch, requests>>

\* The button "Outgoing Transactions".
ShowTransactions ==
    /\ view = "form"
    /\ FetchList(1)
    /\ UNCHANGED <<server, page, fetch, listAnswers, transactions, view, requests>>

BackToForm ==
    /\ view = "transactions"
    /\ view' = "form"
    /\ UNCHANGED <<server, page, fetch, listAsked, listAnswers, transactions, requests>>

\* When the view changes to "transactions", an effect fetches the list (again).
ToTransactions ==
    /\ view' = IF view = "closed" THEN view ELSE "transactions"
    /\ IF view = "form" THEN FetchList(1) ELSE UNCHANGED listAsked

\* "It hides internal statuses like 'WORKING' from the API consumer": a transaction whose
\* settlement has begun is listed as one that can still be cancelled.
toApiStatus(s) == IF s = "WORKING" THEN "RESERVED" ELSE s

\* What ListTransactionsByUserId returns.
Listing == [t \in TxIds |-> toApiStatus(status[t])]

ListAnswer ==
    /\ listAsked > 0
    /\ listAsked' = listAsked - 1
    /\ listAnswers' = listAnswers (+) SetToBag({Listing})
    /\ UNCHANGED <<server, page, fetch, transactions, view, requests>>

ListArrive(a) ==
    /\ BagIn(a, listAnswers)
    /\ listAnswers' = listAnswers (-) SetToBag({a})
    /\ transactions' = a
    /\ view' = "transactions"
    /\ listAsked' = IF view = "form" THEN listAsked + 1 ELSE listAsked
    /\ UNCHANGED <<server, page, fetch, requests>>

ListFails ==
    /\ listAsked > 0
    /\ listAsked' = listAsked - 1
    /\ UNCHANGED <<server, page, fetch, listAnswers, transactions, view, requests>>

Show(t) == ShowStatus(t, "COMPLETED")

\* The effect on updatedTransaction, after the render: of several messages before it,
\* the last one counts.
UpdateEffect(t) ==
    /\ updatedTransaction = t
    /\ updatedTransaction' = NoTx
    /\ Show(t)
    /\ UNCHANGED <<server, air, heard, processedIds, toasts, fetch, listAsked, listAnswers, view,
                   requests>>

\* The reply of POST /transactions, which the API sends after it has published.
Scheduled(t) ==
    /\ t \in posting /\ <<t, "debit">> \notin owed
    /\ posting' = posting \ {t}
    /\ ToTransactions
    /\ FetchWallets(1)
    /\ UNCHANGED <<server, page, answers, wallets, error, isLoading, listAnswers, transactions,
                   cancel>>

\* The POST fails after it has made t: no answer comes in time, or the API dies.  (One that
\* has made nothing changes nothing here.)
ScheduleFailed(t) ==
    /\ t \in posting
    /\ posting' = posting \ {t}
    /\ UNCHANGED <<server, page, fetch, list, cancel>>

ShowBeforeReply(t) == UNCHANGED transactions

\* The button "Cancel", confirmed.
CancelTransaction(t) ==
    /\ view = "transactions" /\ transactions[t] \in CANCELLABLE
    /\ cancel[t] = "none"
    /\ cancel' = [cancel EXCEPT ![t] = "asked"]
    /\ ShowBeforeReply(t)
    /\ UNCHANGED <<server, page, fetch, listAsked, listAnswers, view, posting>>

Cancelled(t) ==
    /\ cancel[t] = "done"
    /\ cancel' = [cancel EXCEPT ![t] = "none"]
    /\ ShowStatus(t, "REJECTED")
    /\ FetchWallets(1)
    /\ UNCHANGED <<server, page, answers, wallets, error, isLoading, listAsked, listAnswers, view,
                   posting>>

CancelRefused(t) ==
    /\ cancel[t] = "refused"
    /\ cancel' = [cancel EXCEPT ![t] = "none"]
    /\ UNCHANGED <<server, page, fetch, list, posting>>

-----------------------------------------------------------------------------

Service(t) ==
    \/ ScheduleTransaction(t) \/ Lock(t) \/ Settle(t) \/ CancelElsewhere(t) \/ ServeCancel(t)

Dialog(t) ==
    \/ UpdateEffect(t) \/ Scheduled(t) \/ ScheduleFailed(t)
    \/ CancelTransaction(t) \/ Cancelled(t) \/ CancelRefused(t)

Next ==
    \/ \E t \in TxIds : Service(t) \/ ForgetProcessed(t) \/ Dialog(t)
    \/ \E m \in Message : Publish(m) \/ HandleWalletUpdate(m)
    \/ Answer \/ FetchFails \/ (\E a \in BagToSet(answers) : Arrive(a))
    \/ WalletCreated
    \/ OpenDialog \/ CloseDialog \/ ShowTransactions \/ BackToForm
    \/ ListAnswer \/ ListFails \/ (\E a \in BagToSet(listAnswers) : ListArrive(a))

Spec == Init /\ [][Next]_vars

\* Messages and answers on their way arrive, and the service answers.
Fairness ==
    /\ WF_vars(Answer)
    /\ WF_vars(\E a \in BagToSet(answers) : Arrive(a))
    /\ \A m \in Message : WF_vars(HandleWalletUpdate(m))
    /\ \A t \in TxIds : WF_vars(Cancelled(t))

FairSpec == Spec /\ Fairness

-----------------------------------------------------------------------------
(* Properties *)

\* What the user is told is cancelled is cancelled.
RejectedIsCancelled ==
    \A t \in TxIds : transactions[t] = "REJECTED" => status[t] = "CANCELLED"

\* Once a message is on its way, the page comes to show wallets with the reservation or
\* the payment in them, or an error; and after a cancellation of its own, wallets with
\* the money returned.
ChangesAreShown ==
    \A t \in TxIds :
        /\ (air[<<t, "debit">>] > 0) ~> (wallets[t] # "NONE" \/ error)
        /\ (air[<<t, "credit">>] > 0) ~> (wallets[t] = "COMPLETED" \/ error)
        /\ (cancel[t] = "done") ~> (wallets[t] = "CANCELLED" \/ error)

Quiet ==
    /\ owed = {} /\ \A m \in Message : air[m] = 0
    /\ asked = 0 /\ answers = EmptyBag /\ ~error

\* "Keep this to refresh wallet balances" (WebSocketHandler.tsx): what comes last does
\* not take the page, which then fetches no more, back to wallets without a payment it
\* has shown.
PaymentStaysShown ==
    [][\A t \in TxIds : wallets[t] = "COMPLETED" /\ Quiet' => wallets'[t] = "COMPLETED"]_vars

\* Deduplication is for the second copy of a message: the credit of each transaction the
\* page hears of is announced.
CreditIsAnnounced == \A t \in TxIds : t \in heard => t \in toasts
=============================================================================
