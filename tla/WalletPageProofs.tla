-------------------------- MODULE WalletPageProofs --------------------------
(***************************************************************************)
(* Theorems about WalletPage: its types, and that a transaction the dialog *)
(* shows as REJECTED was cancelled.                                        *)
(***************************************************************************)
EXTENDS WalletPage, TLAPS

-----------------------------------------------------------------------------
(* Bags of answers *)

\* A bag of snapshots.
Answers(B) == IsABag(B) /\ BagToSet(B) \subseteq Snapshot

\* No answer is under way.
LEMMA NoAnswers == Answers(EmptyBag)
BY DEF Answers, EmptyBag, SetToBag, IsABag, BagToSet

\* One more answer is under way.
LEMMA AnswerAdded ==
    ASSUME NEW B, Answers(B), NEW a \in Snapshot
    PROVE  Answers(B (+) SetToBag({a}))
BY DEF Answers, SetToBag, IsABag, BagToSet, (+)

\* An answer has arrived.
LEMMA AnswerTaken ==
    ASSUME NEW B, Answers(B), NEW a
    PROVE  Answers(B (-) SetToBag({a}))
BY DEF Answers, SetToBag, IsABag, BagToSet, (-)

-----------------------------------------------------------------------------
(* Types *)

\* The dialog's map keeps the type of the list.
LEMMA ShowTyped ==
    ASSUME TypeOK, NEW t \in TxIds, NEW s \in Status \union {"REJECTED"}, ShowStatus(t, s)
    PROVE  transactions' \in [TxIds -> Status \union {"REJECTED"}]
BY DEF ShowStatus, TypeOK

\* More fetches are under way, by a natural number.
LEMMA FetchTyped ==
    ASSUME TypeOK, NEW n \in Nat
    PROVE  (FetchWallets(n) => asked' \in Nat) /\ (FetchList(n) => listAsked' \in Nat)
BY DEF FetchWallets, FetchList, TypeOK

\* The service keeps the types.
LEMMA ServiceTyped ==
    ASSUME TypeOK, NEW t \in TxIds, Service(t)
    PROVE  TypeOK'
<1> USE DEF TypeOK, server, page, fetch, list, requests
<1>1. CASE ScheduleTransaction(t)
  BY <1>1 DEF ScheduleTransaction, Snapshot, Status, Message
<1>2. CASE Lock(t) \/ CancelElsewhere(t)
  BY <1>2 DEF Lock, CancelElsewhere, Snapshot, Status
<1>3. CASE Settle(t)
  BY <1>3 DEF Settle, Snapshot, Status, Message
<1>4. CASE ServeCancel(t)
  BY <1>4 DEF ServeCancel, Snapshot, Status
<1> QED BY <1>1, <1>2, <1>3, <1>4 DEF Service

\* Messages, from their publication to the end of their deduplication, keep the types.
LEMMA MessageTyped ==
    ASSUME TypeOK,
           \/ \E m \in Message : Publish(m) \/ HandleWalletUpdate(m)
           \/ \E t \in TxIds : ForgetProcessed(t)
    PROVE  TypeOK'
<1> USE PageAssumption DEF TypeOK, server, page, fetch, list, requests
<1>1. ASSUME NEW m \in Message, Publish(m) PROVE TypeOK'
  BY <1>1 DEF Publish
<1>2. ASSUME NEW m \in Message, HandleWalletUpdate(m) PROVE TypeOK'
  <2>1. m[1] \in TxIds
    BY DEF Message
  <2>2. asked' \in Nat
    BY <1>2, FetchTyped DEF HandleWalletUpdate, Refresh
  <2>3. air' \in [Message -> 0..Copies] /\ heard' \subseteq TxIds
    BY <1>2, <2>1 DEF HandleWalletUpdate, Deliver
  <2>4. processedIds' \subseteq TxIds /\ toasts' \subseteq TxIds
    BY <1>2, <2>1 DEF HandleWalletUpdate, Announce
  <2> QED BY <1>2, <2>1, <2>2, <2>3, <2>4 DEF HandleWalletUpdate
<1>3. ASSUME NEW t \in TxIds, ForgetProcessed(t) PROVE TypeOK'
  BY <1>3 DEF ForgetProcessed
<1> QED BY <1>1, <1>2, <1>3

\* Requests for wallets and for lists, and their answers, keep the types.
LEMMA AnswersTyped ==
    ASSUME TypeOK,
           \/ Answer \/ FetchFails \/ (\E a \in BagToSet(answers) : Arrive(a))
           \/ WalletCreated
           \/ ListAnswer \/ ListFails \/ (\E a \in BagToSet(listAnswers) : ListArrive(a))
    PROVE  TypeOK'
<1> USE DEF server, page, fetch, list, requests
<1>0. Answers(answers) /\ Answers(listAnswers) /\ status \in Snapshot
  BY DEF Answers, TypeOK
<1>1. CASE Answer
  <2>1. Answers(answers')
    BY <1>0, <1>1, AnswerAdded DEF Answer
  <2>2. asked' \in Nat
    BY <1>1 DEF Answer, TypeOK
  <2> QED BY <1>1, <2>1, <2>2 DEF Answer, Answers, TypeOK
<1>2. CASE FetchFails
  <2>1. asked' \in Nat
    BY <1>2 DEF FetchFails, TypeOK
  <2> QED BY <1>2, <2>1 DEF FetchFails, TypeOK
<1>3. ASSUME NEW a \in BagToSet(answers), Arrive(a) PROVE TypeOK'
  <2>1. Answers(answers') /\ a \in Snapshot
    BY <1>0, <1>3, AnswerTaken DEF Arrive, Answers
  <2> QED BY <1>3, <2>1 DEF Arrive, Answers, TypeOK
<1>4. CASE WalletCreated
  BY <1>4, FetchTyped DEF WalletCreated, TypeOK
<1>5. CASE ListAnswer
  <2>0. Listing \in Snapshot
    BY <1>0 DEF Listing, toApiStatus, Snapshot, Status
  <2>1. Answers(listAnswers')
    BY <1>0, <1>5, <2>0, AnswerAdded DEF ListAnswer
  <2> QED BY <1>5, <2>1 DEF ListAnswer, Answers, TypeOK
<1>6. CASE ListFails
  BY <1>6 DEF ListFails, TypeOK
<1>7. ASSUME NEW a \in BagToSet(listAnswers), ListArrive(a) PROVE TypeOK'
  <2>1. Answers(listAnswers') /\ a \in Snapshot
    BY <1>0, <1>7, AnswerTaken DEF ListArrive, Answers
  <2>2. transactions' \in [TxIds -> Status \union {"REJECTED"}]
    BY <1>7, <2>1 DEF ListArrive, Snapshot
  <2>3. listAsked' \in Nat
    BY <1>7 DEF ListArrive, TypeOK
  <2> QED BY <1>7, <2>1, <2>2, <2>3 DEF ListArrive, Answers, TypeOK
<1> QED BY <1>1, <1>2, <1>3, <1>4, <1>5, <1>6, <1>7

\* The dialog keeps the types.
LEMMA DialogTyped ==
    ASSUME TypeOK,
           \/ OpenDialog \/ CloseDialog \/ ShowTransactions \/ BackToForm
           \/ \E t \in TxIds : Dialog(t)
    PROVE  TypeOK'
<1> USE DEF server, page, fetch, list, requests
<1>0. Nothing \in [TxIds -> Status \union {"REJECTED"}]
  BY DEF Nothing, Status
<1>1. CASE OpenDialog
  BY <1>0, <1>1 DEF OpenDialog, FreshDialog, TypeOK
<1>2. CASE CloseDialog
  BY <1>0, <1>2, NoAnswers DEF CloseDialog, Answers, TypeOK
<1>3. CASE ShowTransactions
  BY <1>3, FetchTyped DEF ShowTransactions, TypeOK
<1>4. CASE BackToForm
  BY <1>4 DEF BackToForm, TypeOK
<1>5. ASSUME NEW t \in TxIds, UpdateEffect(t) PROVE TypeOK'
  BY <1>5, ShowTyped DEF UpdateEffect, Show, Status, TypeOK
<1>6. ASSUME NEW t \in TxIds, Scheduled(t) PROVE TypeOK'
  <2>1. asked' \in Nat /\ listAsked' \in Nat
    BY <1>6, FetchTyped DEF Scheduled, ToTransactions, TypeOK
  <2> QED BY <1>6, <2>1 DEF Scheduled, ToTransactions, TypeOK
<1>9. ASSUME NEW t \in TxIds, ScheduleFailed(t) PROVE TypeOK'
  BY <1>9 DEF ScheduleFailed, TypeOK
<1>7. ASSUME NEW t \in TxIds, CancelTransaction(t) \/ CancelRefused(t) PROVE TypeOK'
  BY <1>7 DEF CancelTransaction, CancelRefused, ShowBeforeReply, TypeOK
<1>8. ASSUME NEW t \in TxIds, Cancelled(t) PROVE TypeOK'
  <2>1. asked' \in Nat /\ transactions' \in [TxIds -> Status \union {"REJECTED"}]
    BY <1>8, ShowTyped, FetchTyped DEF Cancelled
  <2> QED BY <1>8, <2>1 DEF Cancelled, TypeOK
<1> QED BY <1>1, <1>2, <1>3, <1>4, <1>5, <1>6, <1>7, <1>8, <1>9 DEF Dialog

\* Every step keeps the types.
LEMMA PageTypeStep == TypeOK /\ [Next]_vars => TypeOK'
<1>1. TypeOK /\ UNCHANGED vars => TypeOK'
  BY DEF vars, server, page, fetch, list, requests, TypeOK
<1> QED BY <1>1, ServiceTyped, MessageTyped, AnswersTyped, DialogTyped DEF Next

\* Every reachable state has the declared types; in particular all answers on their way
\* are states the service has had, and no fetch is counted down that was not made.
THEOREM PageTypeCorrect == Spec => []TypeOK
<1>1. Init => TypeOK
  <2> SUFFICES ASSUME Init PROVE TypeOK
    OBVIOUS
  <2>1. Answers(answers) /\ Answers(listAnswers)
    BY NoAnswers DEF Init
  <2>2. /\ air \in [Message -> 0..Copies] /\ asked \in Nat /\ listAsked \in Nat
    BY PageAssumption DEF Init
  <2>3. /\ status \in Snapshot /\ wallets \in Snapshot
        /\ transactions \in [TxIds -> Status \union {"REJECTED"}]
    BY DEF Init, Nothing, Snapshot, Status
  <2> QED BY <2>1, <2>2, <2>3 DEF Init, Answers, TypeOK
<1> QED BY <1>1, PageTypeStep, PTL DEF Spec

-----------------------------------------------------------------------------
(* What is shown as cancelled is cancelled *)

\* A cancellation that was answered with success has been made, and is for good.
CancelInv ==
    /\ RejectedIsCancelled
    /\ \A t \in TxIds : cancel[t] = "done" => status[t] = "CANCELLED"

\* The service does not leave CANCELLED, and replies "done" only in the step that cancels.
LEMMA CancelByService ==
    ASSUME TypeOK, CancelInv, NEW t \in TxIds, Service(t)
    PROVE  CancelInv'
<1>1. transactions' = transactions
  BY DEF Service, ScheduleTransaction, Lock, Settle, CancelElsewhere, ServeCancel, list
<1>2. /\ status' \in Snapshot
      /\ \A u \in TxIds : status[u] = "CANCELLED" => status'[u] = "CANCELLED"
  BY ServiceTyped DEF TypeOK, Snapshot, Service, ScheduleTransaction, Lock, Settle,
        CancelElsewhere, ServeCancel
<1>3. \A u \in TxIds : cancel'[u] = "done" => cancel[u] = "done" \/ status'[u] = "CANCELLED"
  BY DEF TypeOK, Snapshot, Service, ScheduleTransaction, Lock, Settle, CancelElsewhere,
        ServeCancel, requests
<1> QED BY <1>1, <1>2, <1>3 DEF CancelInv, RejectedIsCancelled

\* A step of the page that shows nothing new as REJECTED, and makes no reply "done".
LEMMA CancelKept ==
    ASSUME CancelInv, status' = status,
           \A t \in TxIds : transactions'[t] = "REJECTED" =>
                transactions[t] = "REJECTED" \/ cancel[t] = "done",
           \A t \in TxIds : cancel'[t] = "done" => cancel[t] = "done"
    PROVE  CancelInv'
BY DEF CancelInv, RejectedIsCancelled

\* Every step keeps the invariant.
LEMMA CancelStep == TypeOK /\ CancelInv /\ [Next]_vars => CancelInv'
<1> SUFFICES ASSUME TypeOK, CancelInv, [Next]_vars PROVE CancelInv'
  OBVIOUS
<1> USE DEF server, page, fetch, list, requests
<1>1. ASSUME NEW t \in TxIds, Service(t) PROVE CancelInv'
  BY <1>1, CancelByService
<1>2. ASSUME NEW m \in Message, Publish(m) \/ HandleWalletUpdate(m) PROVE CancelInv'
  BY <1>2, CancelKept DEF Publish, HandleWalletUpdate
<1>3. CASE \/ Answer \/ FetchFails \/ (\E a \in BagToSet(answers) : Arrive(a))
           \/ WalletCreated \/ ListAnswer \/ ListFails
           \/ (\E t \in TxIds : ForgetProcessed(t)) \/ UNCHANGED vars
  BY <1>3, CancelKept DEF Answer, FetchFails, Arrive, WalletCreated, ListAnswer, ListFails,
        ForgetProcessed, vars
<1>4. ASSUME NEW a \in BagToSet(listAnswers), ListArrive(a) PROVE CancelInv'
  <2>1. \A t \in TxIds : a[t] # "REJECTED"
    BY DEF TypeOK, Snapshot, Status
  <2> QED BY <1>4, <2>1, CancelKept DEF ListArrive
<1>5. CASE OpenDialog \/ CloseDialog \/ ShowTransactions \/ BackToForm
  BY <1>5, CancelKept DEF OpenDialog, FreshDialog, CloseDialog, ShowTransactions, BackToForm,
        Nothing
<1>6. ASSUME NEW t \in TxIds, Dialog(t) PROVE CancelInv'
  <2>1. CASE UpdateEffect(t)
    BY <2>1, CancelKept DEF UpdateEffect, Show, ShowStatus, TypeOK
  <2>2. CASE Scheduled(t) \/ ScheduleFailed(t)
    BY <2>2, CancelKept DEF Scheduled, ScheduleFailed
  <2>3. CASE CancelTransaction(t) \/ CancelRefused(t)
    BY <2>3, CancelKept DEF CancelTransaction, CancelRefused, ShowBeforeReply, TypeOK
  <2>4. CASE Cancelled(t)
    BY <2>4, CancelKept DEF Cancelled, ShowStatus, TypeOK
  <2> QED BY <1>6, <2>1, <2>2, <2>3, <2>4 DEF Dialog
<1> QED BY <1>1, <1>2, <1>3, <1>4, <1>5, <1>6 DEF Next

\* The dialog shows "REJECTED" only for transactions that the service has cancelled, for
\* any number of them, whatever lists, messages and cancellations pass each other.
THEOREM RejectionsTrue == Spec => []RejectedIsCancelled
<1>1. Init => CancelInv
  BY DEF Init, CancelInv, RejectedIsCancelled, Nothing
<1>2. CancelInv => RejectedIsCancelled
  BY DEF CancelInv
<1> QED BY <1>1, <1>2, CancelStep, PageTypeCorrect, PTL DEF Spec
=============================================================================
