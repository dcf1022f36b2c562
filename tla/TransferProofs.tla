-------------------------- MODULE TransferProofs --------------------------
(***************************************************************************)
(* What TransferSystem keeps for every number of users, transactions,      *)
(* lambda invocations and clients, and every number of faults.  The        *)
(* processes change the tables only by the writes of Tables, so that what  *)
(* TablesProofs proves of the tables holds of the system; the other proofs *)
(* are about the processes and what they have read.                        *)
(***************************************************************************)
EXTENDS TransferSystem, TablesProofs

\* A step is a step of one handler, of the queue, or the passing of time.  Proofs by
\* cases on the step cite this.
LEMMA NextCases ==
    ASSUME [Next]_vars, NEW P,
           \A u \in Users : CreateWallet(u) => P,
           \A u \in Users : DeleteWallet(u) => P,
           \A t \in TxIds : ScheduleRead(t) => P,
           \A t \in TxIds : ScheduleWrite(t) => P,
           \A t \in TxIds : ScheduleSend(t) => P,
           \A t \in TxIds : ScheduleFails(t) => P,
           \A c \in Cancellers, t \in TxIds : CancelRead(c, t) => P,
           \A c \in Cancellers : CancelReadWallet(c) => P,
           \A c \in Cancellers : CancelWrite(c) => P,
           \A c \in Cancellers : CancelFails(c) => P,
           \A w \in Workers, t \in TxIds : Receive(w, t) => P,
           \A w \in Workers : AcquireLock(w) => P,
           \A w \in Workers : AcquireLockFails(w) => P,
           \A w \in Workers : ReadSender(w) => P,
           \A w \in Workers : ReadReceiver(w) => P,
           \A w \in Workers : Settle(w) => P,
           \A w \in Workers : SettleFails(w) => P,
           \A w \in Workers : Notify(w) => P,
           \A w \in Workers : WorkerCrash(w) => P,
           \A t \in TxIds : DuplicateMessage(t) => P,
           Reconcile => P,
           \A t \in TxIds : GrowOld(t) => P,
           \A t \in TxIds : Expire(t) => P,
           \A r \in Copies, u \in Users : Replicate(r, u) => P,
           UNCHANGED vars => P
    PROVE  P
BY DEF Next, WalletRequest, Schedule, Cancel, Process, WorkerFault, Time

-----------------------------------------------------------------------------
(* The system implements the tables *)

\* A write that sees a version which is not current fails its condition, so every
\* write that is applied is one of Tables with the current versions.
LEMMA TablesStep == TypeOK /\ [Next]_vars => [TablesNext]_tables
<1> SUFFICES ASSUME TypeOK, [Next]_vars PROVE [TablesNext]_tables
  OBVIOUS
<1>a. ASSUME UNCHANGED tables PROVE [TablesNext]_tables
  BY <1>a
<1>b. ASSUME NEW t \in TxIds, NEW v, ReserveFunds(t, v) PROVE [TablesNext]_tables
  <2>1. v = wallets[terms[t].from].version
    BY <1>b DEF ReserveFunds, CanReserve
  <2> QED BY <1>b, <2>1 DEF TablesNext
<1>c. ASSUME NEW t \in TxIds, NEW v, ReleaseFunds(t, v) PROVE [TablesNext]_tables
  <2>1. v = wallets[terms[t].from].version
    BY <1>c DEF ReleaseFunds, CanRelease
  <2> QED BY <1>c, <2>1 DEF TablesNext
<1>d. ASSUME NEW t \in TxIds, NEW v, NEW x, SettleTransfer(t, v, x) PROVE [TablesNext]_tables
  <2>1. v = wallets[terms[t].from].version /\ x = wallets[terms[t].to].version
    BY <1>d DEF SettleTransfer, CanSettle
  <2> QED BY <1>d, <2>1 DEF TablesNext
<1>e. ASSUME NEW w \in Workers, worker[w].pc # "idle" PROVE worker[w].tx \in TxIds
  BY <1>e DEF TypeOK
<1>1. ASSUME NEW u \in Users, CreateWallet(u) PROVE [TablesNext]_tables
  BY <1>1 DEF CreateWallet, TablesNext
<1>2. ASSUME NEW u \in Users, DeleteWallet(u) PROVE [TablesNext]_tables
  BY <1>2 DEF DeleteWallet, TablesNext
<1>3. ASSUME NEW t \in TxIds, ScheduleRead(t) PROVE [TablesNext]_tables
  BY <1>3, <1>a DEF ScheduleRead
<1>4. ASSUME NEW t \in TxIds, ScheduleWrite(t) PROVE [TablesNext]_tables
  BY <1>4, <1>a, <1>b DEF ScheduleWrite
<1>5. ASSUME NEW t \in TxIds, ScheduleSend(t) PROVE [TablesNext]_tables
  BY <1>5, <1>a DEF ScheduleSend
<1>6. ASSUME NEW t \in TxIds, ScheduleFails(t) PROVE [TablesNext]_tables
  BY <1>6, <1>a DEF ScheduleFails
<1>7. ASSUME NEW c \in Cancellers, NEW t \in TxIds, CancelRead(c, t) PROVE [TablesNext]_tables
  BY <1>7, <1>a DEF CancelRead
<1>8. ASSUME NEW c \in Cancellers, CancelReadWallet(c) PROVE [TablesNext]_tables
  BY <1>8, <1>a DEF CancelReadWallet
<1>9. ASSUME NEW c \in Cancellers, CancelWrite(c) PROVE [TablesNext]_tables
  <2>1. cancel[c].tx \in TxIds
    BY <1>9 DEF CancelWrite, TypeOK
  <2> QED BY <1>9, <2>1, <1>a, <1>c DEF CancelWrite
<1>10. ASSUME NEW c \in Cancellers, CancelFails(c) PROVE [TablesNext]_tables
  BY <1>10, <1>a DEF CancelFails
<1>11. ASSUME NEW w \in Workers, NEW t \in TxIds, Receive(w, t) PROVE [TablesNext]_tables
  BY <1>11, <1>a DEF Receive
<1>12. ASSUME NEW w \in Workers, AcquireLock(w) PROVE [TablesNext]_tables
  BY <1>12, <1>a, <1>e DEF AcquireLock, TablesNext
<1>13. ASSUME NEW w \in Workers, AcquireLockFails(w) PROVE [TablesNext]_tables
  BY <1>13, <1>a, <1>e DEF AcquireLockFails, TablesNext
<1>14. ASSUME NEW w \in Workers, ReadSender(w) PROVE [TablesNext]_tables
  BY <1>14, <1>a DEF ReadSender
<1>15. ASSUME NEW w \in Workers, ReadReceiver(w) PROVE [TablesNext]_tables
  BY <1>15, <1>a DEF ReadReceiver
<1>16. ASSUME NEW w \in Workers, Settle(w) PROVE [TablesNext]_tables
  BY <1>16, <1>a, <1>d, <1>e DEF Settle
<1>17. ASSUME NEW w \in Workers, SettleFails(w) PROVE [TablesNext]_tables
  BY <1>17, <1>a, <1>d, <1>e DEF SettleFails
<1>18. ASSUME NEW w \in Workers, Notify(w) PROVE [TablesNext]_tables
  BY <1>18, <1>a DEF Notify
<1>19. ASSUME NEW w \in Workers, WorkerCrash(w) PROVE [TablesNext]_tables
  BY <1>19, <1>a DEF WorkerCrash
<1>20. ASSUME NEW t \in TxIds, DuplicateMessage(t) PROVE [TablesNext]_tables
  BY <1>20, <1>a DEF DuplicateMessage
<1>21. CASE Reconcile
  BY <1>21, <1>a DEF Reconcile, ReconQuery, ReconCrash, ReconSend, ReconSendFails
<1>22. ASSUME NEW t \in TxIds, GrowOld(t) PROVE [TablesNext]_tables
  BY <1>22 DEF GrowOld, TablesNext
<1>23. ASSUME NEW t \in TxIds, Expire(t) PROVE [TablesNext]_tables
  BY <1>23 DEF Expire, TablesNext
<1>24. CASE UNCHANGED vars
  BY <1>24, <1>a DEF vars, tables
<1>25. ASSUME NEW r \in Copies, NEW u \in Users, Replicate(r, u) PROVE [TablesNext]_tables
  BY <1>25, <1>a DEF Replicate
<1> QED
  BY <1>1, <1>2, <1>3, <1>4, <1>5, <1>6, <1>7, <1>8, <1>9, <1>10, <1>11, <1>12, <1>13,
     <1>14, <1>15, <1>16, <1>17, <1>18, <1>19, <1>20, <1>21, <1>22, <1>23, <1>24, <1>25, NextCases

-----------------------------------------------------------------------------
(* Types *)

SchedState == [pc : SchedPC, saw : Wallet]
CancelState == [pc : CancelPC, tx : TxIds \union {NoTx}, saw : Wallet]
WorkerState == [pc : WorkerPC, tx : TxIds \union {NoTx}, sender : Wallet, receiver : Wallet]

\* A process that has read nothing holds an item of the right shape.
LEMMA UnreadIsWallet == Unread \in Wallet
BY DEF Unread, NoWallet, Wallet

\* Well-typed states of the processes, in the form the proof of a step needs: the
\* state of a process that moves is a well-typed state of it.
LEMMA TypeFromParts ==
    ASSUME TablesTypeOK,
           sched \in [TxIds -> SchedState],
           cancel \in [Cancellers -> CancelState],
           worker \in [Workers -> WorkerState],
           \A c \in Cancellers : cancel[c].pc # "idle" => cancel[c].tx \in TxIds,
           \A w \in Workers : worker[w].pc # "idle" => worker[w].tx \in TxIds,
           queue \in [TxIds -> Nat], recon \subseteq TxIds, faults \in 0..MaxFaults,
           copies \in [Copies -> [Users -> Wallet]]
    PROVE  TypeOK
BY DEF TypeOK, SchedState, CancelState, WorkerState

\* The converse of TypeFromParts, with what is read of the wallets a transaction names.
LEMMA PartsFromType ==
    ASSUME TypeOK
    PROVE  /\ TablesTypeOK
           /\ sched \in [TxIds -> SchedState]
           /\ cancel \in [Cancellers -> CancelState]
           /\ worker \in [Workers -> WorkerState]
           /\ \A c \in Cancellers : cancel[c].pc # "idle" => cancel[c].tx \in TxIds
           /\ \A w \in Workers : worker[w].pc # "idle" => worker[w].tx \in TxIds
           /\ queue \in [TxIds -> Nat] /\ recon \subseteq TxIds /\ faults \in 0..MaxFaults
           /\ copies \in [Copies -> [Users -> Wallet]]
           /\ \A t \in TxIds : Readable(terms[t].from) \subseteq Wallet
           /\ \A t \in TxIds : Readable(terms[t].to) \subseteq Wallet
<1>1. ASSUME NEW u \in Users PROVE Readable(u) \subseteq Wallet
  BY DEF Readable, TypeOK, TablesTypeOK
<1>2. \A t \in TxIds : terms[t].from \in Users /\ terms[t].to \in Users
  BY TermsTyped DEF TypeOK
<1> QED BY <1>1, <1>2 DEF TypeOK, SchedState, CancelState, WorkerState

\* The types of the parts a step leaves alone are kept, so a step that moves one
\* scheduling request, one cancellation or one worker into a typed state keeps all.
LEMMA SchedMoves ==
    ASSUME TypeOK, TablesTypeOK', NEW t \in TxIds, NEW s \in SchedState,
           sched' = [sched EXCEPT ![t] = s],
           queue' \in [TxIds -> Nat], UNCHANGED <<cancel, worker, recon, faults, copies>>
    PROVE  TypeOK'
<1>1. sched' \in [TxIds -> SchedState]
  BY PartsFromType
<1> QED BY <1>1, PartsFromType DEF TypeOK, SchedState

\* As SchedMoves, for a cancellation.
LEMMA CancelMoves ==
    ASSUME TypeOK, TablesTypeOK', NEW c \in Cancellers, NEW s \in CancelState,
           s.pc # "idle" => s.tx \in TxIds,
           cancel' = [cancel EXCEPT ![c] = s],
           UNCHANGED <<sched, worker, queue, recon, faults, copies>>
    PROVE  TypeOK'
<1>1. cancel' \in [Cancellers -> CancelState]
  BY PartsFromType
<1>2. \A d \in Cancellers : cancel'[d].pc # "idle" => cancel'[d].tx \in TxIds
  BY PartsFromType
<1> QED BY <1>1, <1>2, PartsFromType DEF TypeOK, CancelState

\* As SchedMoves, for an invocation of the settlement lambda.
LEMMA WorkerMoves ==
    ASSUME TypeOK, TablesTypeOK', NEW w \in Workers, NEW s \in WorkerState,
           s.pc # "idle" => s.tx \in TxIds,
           worker' = [worker EXCEPT ![w] = s],
           queue' \in [TxIds -> Nat], faults' \in 0..MaxFaults,
           UNCHANGED <<sched, cancel, recon, copies>>
    PROVE  TypeOK'
<1>1. worker' \in [Workers -> WorkerState]
  BY PartsFromType
<1>2. \A v \in Workers : worker'[v].pc # "idle" => worker'[v].tx \in TxIds
  BY PartsFromType
<1> QED BY <1>1, <1>2, PartsFromType DEF TypeOK, WorkerState

\* MaxFaults bounds the faults.
LEMMA FaultTyped == TypeOK /\ Fault => faults' \in 0..MaxFaults
BY BoundsAssumption DEF TypeOK, Fault

\* Every step keeps the types.
LEMMA TypeStep == TypeOK /\ [Next]_vars => TypeOK'
<1> SUFFICES ASSUME TypeOK, [Next]_vars PROVE TypeOK'
  OBVIOUS
<1>t. TablesTypeOK'
  BY TablesStep, TablesTypeStep, PartsFromType
<1>0. ASSUME UNCHANGED processes PROVE TypeOK'
  BY <1>0, <1>t DEF TypeOK, processes
<1>i. IdleWorker \in WorkerState /\ IdleWorker.pc = "idle"
  BY UnreadIsWallet DEF IdleWorker, WorkerState, WorkerPC
<1>f. \A w \in Workers : Finish(w) => worker' = [worker EXCEPT ![w] = IdleWorker]
  BY DEF Finish
<1>s. ASSUME NEW t \in TxIds, NEW pc \in SchedPC, SchedGoto(t, pc), queue' \in [TxIds -> Nat],
             UNCHANGED <<cancel, worker, recon, faults, copies>>
      PROVE  TypeOK'
  <2>1. [pc |-> pc, saw |-> Unread] \in SchedState
    BY UnreadIsWallet DEF SchedState
  <2> QED BY <1>s, <1>t, <2>1, SchedMoves DEF SchedGoto
<1>c. ASSUME NEW c \in Cancellers, NEW pc \in CancelPC, CancelGoto(c, pc), cancel[c].pc # "idle",
             UNCHANGED <<sched, worker, queue, recon, faults, copies>>
      PROVE  TypeOK'
  <2> DEFINE s == [pc |-> pc, tx |-> cancel[c].tx, saw |-> Unread]
  <2>1. cancel[c].tx \in TxIds
    BY <1>c DEF TypeOK
  <2>2. s \in CancelState /\ s.tx \in TxIds
    BY <2>1, UnreadIsWallet DEF CancelState
  <2>3. cancel' = [cancel EXCEPT ![c] = s]
    BY <1>c DEF CancelGoto
  <2> QED BY <1>c, <1>t, <2>2, <2>3, CancelMoves
<1>1. ASSUME NEW u \in Users, CreateWallet(u) PROVE TypeOK'
  BY <1>0, <1>1 DEF CreateWallet
<1>2. ASSUME NEW u \in Users, DeleteWallet(u) PROVE TypeOK'
  BY <1>0, <1>2 DEF DeleteWallet
<1>3. ASSUME NEW t \in TxIds, ScheduleRead(t) PROVE TypeOK'
  <2>1. queue' \in [TxIds -> Nat] /\ UNCHANGED <<cancel, worker, recon, faults, copies>>
    BY <1>3 DEF ScheduleRead, TypeOK
  <2>2. CASE SchedGoto(t, "failed")
    BY <1>s, <2>1, <2>2 DEF SchedPC
  <2>3. ASSUME NEW sender \in Readable(terms[t].from),
               sched' = [sched EXCEPT ![t] = [pc |-> "write", saw |-> sender]]
        PROVE  TypeOK'
    <3>1. [pc |-> "write", saw |-> sender] \in SchedState
      BY <2>3, PartsFromType DEF SchedState, SchedPC
    <3> QED BY <1>t, <2>1, <2>3, <3>1, SchedMoves
  <2> QED BY <1>3, <2>2, <2>3 DEF ScheduleRead
<1>4. ASSUME NEW t \in TxIds, ScheduleWrite(t) PROVE TypeOK'
  BY <1>4, <1>s DEF ScheduleWrite, SchedPC, TypeOK
<1>5. ASSUME NEW t \in TxIds, ScheduleSend(t) PROVE TypeOK'
  <2>1. queue' \in [TxIds -> Nat]
    BY <1>5 DEF ScheduleSend, TypeOK
  <2> QED BY <1>5, <1>s, <2>1 DEF ScheduleSend, SchedPC
<1>6. ASSUME NEW t \in TxIds, ScheduleFails(t) PROVE TypeOK'
  BY <1>6, <1>s DEF ScheduleFails, SchedPC, TypeOK
<1>7. ASSUME NEW c \in Cancellers, NEW t \in TxIds, CancelRead(c, t) PROVE TypeOK'
  <2>1. PICK pc \in {"failed", "conflict", "wallet"} :
            cancel' = [cancel EXCEPT ![c] = [pc |-> pc, tx |-> t, saw |-> Unread]]
    BY <1>7 DEF CancelRead
  <2>2. [pc |-> pc, tx |-> t, saw |-> Unread] \in CancelState
    BY UnreadIsWallet DEF CancelState, CancelPC, CancelReplies
  <2> QED BY <1>7, <1>t, <2>1, <2>2, CancelMoves DEF CancelRead
<1>8. ASSUME NEW c \in Cancellers, CancelReadWallet(c) PROVE TypeOK'
  <2>1. cancel[c].tx \in TxIds /\ cancel[c].pc # "idle"
    BY <1>8 DEF CancelReadWallet, TypeOK
  <2>2. CASE CancelGoto(c, "failed")
    BY <1>8, <1>c, <2>1, <2>2 DEF CancelReadWallet, CancelPC, CancelReplies
  <2>3. ASSUME NEW sender \in Readable(terms[cancel[c].tx].from),
               cancel' = [cancel EXCEPT ![c] = [pc |-> "write", tx |-> cancel[c].tx,
                                                saw |-> sender]]
        PROVE  TypeOK'
    <3> DEFINE s == [pc |-> "write", tx |-> cancel[c].tx, saw |-> sender]
    <3>1. s \in CancelState /\ s.tx \in TxIds
      BY <2>1, PartsFromType DEF CancelState, CancelPC
    <3> QED BY <1>8, <1>t, <2>3, <3>1, CancelMoves DEF CancelReadWallet
  <2> QED BY <1>8, <2>2, <2>3 DEF CancelReadWallet
<1>9. ASSUME NEW c \in Cancellers, CancelWrite(c) PROVE TypeOK'
  BY <1>9, <1>c DEF CancelWrite, CancelPC, CancelReplies
<1>10. ASSUME NEW c \in Cancellers, CancelFails(c) PROVE TypeOK'
  BY <1>10, <1>c DEF CancelFails, CancelPC, CancelReplies
<1>w. ASSUME NEW w \in Workers, Finish(w), queue' \in [TxIds -> Nat], faults' \in 0..MaxFaults,
             UNCHANGED <<sched, cancel, recon, copies>>
      PROVE  TypeOK'
  BY <1>w, <1>f, <1>i, <1>t, WorkerMoves
<1>q. queue \in [TxIds -> Nat] /\ faults \in 0..MaxFaults
  BY DEF TypeOK
<1>11. ASSUME NEW w \in Workers, NEW t \in TxIds, Receive(w, t) PROVE TypeOK'
  <2>1. [IdleWorker EXCEPT !.pc = "lock", !.tx = t] \in WorkerState
    BY UnreadIsWallet DEF IdleWorker, WorkerState, WorkerPC
  <2>2. [IdleWorker EXCEPT !.pc = "lock", !.tx = t].tx \in TxIds
    BY DEF IdleWorker
  <2>3. queue' \in [TxIds -> Nat]
    BY <1>11, <1>q DEF Receive
  <2> QED BY <1>11, <1>t, <1>q, <2>1, <2>2, <2>3, WorkerMoves DEF Receive
<1>12. ASSUME NEW w \in Workers, AcquireLock(w) PROVE TypeOK'
  <2>1. CASE Finish(w)
    BY <1>12, <1>w, <1>q, <2>1 DEF AcquireLock
  <2>2. CASE WorkerGoto(w, "sender")
    <3>1. worker[w] \in WorkerState /\ worker[w].tx \in TxIds
      BY <1>12, PartsFromType DEF AcquireLock
    <3>2. [worker[w] EXCEPT !.pc = "sender"] \in WorkerState
      BY <3>1 DEF WorkerState, WorkerPC, Locked
    <3>3. [worker[w] EXCEPT !.pc = "sender"].tx \in TxIds
      BY <3>1 DEF WorkerState
    <3>4. worker' = [worker EXCEPT ![w] = [worker[w] EXCEPT !.pc = "sender"]]
      BY <2>2 DEF WorkerGoto
    <3> QED BY <1>12, <1>t, <1>q, <3>2, <3>3, <3>4, WorkerMoves DEF AcquireLock
  <2> QED BY <1>12, <2>1, <2>2 DEF AcquireLock
<1>13. ASSUME NEW w \in Workers, AcquireLockFails(w) PROVE TypeOK'
  BY <1>13, <1>w, <1>q, FaultTyped DEF AcquireLockFails
<1>14. ASSUME NEW w \in Workers, ReadSender(w) PROVE TypeOK'
  <2>1. CASE Finish(w)
    BY <1>14, <1>w, <1>q, <2>1 DEF ReadSender
  <2>2. ASSUME NEW sender \in Readable(terms[worker[w].tx].from),
               worker' = [worker EXCEPT ![w].pc = "receiver", ![w].sender = sender]
        PROVE  TypeOK'
    <3> DEFINE s == [worker[w] EXCEPT !.pc = "receiver", !.sender = sender]
    <3>1. worker[w] \in WorkerState /\ worker[w].tx \in TxIds
      BY <1>14, PartsFromType DEF ReadSender
    <3>2. sender \in Wallet
      BY <2>2, <3>1, PartsFromType
    <3>3. s \in WorkerState
      BY <3>1, <3>2 DEF WorkerState, WorkerPC, Locked
    <3>4. s.tx \in TxIds
      BY <3>1 DEF WorkerState
    <3>5. worker' = [worker EXCEPT ![w] = s]
      BY <2>2, PartsFromType
    <3> QED BY <1>14, <1>t, <1>q, <3>3, <3>4, <3>5, WorkerMoves DEF ReadSender
  <2> QED BY <1>14, <2>1, <2>2 DEF ReadSender
<1>15. ASSUME NEW w \in Workers, ReadReceiver(w) PROVE TypeOK'
  <2>1. CASE Finish(w)
    BY <1>15, <1>w, <1>q, <2>1 DEF ReadReceiver
  <2>2. ASSUME NEW receiver \in Readable(terms[worker[w].tx].to),
               worker' = [worker EXCEPT ![w].pc = "settle", ![w].receiver = receiver]
        PROVE  TypeOK'
    <3> DEFINE s == [worker[w] EXCEPT !.pc = "settle", !.receiver = receiver]
    <3>1. worker[w] \in WorkerState /\ worker[w].tx \in TxIds
      BY <1>15, PartsFromType DEF ReadReceiver
    <3>2. receiver \in Wallet
      BY <2>2, <3>1, PartsFromType
    <3>3. s \in WorkerState
      BY <3>1, <3>2 DEF WorkerState, WorkerPC, Locked
    <3>4. s.tx \in TxIds
      BY <3>1 DEF WorkerState
    <3>5. worker' = [worker EXCEPT ![w] = s]
      BY <2>2, PartsFromType
    <3> QED BY <1>15, <1>t, <1>q, <3>3, <3>4, <3>5, WorkerMoves DEF ReadReceiver
  <2> QED BY <1>15, <2>1, <2>2 DEF ReadReceiver
<1>16. ASSUME NEW w \in Workers, Settle(w) PROVE TypeOK'
  <2> DEFINE s == [IdleWorker EXCEPT !.pc = "notify", !.tx = worker[w].tx]
  <2>1. CASE Finish(w)
    BY <1>16, <1>w, <1>q, <2>1 DEF Settle
  <2>2. CASE worker' = [worker EXCEPT ![w] = s]
    <3>1. worker[w].tx \in TxIds
      BY <1>16 DEF Settle, TypeOK
    <3>2. s \in WorkerState
      BY <3>1, UnreadIsWallet DEF IdleWorker, WorkerState, WorkerPC
    <3>3. s.tx \in TxIds
      BY <3>1 DEF IdleWorker
    <3> QED BY <1>16, <1>t, <1>q, <2>2, <3>2, <3>3, WorkerMoves DEF Settle
  <2> QED BY <1>16, <2>1, <2>2 DEF Settle
<1>17. ASSUME NEW w \in Workers, SettleFails(w) PROVE TypeOK'
  BY <1>17, <1>w, <1>q, FaultTyped DEF SettleFails
<1>18. ASSUME NEW w \in Workers, Notify(w) PROVE TypeOK'
  BY <1>18, <1>w, <1>q DEF Notify
<1>19. ASSUME NEW w \in Workers, WorkerCrash(w) PROVE TypeOK'
  <2>1. worker[w].tx \in TxIds
    BY <1>19 DEF WorkerCrash, TypeOK
  <2>2. queue' \in [TxIds -> Nat]
    BY <1>19, <1>q, <2>1 DEF WorkerCrash
  <2> QED BY <1>19, <1>w, <2>2, FaultTyped DEF WorkerCrash
<1>20. ASSUME NEW t \in TxIds, DuplicateMessage(t) PROVE TypeOK'
  BY <1>20, <1>t, FaultTyped DEF DuplicateMessage, TypeOK
<1>21. CASE Reconcile
  <2>1. /\ recon' \subseteq TxIds /\ queue' \in [TxIds -> Nat] /\ faults' \in 0..MaxFaults
        /\ UNCHANGED <<sched, cancel, worker, copies>>
    BY <1>21, <1>q, FaultTyped
       DEF Reconcile, ReconQuery, ReconCrash, ReconSend, ReconSendFails, TypeOK
  <2> QED BY <1>t, <2>1 DEF TypeOK
<1>22. ASSUME NEW t \in TxIds, GrowOld(t) PROVE TypeOK'
  BY <1>0, <1>22 DEF GrowOld
<1>23. ASSUME NEW t \in TxIds, Expire(t) PROVE TypeOK'
  BY <1>0, <1>23 DEF Expire
<1>24. CASE UNCHANGED vars
  BY <1>0, <1>24 DEF vars, processes
<1>25. ASSUME NEW r \in Copies, NEW u \in Users, Replicate(r, u) PROVE TypeOK'
  <2>1. copies' \in [Copies -> [Users -> Wallet]]
    BY <1>25, PartsFromType DEF Replicate, TablesTypeOK
  <2> QED BY <1>25, <1>t, <2>1 DEF Replicate, TypeOK
<1> QED
  BY <1>1, <1>2, <1>3, <1>4, <1>5, <1>6, <1>7, <1>8, <1>9, <1>10, <1>11, <1>12, <1>13,
     <1>14, <1>15, <1>16, <1>17, <1>18, <1>19, <1>20, <1>21, <1>22, <1>23, <1>24, <1>25, NextCases

\* In every state each process is at a call it makes, with items it read.
THEOREM TypeCorrect == Spec => []TypeOK
<1>1. Init => TypeOK
  <2> SUFFICES ASSUME Init PROVE TypeOK
    OBVIOUS
  <2>1. TablesTypeOK
    BY TablesTypeInit DEF Init
  <2>2. sched \in [TxIds -> SchedState] /\ cancel \in [Cancellers -> CancelState]
    BY UnreadIsWallet DEF Init, SchedState, SchedPC, CancelState, CancelPC
  <2>3. worker \in [Workers -> WorkerState]
    BY UnreadIsWallet DEF Init, IdleWorker, WorkerState, WorkerPC
  <2>4. /\ \A c \in Cancellers : cancel[c].pc = "idle"
        /\ \A w \in Workers : worker[w].pc = "idle"
    BY DEF Init, IdleWorker
  <2>5. /\ queue \in [TxIds -> Nat] /\ recon \subseteq TxIds /\ faults \in 0..MaxFaults
        /\ copies \in [Copies -> [Users -> Wallet]]
    BY BoundsAssumption, <2>1 DEF Init, TablesTypeOK
  <2> QED BY <2>1, <2>2, <2>3, <2>4, <2>5, TypeFromParts
<1> QED BY <1>1, TypeStep, PTL DEF Spec

-----------------------------------------------------------------------------
(* What the tables keep, the system keeps *)

\* Handlers, lambdas and faults together change the tables only by the conditional
\* writes of pkg/storage/dynamodb, each with the versions current when it is applied.
THEOREM SystemImplementsTables == Spec => ImplementsTables
<1>1. Init => TablesInit
  BY DEF Init
<1> QED BY <1>1, TablesStep, TypeCorrect, PTL DEF Spec, ImplementsTables, TablesSpec

\* With crashes, duplicates, deletions and expiry, the system is a bank in which the
\* money of each transfer leaves its sender once and arrives at most once.
THEOREM SystemImplementsBank == Spec => ImplementsEscrowBank
BY SystemImplementsTables, ImplementsBank, PTL DEF ImplementsTables

\* No interleaving of requests and lambdas overdraws the wallet of a user whose transfers
\* are all of zero or more.
THEOREM SystemNoOverdraft == Spec => []OverdrawnByNegative
BY SystemImplementsTables, NoOverdraft, PTL DEF ImplementsTables

\* No redelivery, duplicate, retry or re-enqueueing posts a transaction twice.
THEOREM SystemPostedOnce == Spec => []PostedOnceCompleted
BY SystemImplementsTables, PostedOnce, PTL DEF ImplementsTables

\* Nor does any of them move money that the status of its transaction does not tell of.
THEOREM SystemDoubleEntry == Spec => BooksMove
BY SystemImplementsTables, DoubleEntry, PTL DEF ImplementsTables

-----------------------------------------------------------------------------
(* The lock *)

\* How a write can change the status of an item.
StatusMoves(t) ==
    \/ transactions'[t].status = transactions[t].status
    \/ transactions[t].status = "NONE" /\ transactions'[t].status = "RESERVED"
    \/ /\ transactions[t].status = "RESERVED"
       /\ transactions'[t].status \in {"WORKING", "CANCELLED"}
    \/ transactions[t].status = "WORKING" /\ transactions'[t].status = "COMPLETED"

\* NONE, RESERVED, then CANCELLED or WORKING and COMPLETED: no write goes back.
LEMMA StatusEvolves ==
    ASSUME TablesTypeOK, [TablesNext]_tables, NEW t \in TxIds
    PROVE  StatusMoves(t)
<1>0. ASSUME NEW u \in Users, PutWallet(u) PROVE StatusMoves(t)
  BY <1>0 DEF PutWallet, StatusMoves
<1>1. ASSUME NEW u \in Users, RemoveWallet(u) PROVE StatusMoves(t)
  BY <1>1 DEF RemoveWallet, StatusMoves
<1>2. ASSUME NEW s \in TxIds, NEW v \in Int, ReserveFunds(s, v) PROVE StatusMoves(t)
  BY <1>2 DEF ReserveFunds, TablesTypeOK, StatusMoves
<1>3. ASSUME NEW s \in TxIds, LockTransaction(s) PROVE StatusMoves(t)
  BY <1>3 DEF LockTransaction, CanLock, TablesTypeOK, Transaction, StatusMoves
<1>4. ASSUME NEW s \in TxIds, NEW v \in Int, NEW x \in Int, SettleTransfer(s, v, x)
      PROVE StatusMoves(t)
  BY <1>4 DEF SettleTransfer, CanSettle, TablesTypeOK, Transaction, StatusMoves
<1>5. ASSUME NEW s \in TxIds, NEW v \in Int, ReleaseFunds(s, v) PROVE StatusMoves(t)
  BY <1>5 DEF ReleaseFunds, CanRelease, TablesTypeOK, Transaction, StatusMoves
<1>6. ASSUME NEW s \in TxIds, Age(s) PROVE StatusMoves(t)
  BY <1>6 DEF Age, TablesTypeOK, Transaction, StatusMoves
<1>7. ASSUME NEW s \in TxIds, ExpireTransaction(s) PROVE StatusMoves(t)
  BY <1>7 DEF ExpireTransaction, TablesTypeOK, Transaction, StatusMoves
<1>8. CASE UNCHANGED tables
  BY <1>8 DEF tables, StatusMoves
<1> QED BY <1>0, <1>1, <1>2, <1>3, <1>4, <1>5, <1>6, <1>7, <1>8, TablesNextCases

\* The lock is kept by a step that leaves WORKING and COMPLETED as they are and in
\* which no worker takes a lock or comes to notify.
LEMMA LockKept ==
    ASSUME LockIsExclusive,
           \A t \in TxIds : transactions[t].status \in {"WORKING", "COMPLETED"} =>
               transactions'[t].status = transactions[t].status,
           \A w \in Workers : worker[w].pc # "idle" => worker[w].tx \in TxIds,
           \A w \in Workers :
               \/ worker'[w] = worker[w]
               \/ worker'[w].pc \notin Locked \union {"notify"}
               \/ worker[w].pc \in Locked /\ worker'[w].pc \in Locked
                    /\ worker'[w].tx = worker[w].tx
    PROVE  LockIsExclusive'
BY DEF LockIsExclusive, Locked

\* As LockKept, for a step that settles the transaction of w: nobody else has its lock.
LEMMA LockSettled ==
    ASSUME TypeOK, LockIsExclusive, NEW w \in Workers, NEW v, NEW x,
           worker[w].pc \in Locked, SettleTransfer(worker[w].tx, v, x),
           \/ worker' = [worker EXCEPT ![w] = IdleWorker]
           \/ worker' = [worker EXCEPT ![w] = [IdleWorker EXCEPT !.pc = "notify",
                                                               !.tx = worker[w].tx]]
    PROVE  LockIsExclusive'
<1>s. PICK s : /\ worker' = [worker EXCEPT ![w] = s]
               /\ \/ s = IdleWorker
                  \/ s = [IdleWorker EXCEPT !.pc = "notify", !.tx = worker[w].tx]
  OBVIOUS
<1>1. /\ \A y \in Workers : worker[y].pc # "idle" => worker[y].tx \in TxIds
      /\ worker \in [Workers -> WorkerState]
  BY PartsFromType
<1>2. worker[w].tx \in TxIds
  BY <1>1 DEF Locked
<1>3. /\ transactions'[worker[w].tx].status = "COMPLETED"
      /\ \A t \in TxIds \ {worker[w].tx} : transactions'[t] = transactions[t]
  BY <1>2 DEF SettleTransfer, TypeOK, TablesTypeOK, Transaction
<1>4. \A y \in Workers \ {w} : worker'[y] = worker[y]
  BY <1>1, <1>s
<1>5. /\ worker'[w].pc \notin Locked
      /\ worker'[w].pc = "notify" => worker'[w].tx = worker[w].tx
  <2>1. worker'[w] = s
    BY <1>1, <1>s
  <2>2. s.pc \notin Locked /\ (s.pc = "notify" => s.tx = worker[w].tx)
    <3>1. CASE s = IdleWorker
      BY <3>1 DEF IdleWorker, Locked
    <3>2. CASE s = [IdleWorker EXCEPT !.pc = "notify", !.tx = worker[w].tx]
      <4>1. s.pc = "notify" /\ s.tx = worker[w].tx
        BY <3>2 DEF IdleWorker
      <4> QED BY <4>1 DEF Locked
    <3> QED BY <1>s, <3>1, <3>2
  <2> QED BY <2>1, <2>2
<1>6. \A y \in Workers \ {w} : worker[y].pc \in Locked => worker[y].tx # worker[w].tx
  BY DEF LockIsExclusive
<1> QED BY <1>1, <1>2, <1>3, <1>4, <1>5, <1>6 DEF LockIsExclusive, Locked

\* Locking happens from RESERVED, when by the invariant nobody is past the lock.
LEMMA LockStep == TypeOK /\ LockIsExclusive /\ [Next]_vars => LockIsExclusive'
<1> SUFFICES ASSUME TypeOK, LockIsExclusive, [Next]_vars PROVE LockIsExclusive'
  OBVIOUS
<1>p. /\ TablesTypeOK /\ worker \in [Workers -> WorkerState]
      /\ transactions \in [TxIds -> Transaction]
      /\ \A w \in Workers : worker[w].pc # "idle" => worker[w].tx \in TxIds
  BY PartsFromType DEF TablesTypeOK
<1>0. ASSUME UNCHANGED worker,
             \A t \in TxIds : transactions[t].status \in {"WORKING", "COMPLETED"} =>
               transactions'[t].status = transactions[t].status
      PROVE  LockIsExclusive'
  BY <1>0, <1>p, LockKept
<1>f. ASSUME NEW w \in Workers, Finish(w),
             \A t \in TxIds : transactions[t].status \in {"WORKING", "COMPLETED"} =>
               transactions'[t].status = transactions[t].status
      PROVE  LockIsExclusive'
  <2>1. \A y \in Workers : worker'[y] = worker[y]
                        \/ worker'[y].pc \notin Locked \union {"notify"}
    BY <1>f, <1>p DEF Finish, IdleWorker, Locked
  <2> QED BY <1>f, <1>p, <2>1, LockKept
<1>1. ASSUME NEW u \in Users, CreateWallet(u) PROVE LockIsExclusive'
  BY <1>0, <1>1 DEF CreateWallet, PutWallet, processes
<1>2. ASSUME NEW u \in Users, DeleteWallet(u) PROVE LockIsExclusive'
  BY <1>0, <1>2 DEF DeleteWallet, RemoveWallet, processes
<1>3. ASSUME NEW t \in TxIds, ScheduleRead(t) PROVE LockIsExclusive'
  BY <1>0, <1>3 DEF ScheduleRead, tables
<1>4. ASSUME NEW t \in TxIds, ScheduleWrite(t) PROVE LockIsExclusive'
  BY <1>0, <1>4, <1>p DEF ScheduleWrite, ReserveFunds, tables
<1>5. ASSUME NEW t \in TxIds, ScheduleSend(t) PROVE LockIsExclusive'
  BY <1>0, <1>5 DEF ScheduleSend, tables
<1>6. ASSUME NEW t \in TxIds, ScheduleFails(t) PROVE LockIsExclusive'
  BY <1>0, <1>6 DEF ScheduleFails, tables
<1>7. ASSUME NEW c \in Cancellers, NEW t \in TxIds, CancelRead(c, t) PROVE LockIsExclusive'
  BY <1>0, <1>7 DEF CancelRead, tables
<1>8. ASSUME NEW c \in Cancellers, CancelReadWallet(c) PROVE LockIsExclusive'
  BY <1>0, <1>8 DEF CancelReadWallet, tables
<1>9. ASSUME NEW c \in Cancellers, CancelWrite(c) PROVE LockIsExclusive'
  BY <1>0, <1>9, <1>p DEF CancelWrite, ReleaseFunds, CanRelease, tables
<1>10. ASSUME NEW c \in Cancellers, CancelFails(c) PROVE LockIsExclusive'
  BY <1>0, <1>10 DEF CancelFails, tables
<1>11. ASSUME NEW w \in Workers, NEW t \in TxIds, Receive(w, t) PROVE LockIsExclusive'
  <2>1. \A y \in Workers : worker'[y] = worker[y]
                        \/ worker'[y].pc \notin Locked \union {"notify"}
    BY <1>11, <1>p DEF Receive, IdleWorker, Locked
  <2> QED BY <1>11, <1>p, <2>1, LockKept DEF Receive, tables
<1>12. ASSUME NEW w \in Workers, AcquireLock(w) PROVE LockIsExclusive'
  <2>1. CASE Finish(w) /\ UNCHANGED tables
    BY <1>f, <2>1 DEF tables
  <2>2. CASE LockTransaction(worker[w].tx) /\ WorkerGoto(w, "sender")
    <3>1. worker[w].tx \in TxIds
      BY <1>12, <1>p DEF AcquireLock
    <3>2. /\ transactions[worker[w].tx].status = "RESERVED"
          /\ transactions'[worker[w].tx].status = "WORKING"
          /\ \A t \in TxIds \ {worker[w].tx} : transactions'[t] = transactions[t]
      BY <1>p, <2>2, <3>1 DEF LockTransaction, CanLock, Transaction
    <3>3. /\ \A y \in Workers \ {w} : worker'[y] = worker[y]
          /\ worker'[w].pc = "sender" /\ worker'[w].tx = worker[w].tx
      BY <1>p, <2>2 DEF WorkerGoto, WorkerState
    <3>4. \A y \in Workers : worker[y].pc \in Locked \union {"notify"}
                                => worker[y].tx # worker[w].tx
      BY <3>2 DEF LockIsExclusive
    <3> QED BY <1>p, <3>1, <3>2, <3>3, <3>4 DEF LockIsExclusive, Locked
  <2> QED BY <1>12, <2>1, <2>2 DEF AcquireLock
<1>13. ASSUME NEW w \in Workers, AcquireLockFails(w) PROVE LockIsExclusive'
  BY <1>f, <1>13, <1>p DEF AcquireLockFails, LockTransaction, CanLock, tables
<1>14. ASSUME NEW w \in Workers, ReadSender(w) PROVE LockIsExclusive'
  <2>1. CASE Finish(w)
    BY <1>f, <1>14, <2>1 DEF ReadSender, tables
  <2>2. ASSUME NEW sender,
               worker' = [worker EXCEPT ![w].pc = "receiver", ![w].sender = sender]
        PROVE  LockIsExclusive'
    <3>1. /\ \A y \in Workers \ {w} : worker'[y] = worker[y]
          /\ worker'[w].pc = "receiver" /\ worker'[w].tx = worker[w].tx
      BY <1>p, <2>2 DEF WorkerState
    <3> QED BY <1>14, <1>p, <3>1, LockKept DEF ReadSender, Locked, tables
  <2> QED BY <1>14, <2>1, <2>2 DEF ReadSender
<1>15. ASSUME NEW w \in Workers, ReadReceiver(w) PROVE LockIsExclusive'
  <2>1. CASE Finish(w)
    BY <1>f, <1>15, <2>1 DEF ReadReceiver, tables
  <2>2. ASSUME NEW receiver,
               worker' = [worker EXCEPT ![w].pc = "settle", ![w].receiver = receiver]
        PROVE  LockIsExclusive'
    <3>1. /\ \A y \in Workers \ {w} : worker'[y] = worker[y]
          /\ worker'[w].pc = "settle" /\ worker'[w].tx = worker[w].tx
      BY <1>p, <2>2 DEF WorkerState
    <3> QED BY <1>15, <1>p, <3>1, LockKept DEF ReadReceiver, Locked, tables
  <2> QED BY <1>15, <2>1, <2>2 DEF ReadReceiver
<1>16. ASSUME NEW w \in Workers, Settle(w) PROVE LockIsExclusive'
  <2> DEFINE s == [IdleWorker EXCEPT !.pc = "notify", !.tx = worker[w].tx]
             v == worker[w].sender.version
             x == worker[w].receiver.version
  <2>1. CASE Finish(w) /\ UNCHANGED tables
    BY <1>f, <2>1 DEF tables
  <2>2. CASE SettleTransfer(worker[w].tx, v, x) /\ worker' = [worker EXCEPT ![w] = s]
    <3>1. worker[w].pc \in Locked
      BY <1>16 DEF Settle, Locked
    <3> QED BY <2>2, <3>1, LockSettled, ZenonT(30)
  <2> QED BY <1>16, <2>1, <2>2 DEF Settle
<1>17. ASSUME NEW w \in Workers, SettleFails(w) PROVE LockIsExclusive'
  <2>1. CASE UNCHANGED tables
    BY <1>f, <1>17, <2>1 DEF SettleFails, tables
  <2> DEFINE v == worker[w].sender.version
             x == worker[w].receiver.version
  <2>2. CASE worker[w].pc = "settle" /\ SettleTransfer(worker[w].tx, v, x)
    <3>1. worker[w].pc \in Locked /\ worker' = [worker EXCEPT ![w] = IdleWorker]
      BY <1>17, <2>2 DEF SettleFails, Finish, Locked
    <3> QED BY <2>2, <3>1, LockSettled, ZenonT(30)
  <2> QED BY <1>17, <2>1, <2>2 DEF SettleFails
<1>18. ASSUME NEW w \in Workers, Notify(w) PROVE LockIsExclusive'
  BY <1>f, <1>18 DEF Notify, tables
<1>19. ASSUME NEW w \in Workers, WorkerCrash(w) PROVE LockIsExclusive'
  BY <1>f, <1>19 DEF WorkerCrash, tables
<1>20. ASSUME NEW t \in TxIds, DuplicateMessage(t) PROVE LockIsExclusive'
  BY <1>0, <1>20 DEF DuplicateMessage, tables
<1>21. CASE Reconcile
  BY <1>0, <1>21 DEF Reconcile, ReconQuery, ReconCrash, ReconSend, ReconSendFails, tables
<1>22. ASSUME NEW t \in TxIds, GrowOld(t) PROVE LockIsExclusive'
  BY <1>0, <1>22, <1>p DEF GrowOld, Age, Transaction, processes
<1>23. ASSUME NEW t \in TxIds, Expire(t) PROVE LockIsExclusive'
  BY <1>0, <1>23, <1>p DEF Expire, ExpireTransaction, Transaction, processes
<1>24. CASE UNCHANGED vars
  BY <1>0, <1>24 DEF vars
<1>25. ASSUME NEW r \in Copies, NEW u \in Users, Replicate(r, u) PROVE LockIsExclusive'
  BY <1>0, <1>25 DEF Replicate, tables
<1> QED
  BY <1>1, <1>2, <1>3, <1>4, <1>5, <1>6, <1>7, <1>8, <1>9, <1>10, <1>11, <1>12, <1>13,
     <1>14, <1>15, <1>16, <1>17, <1>18, <1>19, <1>20, <1>21, <1>22, <1>23, <1>24, <1>25, NextCases

\* settle_transaction.go: "This prevents a transaction from being processed multiple
\* times if the lambda is invoked more than once for the same SQS message."
THEOREM LockWorks == Spec => []LockIsExclusive
<1>1. Init => LockIsExclusive
  BY DEF Init, IdleWorker, LockIsExclusive, Locked
<1> QED BY <1>1, LockStep, TypeCorrect, PTL DEF Spec

-----------------------------------------------------------------------------
(* Optimistic locking *)

\* How a write can change a wallet: not at all, into none, into another, or to a
\* higher version of the same.
WalletMoves(u) ==
    \/ wallets'[u] = wallets[u]
    \/ ~wallets'[u].exists /\ wallets'[u].created_at = wallets[u].created_at
    \/ wallets'[u].created_at > wallets[u].created_at
    \/ /\ wallets'[u].created_at = wallets[u].created_at
       /\ wallets[u].exists
       /\ wallets'[u].version > wallets[u].version

\* Every write to a wallet that stays bumps its version; a wallet made after a
\* deletion has a later created_at, although its version starts again from 1.
LEMMA WalletEvolves ==
    ASSUME TablesTypeOK, [TablesNext]_tables, NEW u \in Users
    PROVE  WalletMoves(u)
<1>0. wallets[u] \in Wallet
  BY DEF TablesTypeOK
<1>1. ASSUME NEW a \in Users, PutWallet(a) PROVE WalletMoves(u)
  <2>1. CASE a = u
    <3>1. wallets'[u] = NewWallet(wallets[u].created_at + 1)
      BY <1>1, <2>1 DEF PutWallet, TablesTypeOK
    <3>2. wallets'[u].created_at = wallets[u].created_at + 1
      BY <3>1 DEF NewWallet
    <3>3. wallets[u].created_at \in Nat
      BY <1>0 DEF Wallet
    <3> QED BY <3>2, <3>3 DEF WalletMoves
  <2>2. CASE a # u
    BY <1>1, <2>2 DEF PutWallet, TablesTypeOK, WalletMoves
  <2> QED BY <2>1, <2>2
<1>2. ASSUME NEW a \in Users, RemoveWallet(a) PROVE WalletMoves(u)
  <2>1. CASE a = u
    <3>1. wallets'[u] = NoWallet(wallets[u].created_at)
      BY <1>2, <2>1 DEF RemoveWallet, TablesTypeOK
    <3> QED BY <3>1 DEF NoWallet, WalletMoves
  <2>2. CASE a # u
    BY <1>2, <2>2 DEF RemoveWallet, TablesTypeOK, WalletMoves
  <2> QED BY <2>1, <2>2
<1>b. ASSUME wallets[u].exists, wallets'[u].created_at = wallets[u].created_at,
             wallets'[u].version = wallets[u].version + 1
      PROVE  WalletMoves(u)
  BY <1>0, <1>b DEF Wallet, WalletMoves
<1>3. ASSUME NEW t \in TxIds, NEW v \in Int, ReserveFunds(t, v) PROVE WalletMoves(u)
  <2>1. CASE u = terms[t].from
    <3>1. /\ wallets'[u] = Reserve(wallets[u], terms[t].amount)
          /\ wallets[u].exists /\ terms[t].amount \in Int
      BY <1>3, <2>1, TermsTyped DEF ReserveFunds, CanReserve, TablesTypeOK
    <3> QED BY <1>0, <1>b, <3>1, ReserveWallet
  <2>2. CASE u # terms[t].from
    BY <1>3, <2>2 DEF ReserveFunds, TablesTypeOK, WalletMoves
  <2> QED BY <2>1, <2>2
<1>4. ASSUME NEW t \in TxIds, LockTransaction(t) PROVE WalletMoves(u)
  BY <1>4 DEF LockTransaction, WalletMoves
<1>5. ASSUME NEW t \in TxIds, NEW v \in Int, NEW x \in Int, SettleTransfer(t, v, x)
      PROVE WalletMoves(u)
  <2>1. CASE u = terms[t].from
    <3>1. /\ wallets'[u] = Spend(wallets[u], terms[t].amount)
          /\ wallets[u].exists /\ terms[t].amount \in Int
      BY <1>5, <2>1, TermsTyped DEF SettleTransfer, CanSettle, TablesTypeOK
    <3> QED BY <1>0, <1>b, <3>1, SpendWallet
  <2>2. CASE u = terms[t].to
    <3>1. /\ wallets'[u] = Earn(wallets[u], terms[t].amount)
          /\ wallets[u].exists /\ terms[t].amount \in Int
      BY <1>5, <2>2, TermsTyped DEF SettleTransfer, CanSettle, TablesTypeOK
    <3> QED BY <1>0, <1>b, <3>1, EarnWallet
  <2>3. CASE u # terms[t].from /\ u # terms[t].to
    BY <1>5, <2>3 DEF SettleTransfer, TablesTypeOK, WalletMoves
  <2> QED BY <2>1, <2>2, <2>3
<1>6. ASSUME NEW t \in TxIds, NEW v \in Int, ReleaseFunds(t, v) PROVE WalletMoves(u)
  <2>1. CASE u = terms[t].from
    <3>1. /\ wallets'[u] = Release(wallets[u], terms[t].amount)
          /\ wallets[u].exists /\ terms[t].amount \in Int
      BY <1>6, <2>1, TermsTyped DEF ReleaseFunds, CanRelease, TablesTypeOK
    <3> QED BY <1>0, <1>b, <3>1, ReleaseWallet
  <2>2. CASE u # terms[t].from
    BY <1>6, <2>2 DEF ReleaseFunds, TablesTypeOK, WalletMoves
  <2> QED BY <2>1, <2>2
<1>7. ASSUME NEW t \in TxIds, Age(t) PROVE WalletMoves(u)
  BY <1>7 DEF Age, WalletMoves
<1>8. ASSUME NEW t \in TxIds, ExpireTransaction(t) PROVE WalletMoves(u)
  BY <1>8 DEF ExpireTransaction, WalletMoves
<1>9. CASE UNCHANGED tables
  BY <1>9 DEF tables, WalletMoves
<1> QED BY <1>1, <1>2, <1>3, <1>4, <1>5, <1>6, <1>7, <1>8, <1>9, TablesNextCases

\* What was true of a wallet that was read stays true when the tables are written.
LEMMA SnapshotKept ==
    ASSUME TablesTypeOK, TablesTypeOK', [TablesNext]_tables, NEW u \in Users,
           NEW saw \in Wallet, Snapshot(saw, wallets[u])
    PROVE  Snapshot(saw, wallets'[u])
<1>1. WalletMoves(u) /\ wallets[u] \in Wallet /\ wallets'[u] \in Wallet
  BY WalletEvolves DEF TablesTypeOK
<1>2. /\ saw.version \in Int /\ saw.created_at \in Int
      /\ wallets[u].version \in Int /\ wallets[u].created_at \in Int
      /\ wallets'[u].version \in Int /\ wallets'[u].created_at \in Int
  BY <1>1 DEF Wallet
<1>3. CASE wallets'[u] = wallets[u]
  BY <1>3
<1>4. CASE ~wallets'[u].exists /\ wallets'[u].created_at = wallets[u].created_at
  BY <1>4 DEF Snapshot
<1>5. CASE wallets'[u].created_at > wallets[u].created_at
  BY <1>2, <1>5 DEF Snapshot
<1>6. CASE /\ wallets'[u].created_at = wallets[u].created_at
           /\ wallets[u].exists
           /\ wallets'[u].version > wallets[u].version
  BY <1>2, <1>6 DEF Snapshot
<1> QED BY <1>1, <1>3, <1>4, <1>5, <1>6 DEF WalletMoves

\* A wallet just read is the current one.
LEMMA SnapshotTaken ==
    ASSUME NEW w \in Wallet, w.exists
    PROVE  Snapshot(w, w)
BY DEF Wallet, Snapshot

\* What a copy of the table has of a wallet is behind the wallet, never ahead of it.
CopiesLag ==
    \A r \in Copies, u \in Users :
        copies[r][u].exists => Snapshot(copies[r][u], wallets[u])

\* The processes do not write to the copies.
LEMMA CopiesMove ==
    ASSUME [Next]_vars
    PROVE  UNCHANGED copies \/ \E r \in Copies, u \in Users : Replicate(r, u)
<1> DEFINE P == UNCHANGED copies \/ \E r \in Copies, u \in Users : Replicate(r, u)
<1>1. \A u \in Users : CreateWallet(u) \/ DeleteWallet(u) => P
  BY DEF CreateWallet, DeleteWallet, processes
<1>2. \A t \in TxIds :
        ScheduleRead(t) \/ ScheduleWrite(t) \/ ScheduleSend(t) \/ ScheduleFails(t) => P
  BY DEF ScheduleRead, ScheduleWrite, ScheduleSend, ScheduleFails
<1>3. \A c \in Cancellers :
        /\ CancelReadWallet(c) \/ CancelWrite(c) \/ CancelFails(c) => P
        /\ \A t \in TxIds : CancelRead(c, t) => P
  BY DEF CancelRead, CancelReadWallet, CancelWrite, CancelFails
<1>4. \A w \in Workers :
        /\ AcquireLock(w) \/ ReadSender(w) \/ ReadReceiver(w) \/ Settle(w) \/ Notify(w) => P
        /\ AcquireLockFails(w) \/ SettleFails(w) \/ WorkerCrash(w) => P
        /\ \A t \in TxIds : Receive(w, t) => P
  BY DEF Receive, AcquireLock, ReadSender, ReadReceiver, Settle, Notify, AcquireLockFails,
         SettleFails, WorkerCrash
<1>5. Reconcile => P
  BY DEF Reconcile, ReconQuery, ReconCrash, ReconSend, ReconSendFails
<1>6. \A t \in TxIds : DuplicateMessage(t) \/ GrowOld(t) \/ Expire(t) => P
  BY DEF DuplicateMessage, GrowOld, Expire, processes
<1>7. UNCHANGED vars => P
  BY DEF vars
<1>8. P
  <2> HIDE DEF P
  <2>1. \A r \in Copies, u \in Users : Replicate(r, u) => P
    BY DEF P
  <2> QED BY <1>1, <1>2, <1>3, <1>4, <1>5, <1>6, <1>7, <2>1, NextCases
<1> QED BY <1>8

\* Where the processes keep the wallets they have read.
SchedSnapshot(t) ==
    sched[t].pc = "write" => Snapshot(sched[t].saw, wallets[terms[t].from])
CancelSnapshot(c) ==
    cancel[c].pc = "write" => Snapshot(cancel[c].saw, wallets[terms[cancel[c].tx].from])
WorkerSnapshots(w) ==
    /\ worker[w].pc \in {"receiver", "settle"} =>
        Snapshot(worker[w].sender, wallets[terms[worker[w].tx].from])
    /\ worker[w].pc = "settle" =>
        Snapshot(worker[w].receiver, wallets[terms[worker[w].tx].to])

\* Every snapshot a process keeps stays good through a step; what is left to show of a
\* step is that the process it moves, if any, drops its snapshots or took good ones.
LEMMA VersionKept ==
    ASSUME TypeOK, TypeOK', [TablesNext]_tables, UNCHANGED terms, VersionDetectsChange,
           \A t \in TxIds : sched'[t] = sched[t] \/ SchedSnapshot(t)',
           \A c \in Cancellers : cancel'[c] = cancel[c] \/ CancelSnapshot(c)',
           \A w \in Workers : worker'[w] = worker[w] \/ WorkerSnapshots(w)'
    PROVE  VersionDetectsChange'
<1>1. TablesTypeOK /\ TablesTypeOK'
  BY DEF TypeOK
<1>2. ASSUME NEW t \in TxIds PROVE SchedSnapshot(t)'
  <2>1. CASE sched'[t] = sched[t]
    <3>1. sched[t].saw \in Wallet /\ terms[t].from \in Users
      BY <1>1, TermsTyped DEF TypeOK
    <3>2. SchedSnapshot(t)
      BY DEF VersionDetectsChange, SchedSnapshot
    <3>3. Snapshot(sched[t].saw, wallets[terms[t].from])
            => Snapshot(sched[t].saw, wallets'[terms[t].from])
      BY <1>1, <3>1, SnapshotKept
    <3> QED BY <2>1, <3>2, <3>3 DEF SchedSnapshot
  <2> QED BY <2>1
<1>3. ASSUME NEW c \in Cancellers PROVE CancelSnapshot(c)'
  <2>1. CASE cancel'[c] = cancel[c] /\ cancel[c].pc = "write"
    <3>1. cancel[c].saw \in Wallet /\ cancel[c].tx \in TxIds
      BY <2>1 DEF TypeOK
    <3>2. terms[cancel[c].tx].from \in Users
      BY <1>1, <3>1, TermsTyped
    <3>3. Snapshot(cancel[c].saw, wallets[terms[cancel[c].tx].from])
      BY <2>1 DEF VersionDetectsChange
    <3>4. Snapshot(cancel[c].saw, wallets'[terms[cancel[c].tx].from])
      BY <1>1, <3>1, <3>2, <3>3, SnapshotKept
    <3> QED BY <2>1, <3>4 DEF CancelSnapshot
  <2>2. CASE cancel'[c] = cancel[c] /\ cancel[c].pc # "write"
    BY <2>2 DEF CancelSnapshot
  <2> QED BY <2>1, <2>2
<1>4. ASSUME NEW w \in Workers PROVE WorkerSnapshots(w)'
  <2>1. CASE worker'[w] = worker[w] /\ worker[w].pc \in {"receiver", "settle"}
    <3>1. worker[w].sender \in Wallet /\ worker[w].receiver \in Wallet /\ worker[w].tx \in TxIds
      BY <2>1 DEF TypeOK
    <3>2. terms[worker[w].tx].from \in Users /\ terms[worker[w].tx].to \in Users
      BY <1>1, <3>1, TermsTyped
    <3>3. Snapshot(worker[w].sender, wallets[terms[worker[w].tx].from])
      BY <2>1 DEF VersionDetectsChange
    <3>4. Snapshot(worker[w].sender, wallets'[terms[worker[w].tx].from])
      BY <1>1, <3>1, <3>2, <3>3, SnapshotKept
    <3>5. worker[w].pc = "settle" => Snapshot(worker[w].receiver, wallets[terms[worker[w].tx].to])
      BY DEF VersionDetectsChange
    <3>6. Snapshot(worker[w].receiver, wallets[terms[worker[w].tx].to])
            => Snapshot(worker[w].receiver, wallets'[terms[worker[w].tx].to])
      BY <1>1, <3>1, <3>2, SnapshotKept
    <3> QED BY <2>1, <3>4, <3>5, <3>6 DEF WorkerSnapshots
  <2>2. CASE worker'[w] = worker[w] /\ worker[w].pc \notin {"receiver", "settle"}
    BY <2>2 DEF WorkerSnapshots
  <2> QED BY <2>1, <2>2
<1> QED BY <1>2, <1>3, <1>4
        DEF VersionDetectsChange, SchedSnapshot, CancelSnapshot, WorkerSnapshots

\* Nothing changes what a transaction is about.
LEMMA TermsKept == [TablesNext]_tables => UNCHANGED terms
<1> SUFFICES ASSUME [TablesNext]_tables PROVE UNCHANGED terms
  OBVIOUS
<1>1. ASSUME NEW u \in Users, PutWallet(u) \/ RemoveWallet(u) PROVE UNCHANGED terms
  BY <1>1 DEF PutWallet, RemoveWallet
<1>2. ASSUME NEW t \in TxIds, NEW v, NEW x,
             \/ ReserveFunds(t, v) \/ LockTransaction(t) \/ SettleTransfer(t, v, x)
             \/ ReleaseFunds(t, v) \/ Age(t) \/ ExpireTransaction(t)
      PROVE  UNCHANGED terms
  BY <1>2 DEF ReserveFunds, LockTransaction, SettleTransfer, ReleaseFunds, Age, ExpireTransaction
<1> QED BY <1>1, <1>2 DEF TablesNext, tables

\* A copy that catches up has the wallet as it is.
LEMMA CopiesStep == TypeOK /\ CopiesLag /\ [Next]_vars => CopiesLag'
<1> SUFFICES ASSUME TypeOK, CopiesLag, [Next]_vars,
                    NEW r \in Copies, NEW u \in Users, copies'[r][u].exists
             PROVE  Snapshot(copies'[r][u], wallets'[u])
  BY DEF CopiesLag
<1>1. /\ TablesTypeOK /\ TablesTypeOK' /\ [TablesNext]_tables
      /\ copies \in [Copies -> [Users -> Wallet]] /\ wallets \in [Users -> Wallet]
  BY TypeStep, TablesStep DEF TypeOK, TablesTypeOK
<1>2. CASE copies'[r][u] = copies[r][u]
  <2>1. copies[r][u] \in Wallet /\ Snapshot(copies[r][u], wallets[u])
    BY <1>1, <1>2 DEF CopiesLag
  <2> QED BY <1>1, <1>2, <2>1, SnapshotKept
<1>3. ASSUME NEW x \in Copies, NEW v \in Users, Replicate(x, v), copies'[r][u] # copies[r][u]
      PROVE  Snapshot(copies'[r][u], wallets'[u])
  <2>1. copies'[r][u] = wallets[u] /\ wallets'[u] = wallets[u]
    BY <1>1, <1>3 DEF Replicate, tables
  <2> QED BY <1>1, <2>1, SnapshotTaken
<1> QED BY <1>2, <1>3, CopiesMove

\* A read returns the wallet as it is, or an item of a copy, which is behind it.
LEMMA SnapshotRead ==
    ASSUME TypeOK, CopiesLag, NEW u \in Users, NEW x \in Readable(u), x.exists
    PROVE  Snapshot(x, wallets[u])
<1>1. CASE x = wallets[u]
  BY <1>1, SnapshotTaken DEF TypeOK, TablesTypeOK
<1>2. ASSUME NEW r \in Copies, x = copies[r][u] PROVE Snapshot(x, wallets[u])
  BY <1>2 DEF CopiesLag
<1> QED BY <1>1, <1>2 DEF Readable

\* A step moves one process, which drops its snapshots or takes one of what it has just
\* read; a worker that reads the receiver keeps the snapshot of the sender.
LEMMA VersionStep ==
    TypeOK /\ CopiesLag /\ VersionDetectsChange /\ [Next]_vars => VersionDetectsChange'
<1> SUFFICES ASSUME TypeOK, CopiesLag, VersionDetectsChange, [Next]_vars
             PROVE  VersionDetectsChange'
  OBVIOUS
<1>u. \A t \in TxIds : terms[t].from \in Users /\ terms[t].to \in Users
  BY TermsTyped DEF TypeOK
<1>p. /\ TypeOK' /\ [TablesNext]_tables /\ UNCHANGED terms
      /\ sched \in [TxIds -> SchedState]
      /\ cancel \in [Cancellers -> CancelState]
      /\ worker \in [Workers -> WorkerState]
  BY TypeStep, TablesStep, TermsKept, PartsFromType
<1>0. ASSUME UNCHANGED <<sched, cancel, worker>> PROVE VersionDetectsChange'
  BY <1>0, <1>p, VersionKept
<1>s. ASSUME NEW t \in TxIds, NEW pc, pc # "write", SchedGoto(t, pc), UNCHANGED <<cancel, worker>>
      PROVE  VersionDetectsChange'
  <2>1. \A y \in TxIds : sched'[y] = sched[y] \/ sched'[y].pc # "write"
    BY <1>s, <1>p DEF SchedGoto
  <2>2. \A y \in TxIds : sched'[y] = sched[y] \/ SchedSnapshot(y)'
    BY <2>1 DEF SchedSnapshot
  <2> QED BY <1>s, <1>p, <2>2, VersionKept
<1>c. ASSUME NEW c \in Cancellers, NEW s, s.pc # "write", cancel' = [cancel EXCEPT ![c] = s],
             UNCHANGED <<sched, worker>>
      PROVE  VersionDetectsChange'
  <2>1. \A y \in Cancellers : cancel'[y] = cancel[y] \/ cancel'[y].pc # "write"
    BY <1>c, <1>p
  <2>2. \A y \in Cancellers : cancel'[y] = cancel[y] \/ CancelSnapshot(y)'
    BY <2>1 DEF CancelSnapshot
  <2> QED BY <1>c, <1>p, <2>2, VersionKept
<1>w. ASSUME NEW w \in Workers, NEW s, s.pc \notin {"receiver", "settle"},
             worker' = [worker EXCEPT ![w] = s], UNCHANGED <<sched, cancel>>
      PROVE  VersionDetectsChange'
  <2>1. \A y \in Workers : worker'[y] = worker[y] \/ worker'[y].pc \notin {"receiver", "settle"}
    BY <1>w, <1>p
  <2>2. \A y \in Workers : worker'[y] = worker[y] \/ WorkerSnapshots(y)'
    BY <2>1 DEF WorkerSnapshots
  <2> QED BY <1>w, <1>p, <2>2, VersionKept
<1>f. ASSUME NEW w \in Workers, Finish(w), UNCHANGED <<sched, cancel>>
      PROVE  VersionDetectsChange'
  <2>1. IdleWorker.pc \notin {"receiver", "settle"}
    BY DEF IdleWorker
  <2> QED BY <1>f, <1>w, <2>1 DEF Finish
<1>g. ASSUME NEW c \in Cancellers, NEW pc, pc # "write", CancelGoto(c, pc),
             UNCHANGED <<sched, worker>>
      PROVE  VersionDetectsChange'
  BY <1>g, <1>c DEF CancelGoto
<1>1. ASSUME NEW u \in Users, CreateWallet(u) PROVE VersionDetectsChange'
  BY <1>0, <1>1 DEF CreateWallet, processes
<1>2. ASSUME NEW u \in Users, DeleteWallet(u) PROVE VersionDetectsChange'
  BY <1>0, <1>2 DEF DeleteWallet, processes
<1>3. ASSUME NEW t \in TxIds, ScheduleRead(t) PROVE VersionDetectsChange'
  <2>1. CASE SchedGoto(t, "failed")
    BY <1>3, <1>s, <2>1 DEF ScheduleRead
  <2>2. ASSUME NEW sender \in Readable(terms[t].from), sender.exists,
               sched' = [sched EXCEPT ![t] = [pc |-> "write", saw |-> sender]]
        PROVE  VersionDetectsChange'
    <3>1. Snapshot(sender, wallets[terms[t].from])
      BY <1>u, <2>2, SnapshotRead
    <3>2. /\ sched'[t].saw = sender /\ UNCHANGED <<wallets, terms>>
          /\ \A y \in TxIds \ {t} : sched'[y] = sched[y]
      BY <1>3, <1>p, <2>2 DEF ScheduleRead, tables
    <3>3. SchedSnapshot(t)'
      BY <3>1, <3>2 DEF SchedSnapshot
    <3> QED BY <1>3, <1>p, <3>2, <3>3, VersionKept DEF ScheduleRead
  <2> QED BY <1>3, <2>1, <2>2 DEF ScheduleRead
<1>4. ASSUME NEW t \in TxIds, ScheduleWrite(t) PROVE VersionDetectsChange'
  BY <1>4, <1>s DEF ScheduleWrite
<1>5. ASSUME NEW t \in TxIds, ScheduleSend(t) PROVE VersionDetectsChange'
  BY <1>5, <1>s DEF ScheduleSend
<1>6. ASSUME NEW t \in TxIds, ScheduleFails(t) PROVE VersionDetectsChange'
  BY <1>6, <1>s DEF ScheduleFails
<1>7. ASSUME NEW c \in Cancellers, NEW t \in TxIds, CancelRead(c, t) PROVE VersionDetectsChange'
  <2>1. PICK pc \in {"failed", "conflict", "wallet"} :
            cancel' = [cancel EXCEPT ![c] = [pc |-> pc, tx |-> t, saw |-> Unread]]
    BY <1>7 DEF CancelRead
  <2>2. [pc |-> pc, tx |-> t, saw |-> Unread].pc # "write"
    OBVIOUS
  <2> QED BY <1>7, <1>c, <2>1, <2>2 DEF CancelRead
<1>8. ASSUME NEW c \in Cancellers, CancelReadWallet(c) PROVE VersionDetectsChange'
  <2>1. CASE CancelGoto(c, "failed")
    BY <1>8, <1>g, <2>1 DEF CancelReadWallet
  <2>2. ASSUME NEW sender \in Readable(terms[cancel[c].tx].from), sender.exists,
               cancel' = [cancel EXCEPT ![c] = [pc |-> "write", tx |-> cancel[c].tx,
                                                saw |-> sender]]
        PROVE  VersionDetectsChange'
    <3>1. Snapshot(sender, wallets[terms[cancel[c].tx].from])
      <4>1. cancel[c].tx \in TxIds
        BY <1>8 DEF CancelReadWallet, TypeOK
      <4> QED BY <1>u, <2>2, <4>1, SnapshotRead
    <3>2. /\ cancel'[c].saw = sender /\ cancel'[c].tx = cancel[c].tx
          /\ UNCHANGED <<wallets, terms>>
          /\ \A y \in Cancellers \ {c} : cancel'[y] = cancel[y]
      BY <1>8, <1>p, <2>2 DEF CancelReadWallet, tables
    <3>3. CancelSnapshot(c)'
      BY <3>1, <3>2 DEF CancelSnapshot
    <3> QED BY <1>8, <1>p, <3>2, <3>3, VersionKept DEF CancelReadWallet
  <2> QED BY <1>8, <2>1, <2>2 DEF CancelReadWallet
<1>9. ASSUME NEW c \in Cancellers, CancelWrite(c) PROVE VersionDetectsChange'
  BY <1>9, <1>g DEF CancelWrite
<1>10. ASSUME NEW c \in Cancellers, CancelFails(c) PROVE VersionDetectsChange'
  BY <1>10, <1>g DEF CancelFails
<1>11. ASSUME NEW w \in Workers, NEW t \in TxIds, Receive(w, t) PROVE VersionDetectsChange'
  <2>1. [IdleWorker EXCEPT !.pc = "lock", !.tx = t].pc \notin {"receiver", "settle"}
    BY DEF IdleWorker
  <2> QED BY <1>11, <1>w, <2>1 DEF Receive
<1>12. ASSUME NEW w \in Workers, AcquireLock(w) PROVE VersionDetectsChange'
  <2>1. CASE Finish(w)
    BY <1>12, <1>f, <2>1 DEF AcquireLock
  <2>2. CASE WorkerGoto(w, "sender")
    <3>1. [worker[w] EXCEPT !.pc = "sender"].pc \notin {"receiver", "settle"}
      BY <1>p DEF WorkerState
    <3>2. worker' = [worker EXCEPT ![w] = [worker[w] EXCEPT !.pc = "sender"]]
      BY <2>2 DEF WorkerGoto
    <3> QED BY <1>12, <1>w, <3>1, <3>2 DEF AcquireLock
  <2> QED BY <1>12, <2>1, <2>2 DEF AcquireLock
<1>13. ASSUME NEW w \in Workers, AcquireLockFails(w) PROVE VersionDetectsChange'
  BY <1>13, <1>f DEF AcquireLockFails
<1>14. ASSUME NEW w \in Workers, ReadSender(w) PROVE VersionDetectsChange'
  <2>1. CASE Finish(w)
    BY <1>14, <1>f, <2>1 DEF ReadSender
  <2>2. ASSUME NEW sender \in Readable(terms[worker[w].tx].from), sender.exists,
               worker' = [worker EXCEPT ![w].pc = "receiver", ![w].sender = sender]
        PROVE  VersionDetectsChange'
    <3>1. Snapshot(sender, wallets[terms[worker[w].tx].from])
      <4>1. worker[w].tx \in TxIds
        BY <1>14 DEF ReadSender, TypeOK
      <4> QED BY <1>u, <2>2, <4>1, SnapshotRead
    <3>2. /\ worker'[w].sender = sender /\ worker'[w].tx = worker[w].tx
          /\ worker'[w].pc = "receiver"
          /\ \A y \in Workers \ {w} : worker'[y] = worker[y]
      BY <1>p, <2>2 DEF WorkerState
    <3>3. UNCHANGED <<wallets, terms, sched, cancel>>
      BY <1>14 DEF ReadSender, tables
    <3>4. WorkerSnapshots(w)'
      BY <3>1, <3>2, <3>3 DEF WorkerSnapshots
    <3> QED BY <1>p, <3>2, <3>3, <3>4, VersionKept
  <2> QED BY <1>14, <2>1, <2>2 DEF ReadSender
<1>15. ASSUME NEW w \in Workers, ReadReceiver(w) PROVE VersionDetectsChange'
  <2>1. CASE Finish(w)
    BY <1>15, <1>f, <2>1 DEF ReadReceiver
  <2>2. ASSUME NEW receiver \in Readable(terms[worker[w].tx].to), receiver.exists,
               worker' = [worker EXCEPT ![w].pc = "settle", ![w].receiver = receiver]
        PROVE  VersionDetectsChange'
    <3>1. Snapshot(receiver, wallets[terms[worker[w].tx].to])
      <4>1. worker[w].tx \in TxIds
        BY <1>15 DEF ReadReceiver, TypeOK
      <4> QED BY <1>u, <2>2, <4>1, SnapshotRead
    <3>2. /\ worker'[w].receiver = receiver /\ worker'[w].tx = worker[w].tx
          /\ worker'[w].sender = worker[w].sender
          /\ \A y \in Workers \ {w} : worker'[y] = worker[y]
      BY <1>p, <2>2 DEF WorkerState
    <3>3. UNCHANGED <<wallets, terms, sched, cancel>>
      BY <1>15 DEF ReadReceiver, tables
    <3>4. Snapshot(worker[w].sender, wallets[terms[worker[w].tx].from])
      BY <1>15 DEF ReadReceiver, VersionDetectsChange
    <3>5. WorkerSnapshots(w)'
      BY <3>1, <3>2, <3>3, <3>4 DEF WorkerSnapshots
    <3> QED BY <1>p, <3>2, <3>3, <3>5, VersionKept
  <2> QED BY <1>15, <2>1, <2>2 DEF ReadReceiver
<1>16. ASSUME NEW w \in Workers, Settle(w) PROVE VersionDetectsChange'
  <2>1. [IdleWorker EXCEPT !.pc = "notify", !.tx = worker[w].tx].pc \notin {"receiver", "settle"}
    BY DEF IdleWorker
  <2> QED BY <1>16, <1>f, <1>w, <2>1 DEF Settle
<1>17. ASSUME NEW w \in Workers, SettleFails(w) PROVE VersionDetectsChange'
  BY <1>17, <1>f DEF SettleFails
<1>18. ASSUME NEW w \in Workers, Notify(w) PROVE VersionDetectsChange'
  BY <1>18, <1>f DEF Notify
<1>19. ASSUME NEW w \in Workers, WorkerCrash(w) PROVE VersionDetectsChange'
  BY <1>19, <1>f DEF WorkerCrash
<1>20. ASSUME NEW t \in TxIds, DuplicateMessage(t) PROVE VersionDetectsChange'
  BY <1>20, <1>0 DEF DuplicateMessage
<1>21. CASE Reconcile
  BY <1>21, <1>0 DEF Reconcile, ReconQuery, ReconCrash, ReconSend, ReconSendFails
<1>22. ASSUME NEW t \in TxIds, GrowOld(t) PROVE VersionDetectsChange'
  BY <1>22, <1>0 DEF GrowOld, processes
<1>23. ASSUME NEW t \in TxIds, Expire(t) PROVE VersionDetectsChange'
  BY <1>23, <1>0 DEF Expire, processes
<1>24. CASE UNCHANGED vars
  BY <1>24, <1>0 DEF vars
<1>25. ASSUME NEW r \in Copies, NEW u \in Users, Replicate(r, u) PROVE VersionDetectsChange'
  BY <1>25, <1>0 DEF Replicate
<1> QED
  BY <1>1, <1>2, <1>3, <1>4, <1>5, <1>6, <1>7, <1>8, <1>9, <1>10, <1>11, <1>12, <1>13,
     <1>14, <1>15, <1>16, <1>17, <1>18, <1>19, <1>20, <1>21, <1>22, <1>23, <1>24, <1>25, NextCases

\* The version conditions of pkg/storage/dynamodb detect every change made to a wallet
\* between the read and the write, and a read that was behind already, unless another
\* wallet took its place.
THEOREM VersionWorks == Spec => []VersionDetectsChange
<1>1. Init => VersionDetectsChange
  BY DEF Init, IdleWorker, VersionDetectsChange
<1>2. Init => CopiesLag
  <2> SUFFICES ASSUME Init, NEW r \in Copies, NEW u \in Users, copies[r][u].exists
               PROVE  Snapshot(copies[r][u], wallets[u])
    BY DEF CopiesLag
  <2>1. copies[r][u] = wallets[u] /\ wallets[u] \in Wallet
    BY TablesTypeInit DEF Init, TablesTypeOK
  <2> QED BY <2>1, SnapshotTaken
<1> QED BY <1>1, <1>2, VersionStep, CopiesStep, TypeCorrect, PTL DEF Spec

-----------------------------------------------------------------------------
(* The replies *)

\* RepliesStayTrue is not inductive: a request that has not written yet must not find
\* its transaction created, which no other process can do.
SchedReply(t) ==
    /\ sched[t].pc \in {"read", "write", "insufficient"} => transactions[t].status = "NONE"
    /\ sched[t].pc \in {"send", "created"} => transactions[t].status # "NONE"
CancelReply(c) ==
    /\ cancel[c].pc = "cancelled" => transactions[cancel[c].tx].status = "CANCELLED"
    /\ cancel[c].pc = "conflict" =>
        transactions[cancel[c].tx].status \in {"WORKING", "COMPLETED", "CANCELLED"}
RepliesInv == (\A t \in TxIds : SchedReply(t)) /\ (\A c \in Cancellers : CancelReply(c))

\* Every write but the one of CreateTransaction is to an item that exists.
LEMMA UnusedKept ==
    ASSUME TablesTypeOK, NEW t \in TxIds, NEW v, NEW x, NEW s \in TxIds,
           \/ LockTransaction(t) \/ SettleTransfer(t, v, x) \/ ReleaseFunds(t, v)
           \/ Age(t) \/ ExpireTransaction(t),
           transactions[s].status = "NONE"
    PROVE  transactions'[s].status = "NONE"
<1>0. transactions \in [TxIds -> Transaction]
  BY DEF TablesTypeOK
<1>1. CASE LockTransaction(t)
  BY <1>0, <1>1 DEF LockTransaction, CanLock, Transaction
<1>2. CASE SettleTransfer(t, v, x)
  BY <1>0, <1>2 DEF SettleTransfer, CanSettle, Transaction
<1>3. CASE ReleaseFunds(t, v)
  BY <1>0, <1>3 DEF ReleaseFunds, CanRelease, Transaction
<1>4. CASE Age(t)
  BY <1>0, <1>4 DEF Age, Transaction
<1>5. CASE ExpireTransaction(t)
  BY <1>0, <1>5 DEF ExpireTransaction, Transaction
<1> QED BY <1>1, <1>2, <1>3, <1>4, <1>5

\* Replies stay true as statuses never go back; new replies are to be shown true.
LEMMA RepliesKept ==
    ASSUME TypeOK, RepliesInv, [TablesNext]_tables,
           \A t \in TxIds :
               \/ SchedReply(t)'
               \/ /\ sched'[t] = sched[t]
                  /\ transactions[t].status = "NONE" => transactions'[t].status = "NONE",
           \A c \in Cancellers : cancel'[c] = cancel[c] \/ CancelReply(c)'
    PROVE  RepliesInv'
<1>1. \A t \in TxIds : StatusMoves(t)
  BY PartsFromType, StatusEvolves
<1>2. ASSUME NEW t \in TxIds PROVE SchedReply(t)'
  <2>1. CASE sched'[t] = sched[t]
             /\ (transactions[t].status = "NONE" => transactions'[t].status = "NONE")
    BY <1>1, <2>1 DEF RepliesInv, SchedReply, StatusMoves
  <2> QED BY <2>1
<1>3. ASSUME NEW c \in Cancellers PROVE CancelReply(c)'
  <2>1. CASE cancel'[c] = cancel[c] /\ cancel[c].pc \in {"cancelled", "conflict"}
    <3>1. cancel[c].tx \in TxIds
      BY <2>1, PartsFromType
    <3>2. StatusMoves(cancel[c].tx) /\ CancelReply(c)
      BY <1>1, <3>1 DEF RepliesInv
    <3> QED BY <2>1, <3>2 DEF CancelReply, StatusMoves
  <2>2. CASE cancel'[c] = cancel[c] /\ cancel[c].pc \notin {"cancelled", "conflict"}
    BY <2>2 DEF CancelReply
  <2> QED BY <2>1, <2>2
<1> QED BY <1>2, <1>3 DEF RepliesInv

\* Only the request itself creates its transaction, and no reply is undone.
LEMMA RepliesStep == TypeOK /\ RepliesInv /\ [Next]_vars => RepliesInv'
<1> SUFFICES ASSUME TypeOK, RepliesInv, [Next]_vars PROVE RepliesInv'
  OBVIOUS
<1>p. /\ TablesTypeOK /\ [TablesNext]_tables
      /\ sched \in [TxIds -> SchedState]
      /\ cancel \in [Cancellers -> CancelState]
      /\ transactions \in [TxIds -> Transaction]
  BY TablesStep, PartsFromType DEF TablesTypeOK
<1>0. ASSUME UNCHANGED <<sched, cancel, transactions>> PROVE RepliesInv'
  BY <1>0, <1>p, RepliesKept
<1>k. ASSUME UNCHANGED <<sched, cancel>>, NEW t \in TxIds, NEW v, NEW x,
             \/ LockTransaction(t) \/ SettleTransfer(t, v, x) \/ Age(t) \/ ExpireTransaction(t)
      PROVE  RepliesInv'
  <2>1. \A s \in TxIds : transactions[s].status = "NONE" => transactions'[s].status = "NONE"
    BY <1>k, <1>p, UnusedKept
  <2> QED BY <1>k, <1>p, <2>1, RepliesKept
<1>s. ASSUME NEW t \in TxIds, UNCHANGED <<cancel, transactions>>, NEW s,
             sched' = [sched EXCEPT ![t] = s],
             s.pc = "insufficient" => sched[t].pc \in {"read", "write"},
             s.pc = "write" => sched[t].pc = "read",
             s.pc = "created" => sched[t].pc = "send",
             s.pc \notin {"read", "send"}
      PROVE  RepliesInv'
  <2>1. sched'[t] = s /\ \A y \in TxIds \ {t} : sched'[y] = sched[y]
    BY <1>s, <1>p
  <2>2. SchedReply(t)'
    BY <1>s, <2>1 DEF RepliesInv, SchedReply
  <2> QED BY <1>s, <1>p, <2>1, <2>2, RepliesKept
<1>c. ASSUME NEW c \in Cancellers, UNCHANGED <<sched, transactions>>, NEW s,
             cancel' = [cancel EXCEPT ![c] = s], s.pc \notin {"cancelled", "conflict"}
      PROVE  RepliesInv'
  <2>1. cancel'[c] = s /\ \A y \in Cancellers \ {c} : cancel'[y] = cancel[y]
    BY <1>c, <1>p
  <2>2. CancelReply(c)'
    BY <1>c, <2>1 DEF CancelReply
  <2> QED BY <1>c, <1>p, <2>1, <2>2, RepliesKept
<1>1. ASSUME NEW u \in Users, CreateWallet(u) PROVE RepliesInv'
  BY <1>0, <1>1 DEF CreateWallet, PutWallet, processes
<1>2. ASSUME NEW u \in Users, DeleteWallet(u) PROVE RepliesInv'
  BY <1>0, <1>2 DEF DeleteWallet, RemoveWallet, processes
<1>3. ASSUME NEW t \in TxIds, ScheduleRead(t) PROVE RepliesInv'
  BY <1>s, <1>3 DEF ScheduleRead, SchedGoto, tables
<1>4. ASSUME NEW t \in TxIds, ScheduleWrite(t) PROVE RepliesInv'
  <2>1. CASE SchedGoto(t, "insufficient") /\ UNCHANGED tables
    BY <1>s, <1>4, <2>1 DEF ScheduleWrite, SchedGoto, tables
  <2>2. CASE ReserveFunds(t, sched[t].saw.version) /\ SchedGoto(t, "send")
    <3>1. /\ sched'[t].pc = "send" /\ transactions'[t].status = "RESERVED"
          /\ \A y \in TxIds \ {t} :
                sched'[y] = sched[y] /\ transactions'[y] = transactions[y]
      BY <1>p, <2>2 DEF SchedGoto, ReserveFunds
    <3>2. SchedReply(t)'
      BY <3>1 DEF SchedReply
    <3> QED BY <1>4, <1>p, <3>1, <3>2, RepliesKept DEF ScheduleWrite
  <2> QED BY <1>4, <2>1, <2>2 DEF ScheduleWrite
<1>5. ASSUME NEW t \in TxIds, ScheduleSend(t) PROVE RepliesInv'
  BY <1>s, <1>5 DEF ScheduleSend, SchedGoto, tables
<1>6. ASSUME NEW t \in TxIds, ScheduleFails(t) PROVE RepliesInv'
  BY <1>s, <1>6 DEF ScheduleFails, SchedGoto, tables
<1>7. ASSUME NEW c \in Cancellers, NEW t \in TxIds, CancelRead(c, t) PROVE RepliesInv'
  <2>1. /\ cancel'[c].pc = "conflict" => transactions[t].status \notin {"NONE", "RESERVED"}
        /\ cancel'[c].pc # "cancelled" /\ cancel'[c].tx = t
        /\ \A y \in Cancellers \ {c} : cancel'[y] = cancel[y]
    BY <1>7, <1>p DEF CancelRead
  <2>2. transactions'[t] = transactions[t] /\ transactions[t] \in Transaction
    BY <1>7, <1>p DEF CancelRead, tables
  <2>3. CancelReply(c)'
    BY <2>1, <2>2 DEF CancelReply, Transaction
  <2> QED BY <1>7, <1>p, <2>1, <2>3, RepliesKept DEF CancelRead, tables
<1>8. ASSUME NEW c \in Cancellers, CancelReadWallet(c) PROVE RepliesInv'
  BY <1>c, <1>8 DEF CancelReadWallet, CancelGoto, tables
<1>9. ASSUME NEW c \in Cancellers, CancelWrite(c) PROVE RepliesInv'
  <2> DEFINE t == cancel[c].tx
             v == cancel[c].saw.version
  <2>1. CASE CancelGoto(c, "failed") /\ UNCHANGED tables
    BY <1>c, <1>9, <2>1 DEF CancelWrite, CancelGoto, tables
  <2>2. CASE ReleaseFunds(t, v) /\ (CancelGoto(c, "cancelled") \/ CancelGoto(c, "failed"))
    <3>1. t \in TxIds
      BY <1>9, PartsFromType DEF CancelWrite
    <3>2. transactions'[t].status = "CANCELLED"
      BY <1>p, <2>2, <3>1 DEF ReleaseFunds, Transaction
    <3>3. /\ cancel'[c].pc \in {"cancelled", "failed"} /\ cancel'[c].tx = t
          /\ \A y \in Cancellers \ {c} : cancel'[y] = cancel[y]
      BY <1>p, <2>2 DEF CancelGoto
    <3>4. CancelReply(c)'
      BY <3>2, <3>3 DEF CancelReply
    <3>5. \A s \in TxIds : transactions[s].status = "NONE" => transactions'[s].status = "NONE"
      BY <1>p, <2>2, <3>1, UnusedKept
    <3> QED BY <1>9, <1>p, <3>3, <3>4, <3>5, RepliesKept DEF CancelWrite
  <2> QED BY <1>9, <2>1, <2>2 DEF CancelWrite
<1>10. ASSUME NEW c \in Cancellers, CancelFails(c) PROVE RepliesInv'
  BY <1>c, <1>10 DEF CancelFails, CancelGoto, tables
<1>11. ASSUME NEW w \in Workers, NEW t \in TxIds, Receive(w, t) PROVE RepliesInv'
  BY <1>0, <1>11 DEF Receive, tables
<1>e. ASSUME NEW w \in Workers, worker[w].pc # "idle" PROVE worker[w].tx \in TxIds
  BY <1>e, PartsFromType
<1>12. ASSUME NEW w \in Workers, AcquireLock(w) PROVE RepliesInv'
  BY <1>0, <1>k, <1>e, <1>12 DEF AcquireLock, tables
<1>13. ASSUME NEW w \in Workers, AcquireLockFails(w) PROVE RepliesInv'
  BY <1>0, <1>k, <1>e, <1>13 DEF AcquireLockFails, tables
<1>14. ASSUME NEW w \in Workers, ReadSender(w) PROVE RepliesInv'
  BY <1>0, <1>14 DEF ReadSender, tables
<1>15. ASSUME NEW w \in Workers, ReadReceiver(w) PROVE RepliesInv'
  BY <1>0, <1>15 DEF ReadReceiver, tables
<1>16. ASSUME NEW w \in Workers, Settle(w) PROVE RepliesInv'
  BY <1>0, <1>k, <1>e, <1>16 DEF Settle, tables
<1>17. ASSUME NEW w \in Workers, SettleFails(w) PROVE RepliesInv'
  BY <1>0, <1>k, <1>e, <1>17 DEF SettleFails, tables
<1>18. ASSUME NEW w \in Workers, Notify(w) PROVE RepliesInv'
  BY <1>0, <1>18 DEF Notify, tables
<1>19. ASSUME NEW w \in Workers, WorkerCrash(w) PROVE RepliesInv'
  BY <1>0, <1>19 DEF WorkerCrash, tables
<1>20. ASSUME NEW t \in TxIds, DuplicateMessage(t) PROVE RepliesInv'
  BY <1>0, <1>20 DEF DuplicateMessage, tables
<1>21. CASE Reconcile
  BY <1>0, <1>21 DEF Reconcile, ReconQuery, ReconCrash, ReconSend, ReconSendFails, tables
<1>22. ASSUME NEW t \in TxIds, GrowOld(t) PROVE RepliesInv'
  BY <1>k, <1>22 DEF GrowOld, processes
<1>23. ASSUME NEW t \in TxIds, Expire(t) PROVE RepliesInv'
  BY <1>k, <1>23 DEF Expire, processes
<1>24. CASE UNCHANGED vars
  BY <1>0, <1>24 DEF vars
<1>25. ASSUME NEW r \in Copies, NEW u \in Users, Replicate(r, u) PROVE RepliesInv'
  BY <1>0, <1>25 DEF Replicate, tables
<1> QED
  BY <1>1, <1>2, <1>3, <1>4, <1>5, <1>6, <1>7, <1>8, <1>9, <1>10, <1>11, <1>12, <1>13,
     <1>14, <1>15, <1>16, <1>17, <1>18, <1>19, <1>20, <1>21, <1>22, <1>23, <1>24, <1>25, NextCases

\* What a client is told by POST /transactions and DELETE /transactions/{id} is not
\* undone by any other request, invocation, duplicate or crash, nor by expiry.
THEOREM RepliesHold == Spec => []RepliesStayTrue
<1>1. Init => RepliesInv
  BY DEF Init, TablesInit, NoTransaction, RepliesInv, SchedReply, CancelReply
<1>2. RepliesInv => RepliesStayTrue
  BY DEF RepliesInv, SchedReply, CancelReply, RepliesStayTrue
<1> QED BY <1>1, <1>2, RepliesStep, TypeCorrect, PTL DEF Spec

-----------------------------------------------------------------------------
(* Stranded transactions *)

\* Only executeSettlement takes a transaction out of WORKING.
LEMMA WorkingKept ==
    ASSUME TablesTypeOK, NEW t \in TxIds, transactions[t].status = "WORKING",
           NEW s \in TxIds, NEW v, NEW x,
           \/ ReserveFunds(s, v) \/ LockTransaction(s) \/ ReleaseFunds(s, v)
           \/ Age(s) \/ ExpireTransaction(s) \/ (SettleTransfer(s, v, x) /\ s # t)
    PROVE  transactions'[t].status = "WORKING"
<1>0. transactions \in [TxIds -> Transaction]
  BY DEF TablesTypeOK
<1>1. CASE ReserveFunds(s, v)
  BY <1>0, <1>1 DEF ReserveFunds
<1>2. CASE LockTransaction(s)
  BY <1>0, <1>2 DEF LockTransaction, CanLock, Transaction
<1>3. CASE ReleaseFunds(s, v)
  BY <1>0, <1>3 DEF ReleaseFunds, CanRelease, Transaction
<1>4. CASE Age(s)
  BY <1>0, <1>4 DEF Age, Transaction
<1>5. CASE ExpireTransaction(s)
  BY <1>0, <1>5 DEF ExpireTransaction, Transaction
<1>6. CASE SettleTransfer(s, v, x) /\ s # t
  BY <1>0, <1>6 DEF SettleTransfer
<1> QED BY <1>1, <1>2, <1>3, <1>4, <1>5, <1>6

\* To settle a stranded transaction an invocation must take its lock, for which the
\* transaction would have to be RESERVED.
LEMMA StrandedStep ==
    ASSUME TypeOK, [Next]_vars, NEW t \in TxIds, Stranded(t)
    PROVE  Stranded(t)'
<1>p. /\ TablesTypeOK
      /\ worker \in [Workers -> WorkerState]
      /\ \A w \in Workers : worker[w].pc # "idle" => worker[w].tx \in TxIds
      /\ \A c \in Cancellers : cancel[c].pc # "idle" => cancel[c].tx \in TxIds
      /\ transactions[t].status = "WORKING"
      /\ \A w \in Workers : worker[w].pc \in Locked => worker[w].tx # t
  BY PartsFromType DEF Stranded
<1>0. ASSUME UNCHANGED worker, transactions'[t].status = "WORKING" PROVE Stranded(t)'
  BY <1>0, <1>p DEF Stranded
<1>k. ASSUME UNCHANGED <<worker, transactions>> PROVE Stranded(t)'
  BY <1>0, <1>k, <1>p
<1>w. ASSUME NEW w \in Workers, NEW s, worker' = [worker EXCEPT ![w] = s],
             s.pc \in Locked => s.tx # t, transactions'[t].status = "WORKING"
      PROVE  Stranded(t)'
  BY <1>w, <1>p DEF Stranded
<1>f. ASSUME NEW w \in Workers, Finish(w), transactions'[t].status = "WORKING"
      PROVE  Stranded(t)'
  <2>1. IdleWorker.pc \notin Locked
    BY DEF IdleWorker, Locked
  <2> QED BY <1>f, <1>w, <2>1 DEF Finish
<1>g. ASSUME NEW w \in Workers, NEW s, worker' = [worker EXCEPT ![w] = s],
             worker[w].pc \in Locked, s.tx = worker[w].tx, UNCHANGED transactions
      PROVE  Stranded(t)'
  BY <1>g, <1>p, <1>w
<1>1. ASSUME NEW u \in Users, CreateWallet(u) PROVE Stranded(t)'
  BY <1>k, <1>1 DEF CreateWallet, PutWallet, processes
<1>2. ASSUME NEW u \in Users, DeleteWallet(u) PROVE Stranded(t)'
  BY <1>k, <1>2 DEF DeleteWallet, RemoveWallet, processes
<1>3. ASSUME NEW s \in TxIds, ScheduleRead(s) PROVE Stranded(t)'
  BY <1>k, <1>3 DEF ScheduleRead, tables
<1>4. ASSUME NEW s \in TxIds, ScheduleWrite(s) PROVE Stranded(t)'
  <2>1. CASE ReserveFunds(s, sched[s].saw.version)
    BY <1>0, <1>4, <1>p, <2>1, WorkingKept DEF ScheduleWrite
  <2> QED BY <1>k, <1>4, <2>1 DEF ScheduleWrite, tables
<1>5. ASSUME NEW s \in TxIds, ScheduleSend(s) PROVE Stranded(t)'
  BY <1>k, <1>5 DEF ScheduleSend, tables
<1>6. ASSUME NEW s \in TxIds, ScheduleFails(s) PROVE Stranded(t)'
  BY <1>k, <1>6 DEF ScheduleFails, tables
<1>7. ASSUME NEW c \in Cancellers, NEW s \in TxIds, CancelRead(c, s) PROVE Stranded(t)'
  BY <1>k, <1>7 DEF CancelRead, tables
<1>8. ASSUME NEW c \in Cancellers, CancelReadWallet(c) PROVE Stranded(t)'
  BY <1>k, <1>8 DEF CancelReadWallet, tables
<1>9. ASSUME NEW c \in Cancellers, CancelWrite(c) PROVE Stranded(t)'
  <2>1. cancel[c].tx \in TxIds
    BY <1>9, <1>p DEF CancelWrite
  <2>2. CASE ReleaseFunds(cancel[c].tx, cancel[c].saw.version)
    BY <1>0, <1>9, <1>p, <2>1, <2>2, WorkingKept DEF CancelWrite
  <2> QED BY <1>k, <1>9, <2>2 DEF CancelWrite, tables
<1>10. ASSUME NEW c \in Cancellers, CancelFails(c) PROVE Stranded(t)'
  BY <1>k, <1>10 DEF CancelFails, tables
<1>11. ASSUME NEW w \in Workers, NEW s \in TxIds, Receive(w, s) PROVE Stranded(t)'
  <2>1. [IdleWorker EXCEPT !.pc = "lock", !.tx = s].pc \notin Locked
    BY DEF IdleWorker, Locked
  <2> QED BY <1>w, <1>p, <1>11, <2>1 DEF Receive, tables
<1>12. ASSUME NEW w \in Workers, AcquireLock(w) PROVE Stranded(t)'
  <2>1. worker[w].tx \in TxIds
    BY <1>12, <1>p DEF AcquireLock
  <2>2. CASE LockTransaction(worker[w].tx) /\ WorkerGoto(w, "sender")
    <3>1. worker[w].tx # t
      BY <1>p, <2>2 DEF LockTransaction, CanLock
    <3>2. transactions'[t].status = "WORKING"
      BY <1>p, <2>1, <2>2, WorkingKept
    <3>3. [worker[w] EXCEPT !.pc = "sender"].tx # t
      BY <1>p, <3>1 DEF WorkerState
    <3>4. worker' = [worker EXCEPT ![w] = [worker[w] EXCEPT !.pc = "sender"]]
      BY <2>2 DEF WorkerGoto
    <3> QED BY <1>w, <3>2, <3>3, <3>4
  <2>3. CASE Finish(w) /\ UNCHANGED tables
    BY <1>f, <1>p, <2>3 DEF tables
  <2> QED BY <1>12, <2>2, <2>3 DEF AcquireLock
<1>13. ASSUME NEW w \in Workers, AcquireLockFails(w) PROVE Stranded(t)'
  <2>1. worker[w].tx \in TxIds
    BY <1>13, <1>p DEF AcquireLockFails
  <2>2. transactions'[t].status = "WORKING"
    BY <1>13, <1>p, <2>1, WorkingKept DEF AcquireLockFails, tables
  <2> QED BY <1>f, <1>13, <2>2 DEF AcquireLockFails
<1>14. ASSUME NEW w \in Workers, ReadSender(w) PROVE Stranded(t)'
  <2>1. CASE Finish(w)
    BY <1>f, <1>14, <1>p, <2>1 DEF ReadSender, tables
  <2>2. ASSUME NEW sender,
               worker' = [worker EXCEPT ![w].pc = "receiver", ![w].sender = sender]
        PROVE  Stranded(t)'
    <3> DEFINE s == [worker[w] EXCEPT !.pc = "receiver", !.sender = sender]
    <3>1. worker' = [worker EXCEPT ![w] = s]
      BY <1>p, <2>2
    <3>2. s.tx = worker[w].tx
      BY <1>p DEF WorkerState
    <3>3. worker[w].pc \in Locked /\ UNCHANGED transactions
      BY <1>14 DEF ReadSender, Locked, tables
    <3> QED BY <1>g, <3>1, <3>2, <3>3
  <2> QED BY <1>14, <2>1, <2>2 DEF ReadSender
<1>15. ASSUME NEW w \in Workers, ReadReceiver(w) PROVE Stranded(t)'
  <2>1. CASE Finish(w)
    BY <1>f, <1>15, <1>p, <2>1 DEF ReadReceiver, tables
  <2>2. ASSUME NEW receiver,
               worker' = [worker EXCEPT ![w].pc = "settle", ![w].receiver = receiver]
        PROVE  Stranded(t)'
    <3> DEFINE s == [worker[w] EXCEPT !.pc = "settle", !.receiver = receiver]
    <3>1. worker' = [worker EXCEPT ![w] = s]
      BY <1>p, <2>2
    <3>2. s.tx = worker[w].tx
      BY <1>p DEF WorkerState
    <3>3. worker[w].pc \in Locked /\ UNCHANGED transactions
      BY <1>15 DEF ReadReceiver, Locked, tables
    <3> QED BY <1>g, <3>1, <3>2, <3>3
  <2> QED BY <1>15, <2>1, <2>2 DEF ReadReceiver
<1>16. ASSUME NEW w \in Workers, Settle(w) PROVE Stranded(t)'
  <2>1. worker[w].tx \in TxIds /\ worker[w].tx # t
    BY <1>16, <1>p DEF Settle, Locked
  <2>2. transactions'[t].status = "WORKING"
    BY <1>16, <1>p, <2>1, WorkingKept DEF Settle, tables
  <2>3. CASE worker' = [worker EXCEPT ![w] = [IdleWorker EXCEPT !.pc = "notify",
                                                                !.tx = worker[w].tx]]
    <3>1. [IdleWorker EXCEPT !.pc = "notify", !.tx = worker[w].tx].pc \notin Locked
      BY DEF IdleWorker, Locked
    <3> QED BY <1>w, <2>2, <2>3, <3>1
  <2> QED BY <1>f, <1>16, <2>2, <2>3 DEF Settle
<1>17. ASSUME NEW w \in Workers, SettleFails(w) PROVE Stranded(t)'
  <2>1. worker[w].tx \in TxIds /\ worker[w].tx # t
    BY <1>17, <1>p DEF SettleFails, Locked
  <2>2. transactions'[t].status = "WORKING"
    BY <1>17, <1>p, <2>1, WorkingKept DEF SettleFails, tables
  <2> QED BY <1>f, <1>17, <2>2 DEF SettleFails
<1>18. ASSUME NEW w \in Workers, Notify(w) PROVE Stranded(t)'
  BY <1>f, <1>18, <1>p DEF Notify, tables
<1>19. ASSUME NEW w \in Workers, WorkerCrash(w) PROVE Stranded(t)'
  BY <1>f, <1>19, <1>p DEF WorkerCrash, tables
<1>20. ASSUME NEW s \in TxIds, DuplicateMessage(s) PROVE Stranded(t)'
  BY <1>k, <1>20 DEF DuplicateMessage, tables
<1>21. CASE Reconcile
  BY <1>k, <1>21 DEF Reconcile, ReconQuery, ReconCrash, ReconSend, ReconSendFails, tables
<1>22. ASSUME NEW s \in TxIds, GrowOld(s) PROVE Stranded(t)'
  BY <1>0, <1>22, <1>p, WorkingKept DEF GrowOld, processes
<1>23. ASSUME NEW s \in TxIds, Expire(s) PROVE Stranded(t)'
  BY <1>0, <1>23, <1>p, WorkingKept DEF Expire, processes
<1>24. CASE UNCHANGED vars
  BY <1>k, <1>24 DEF vars
<1>25. ASSUME NEW r \in Copies, NEW u \in Users, Replicate(r, u) PROVE Stranded(t)'
  BY <1>k, <1>25 DEF Replicate, tables
<1> QED
  BY <1>1, <1>2, <1>3, <1>4, <1>5, <1>6, <1>7, <1>8, <1>9, <1>10, <1>11, <1>12, <1>13,
     <1>14, <1>15, <1>16, <1>17, <1>18, <1>19, <1>20, <1>21, <1>22, <1>23, <1>24, <1>25, NextCases

\* A transaction that its invocation has left WORKING stays so for good, whatever is
\* redelivered, re-enqueued, cancelled or deleted afterwards.
THEOREM StrandingIsFinal == Spec => StrandedForGood
<1>1. TypeOK /\ [Next]_vars => \A t \in TxIds : Stranded(t) => Stranded(t)'
  BY StrandedStep
<1> QED BY <1>1, TypeCorrect, PTL DEF Spec, StrandedForGood
=============================================================================
