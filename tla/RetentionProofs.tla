-------------------------- MODULE RetentionProofs --------------------------
(***************************************************************************)
(* Theorems about Retention: a RESERVED transaction is taken up within a   *)
(* time that each fault prolongs by one period, hence before its item      *)
(* expires if the ttl leaves room for the faults; and not before its delay *)
(* is over.                                                                *)
(***************************************************************************)
EXTENDS Retention, TLAPS

-----------------------------------------------------------------------------
(* Types *)

\* A new message has the type of messages, and its fields.
LEMMA EnqueuedTyped ==
    ASSUME NEW t \in TxIds, NEW at \in Nat
    PROVE  /\ Enqueued(t, at) \in Message
           /\ Enqueued(t, at).tx = t /\ Enqueued(t, at).at = at
BY DEF Enqueued, Message

\* A fault is counted, and prolongs the time until the last run by a period.
LEMMA FaultCounted ==
    ASSUME TypeOK, Fault
    PROVE  faults' \in 0..MaxFaults /\ LastRun' = LastRun + Period
<1>1. faults \in Nat /\ faults' = faults + 1 /\ faults < MaxFaults /\ Period \in Nat
  BY TimesAssumption DEF Fault, TypeOK
<1>2. (faults + 1) * Period = faults * Period + Period
  BY <1>1
<1>3. faults * Period \in Nat
  BY <1>1
<1> QED BY <1>1, <1>2, <1>3, TimesAssumption DEF LastRun

\* The lock only changes the status of its transaction, from RESERVED to WORKING.
LEMMA TakeEffect ==
    ASSUME TypeOK, NEW t \in TxIds, Take(t)
    PROVE  /\ status' \in [TxIds -> {"NONE", "RESERVED", "WORKING", "CANCELLED", "EXPIRED"}]
           /\ status'[t] # "RESERVED"
           /\ \A u \in TxIds : status'[u] = "RESERVED" => status[u] = "RESERVED"
           /\ \A u \in TxIds :
                status'[u] # status[u] => u = t /\ status[u] = "RESERVED"
BY DEF TypeOK, Take

\* Every reachable state has the declared types.
LEMMA TypeStep == TypeOK /\ [Next]_vars => TypeOK'
<1> SUFFICES ASSUME TypeOK, [Next]_vars PROVE TypeOK'
  OBVIOUS
<1> USE TimesAssumption
<1>f. Fault => faults' \in 0..MaxFaults
  BY FaultCounted
<1>1. ASSUME NEW t \in TxIds, NEW d \in Delays, Schedule(t, d) PROVE TypeOK'
  <2>1. queue' \subseteq Message
    <3>1. CASE Sendable(d) /\ queue' = queue \union {Enqueued(t, d)}
      <4>1. d \in Nat
        BY <3>1 DEF Sendable
      <4> QED BY <3>1, <4>1, EnqueuedTyped DEF TypeOK
    <3> QED BY <1>1, <3>1 DEF Schedule, TypeOK
  <2> QED BY <1>1, <2>1 DEF Schedule, TypeOK
<1>2. ASSUME NEW t \in TxIds, Cancel(t) \/ Expire(t) PROVE TypeOK'
  BY <1>2 DEF Cancel, Expire, TypeOK
<1>3. ASSUME NEW x \in queue, Receive(x) PROVE TypeOK'
  <2>1. x.tx \in TxIds
    BY DEF TypeOK, Message
  <2> QED BY <1>3, <2>1, TakeEffect DEF Receive, TypeOK
<1>4. ASSUME NEW x \in queue, ReceiveFails(x) PROVE TypeOK'
  <2>1. x.tx \in TxIds /\ age[x.tx] + Visibility \in Nat
    BY DEF TypeOK, Message
  <2>2. Enqueued(x.tx, age[x.tx] + Visibility) \in Message
    BY <2>1, EnqueuedTyped
  <2>3. queue' \subseteq Message
    BY <1>4, <2>2 DEF ReceiveFails, TypeOK
  <2> QED BY <1>f, <1>4, <2>1, <2>3, TakeEffect DEF ReceiveFails, TypeOK
<1>5. CASE ReconQuery \/ ReconQueryFails
  BY <1>f, <1>5 DEF ReconQuery, ReconQueryFails, StartRun, Stuck, TypeOK
<1>6. ASSUME NEW t \in TxIds, ReconSend(t) PROVE TypeOK'
  <2>1. age[t] \in Nat
    BY DEF TypeOK
  <2> QED BY <1>6, <2>1, EnqueuedTyped DEF ReconSend, BatchAfter, TypeOK
<1>7. CASE ReconCrash \/ \E t \in TxIds : ReconSendFails(t)
  BY <1>f, <1>7 DEF ReconCrash, ReconSendFails, BatchAfter, TypeOK
<1>8. CASE Tick
  BY <1>8 DEF Tick, NothingDue, TypeOK
<1>9. CASE UNCHANGED vars
  BY <1>9 DEF vars, TypeOK
<1> QED BY <1>1, <1>2, <1>3, <1>4, <1>5, <1>6, <1>7, <1>8, <1>9 DEF Next, Request, Reconcile

\* Every reachable state has the declared types; in particular no item outlives its ttl,
\* and the reconciliation lambda has a run within every period.
THEOREM RetentionTypeCorrect == Spec => []TypeOK
<1>1. Init => TypeOK
  BY TimesAssumption DEF Init, TypeOK
<1> QED BY <1>1, TypeStep, PTL DEF Spec

-----------------------------------------------------------------------------
(* A RESERVED transaction is taken up in time *)

\* A message of t that was sent when the present period began, by a run that was not
\* later than the last.
Rescue(t, x) ==
    /\ x \in queue /\ x.tx = t
    /\ x.at <= LastRun /\ untilRun + age[t] = x.at + Period

\* What keeps t from being forgotten: a run that comes soon enough, the run under way, or
\* the message it has sent.
Watched(t) ==
    \/ untilRun + age[t] <= LastRun
    \/ t \in recon /\ untilRun = Period /\ age[t] <= LastRun
    \/ \E x \in queue : Rescue(t, x)

\* Every message is handed over within the time SQS takes; the age of a transaction counts
\* from its creation; no RESERVED transaction that has a receiver is forgotten.
WatchInv ==
    /\ \A x \in queue : age[x.tx] <= x.at + Delivery
    /\ \A t \in TxIds : status[t] = "NONE" => age[t] = 0
    /\ \A t \in TxIds \ Unaddressed : status[t] = "RESERVED" => Watched(t)

\* The time until the last run is a number, and one period at least.
LEMMA LastRunTyped ==
    ASSUME TypeOK
    PROVE  LastRun \in Nat /\ LastRun >= Threshold + Period
<1>1. faults * Period \in Nat
  BY TimesAssumption DEF TypeOK
<1> QED BY <1>1, TimesAssumption DEF LastRun

\* A fault may take away the run or the message on which t depends: another run comes,
\* a period later, which is then the last one.
LEMMA FaultEndured ==
    ASSUME TypeOK, WatchInv, Fault, NEW t \in TxIds \ Unaddressed, Watched(t),
           UNCHANGED <<age, untilRun>>
    PROVE  Watched(t)'
<1>1. LastRun' = LastRun + Period
  BY FaultCounted
<1>2. untilRun + age[t] <= LastRun + Period
  <2>1. /\ age[t] \in Nat /\ untilRun \in Nat /\ LastRun \in Nat /\ Period \in Nat
        /\ \A x \in queue : x.at \in Nat
    BY LastRunTyped, TimesAssumption DEF TypeOK, Message
  <2> QED BY <2>1 DEF Watched, Rescue
<1> QED BY <1>1, <1>2 DEF Watched

\* A step that leaves time, the run and the messages of t alone, and is no fault, leaves
\* t watched.
LEMMA StillWatched ==
    ASSUME NEW t \in TxIds, Watched(t), UNCHANGED <<untilRun, faults>>, age'[t] = age[t],
           t \in recon => t \in recon',
           \A x \in queue : x.tx = t => x \in queue'
    PROVE  Watched(t)'
BY DEF Watched, Rescue, LastRun

\* Every step keeps the invariant.
LEMMA WatchStep == TypeOK /\ WatchInv /\ [Next]_vars => WatchInv'
<1> SUFFICES ASSUME TypeOK, WatchInv, [Next]_vars PROVE WatchInv'
  OBVIOUS
<1> USE TimesAssumption
<1>0. /\ age \in [TxIds -> 0..Ttl] /\ untilRun \in 0..Period /\ LastRun \in Nat
      /\ \A x \in queue : x.tx \in TxIds /\ x.at \in Nat
  BY LastRunTyped DEF TypeOK, Message
<1>1. ASSUME NEW t \in TxIds, NEW d \in Delays, Schedule(t, d) PROVE WatchInv'
  <2>1. age[t] = 0 /\ age' = age /\ untilRun' = untilRun /\ LastRun' = LastRun
    BY <1>1 DEF Schedule, WatchInv, LastRun
  <2>2. \A x \in queue' : age[x.tx] <= x.at + Delivery
    <3>1. CASE Sendable(d) /\ queue' = queue \union {Enqueued(t, d)}
      <4>1. d \in Nat /\ Enqueued(t, d).tx = t /\ Enqueued(t, d).at = d
        BY <3>1, EnqueuedTyped DEF Sendable
      <4> QED BY <2>1, <3>1, <4>1 DEF WatchInv
    <3> QED BY <1>1, <3>1 DEF Schedule, WatchInv
  <2>3. Watched(t)'
    BY <1>0, <2>1, LastRunTyped DEF Watched
  <2>4. ASSUME NEW u \in TxIds \ Unaddressed, status'[u] = "RESERVED" PROVE Watched(u)'
    <3>1. CASE u # t
      <4>1. status[u] = "RESERVED"
        BY <1>1, <2>4, <3>1 DEF Schedule, TypeOK
      <4> QED BY <1>1, <4>1, StillWatched DEF Schedule, WatchInv
    <3> QED BY <2>3, <3>1
  <2> QED BY <1>1, <2>1, <2>2, <2>4 DEF Schedule, WatchInv, TypeOK
<1>2. ASSUME NEW t \in TxIds, Cancel(t) \/ Expire(t) PROVE WatchInv'
  <2>1. ASSUME NEW u \in TxIds \ Unaddressed, status'[u] = "RESERVED" PROVE Watched(u)'
    <3>1. status[u] = "RESERVED"
      BY <1>2, <2>1 DEF Cancel, Expire, TypeOK
    <3> QED BY <1>2, <3>1, StillWatched DEF Cancel, Expire, WatchInv
  <2> QED BY <1>2, <2>1 DEF Cancel, Expire, WatchInv, TypeOK
<1>3. ASSUME NEW x \in queue, Receive(x) PROVE WatchInv'
  <2>1. ASSUME NEW u \in TxIds \ Unaddressed, status'[u] = "RESERVED" PROVE Watched(u)'
    <3>1. status[u] = "RESERVED" /\ u # x.tx
      BY <1>0, <1>3, <2>1, TakeEffect DEF Receive
    <3> QED BY <1>3, <3>1, StillWatched DEF Receive, WatchInv
  <2>2. \A u \in TxIds : status'[u] = "NONE" => status[u] = "NONE"
    BY <1>0, <1>3, TakeEffect DEF Receive, Take, TypeOK
  <2> QED BY <1>3, <2>1, <2>2 DEF Receive, WatchInv
<1>4. ASSUME NEW x \in queue, ReceiveFails(x) PROVE WatchInv'
  <2>1. /\ \A u \in TxIds : status'[u] = "RESERVED" => status[u] = "RESERVED"
        /\ \A u \in TxIds : status'[u] = "NONE" => status[u] = "NONE"
    BY <1>0, <1>4, TakeEffect DEF ReceiveFails, Take, TypeOK
  <2>2. Fault /\ age' = age /\ untilRun' = untilRun
    BY <1>4 DEF ReceiveFails
  <2>3. \A y \in queue' : age[y.tx] <= y.at + Delivery
    <3>1. age[x.tx] \in Nat /\ age[x.tx] + Visibility \in Nat
      BY <1>0
    <3>2. LET y == Enqueued(x.tx, age[x.tx] + Visibility) IN
          y.tx = x.tx /\ y.at = age[x.tx] + Visibility
      BY <1>0, <3>1, EnqueuedTyped
    <3> QED BY <1>4, <3>1, <3>2 DEF ReceiveFails, WatchInv
  <2> QED BY <2>1, <2>2, <2>3, FaultEndured DEF WatchInv
<1>5. ASSUME StartRun, NEW t \in TxIds \ Unaddressed, status[t] = "RESERVED"
      PROVE  untilRun' = Period /\ age[t] <= LastRun
  <2>1. ASSUME NEW x \in queue, Rescue(t, x) PROVE FALSE
    BY <1>0, <1>5, <2>1 DEF StartRun, Rescue, WatchInv
  <2> QED BY <1>0, <1>5, <2>1 DEF StartRun, Watched, WatchInv
<1>6. CASE ReconQuery
  <2>1. ASSUME NEW u \in TxIds \ Unaddressed, status[u] = "RESERVED" PROVE Watched(u)'
    <3>1. /\ untilRun' = Period /\ age[u] <= LastRun /\ age' = age
          /\ recon' = Stuck /\ LastRun' = LastRun
      BY <1>5, <1>6, <2>1 DEF ReconQuery, LastRun
    <3>2. CASE age[u] > Threshold
      BY <2>1, <3>1, <3>2 DEF Watched, Stuck
    <3>3. CASE age[u] <= Threshold
      BY <1>0, <3>1, <3>3, LastRunTyped DEF Watched
    <3> QED BY <1>0, <3>2, <3>3
  <2> QED BY <1>6, <2>1 DEF ReconQuery, WatchInv
<1>7. CASE ReconQueryFails
  <2>1. ASSUME NEW u \in TxIds \ Unaddressed, status[u] = "RESERVED" PROVE Watched(u)'
    <3>1. untilRun' = Period /\ age[u] <= LastRun /\ age' = age /\ LastRun' = LastRun + Period
      BY <1>5, <1>7, <2>1, FaultCounted DEF ReconQueryFails
    <3> QED BY <1>0, <3>1 DEF Watched
  <2> QED BY <1>7, <2>1 DEF ReconQueryFails, WatchInv
<1>8. ASSUME NEW t \in TxIds, ReconSend(t) PROVE WatchInv'
  <2>1. age[t] \in Nat /\ Enqueued(t, age[t]).tx = t /\ Enqueued(t, age[t]).at = age[t]
    BY <1>0, EnqueuedTyped
  <2>2. ASSUME NEW u \in TxIds \ Unaddressed, status[u] = "RESERVED" PROVE Watched(u)'
    <3>1. CASE u = t /\ untilRun = Period /\ age[t] <= LastRun
      <4>1. Rescue(t, Enqueued(t, age[t]))'
        BY <1>0, <1>8, <2>1, <3>1 DEF ReconSend, Rescue, LastRun
      <4> QED BY <1>8, <3>1, <4>1 DEF ReconSend, Watched
    <3>2. CASE ~(u = t /\ untilRun = Period /\ age[t] <= LastRun)
      BY <1>8, <2>2, <3>2 DEF ReconSend, BatchAfter, WatchInv, Watched, Rescue, LastRun
    <3> QED BY <3>1, <3>2
  <2> QED BY <1>8, <2>1, <2>2 DEF ReconSend, WatchInv
<1>9. CASE ReconCrash \/ \E t \in TxIds : ReconSendFails(t)
  BY <1>9, FaultEndured DEF ReconCrash, ReconSendFails, WatchInv
<1>10. CASE Tick
  <2>1. ASSUME NEW t \in TxIds, status[t] = "RESERVED" PROVE age'[t] = age[t] + 1
    BY <1>0, <1>10, <2>1 DEF Tick, NothingDue
  <2>2. \A x \in queue : age'[x.tx] <= x.at + Delivery
    BY <1>0, <1>10 DEF Tick, NothingDue
  <2>3. ASSUME NEW u \in TxIds \ Unaddressed, status[u] = "RESERVED" PROVE Watched(u)'
    BY <1>0, <1>10, <2>1, <2>3 DEF Tick, NothingDue, WatchInv, Watched, Rescue, LastRun
  <2> QED BY <1>10, <2>2, <2>3 DEF Tick, WatchInv
<1>11. CASE UNCHANGED vars
  BY <1>11 DEF vars, WatchInv, Watched, Rescue, LastRun
<1> QED BY <1>1, <1>2, <1>3, <1>4, <1>6, <1>7, <1>8, <1>9, <1>10, <1>11
        DEF Next, Request, Reconcile

\* The invariant holds from the start, with the types.
LEMMA Watching == Spec => [](TypeOK /\ WatchInv)
<1>1. Init => TypeOK /\ WatchInv
  BY TimesAssumption DEF Init, TypeOK, WatchInv
<1>2. TypeOK /\ WatchInv /\ [Next]_vars => (TypeOK /\ WatchInv)'
  BY TypeStep, WatchStep
<1> QED BY <1>1, <1>2, PTL DEF Spec

\* What is watched is not late.
LEMMA WatchedInTime == TypeOK /\ WatchInv => TakenUpInTime
<1> SUFFICES ASSUME TypeOK, WatchInv,
                    NEW t \in TxIds \ Unaddressed, status[t] = "RESERVED"
             PROVE  age[t] <= LastRun + Delivery
  BY DEF TakenUpInTime
<1>1. /\ age[t] \in Nat /\ untilRun \in Nat /\ LastRun \in Nat /\ Delivery \in Nat
      /\ \A x \in queue : x.at \in Nat
  BY LastRunTyped, TimesAssumption DEF TypeOK, Message
<1>2. Watched(t)
  BY DEF WatchInv
<1> QED BY <1>1, <1>2 DEF Watched, Rescue, WatchInv

\* Whatever calls fail and whichever invocations die, a transaction with a receiver is
\* locked, or cancelled, within the threshold, one period, another one for each fault, and
\* the time SQS takes: for any number of transactions, any delays and any times.
THEOREM SelfHealingInTime == Spec => []TakenUpInTime
BY Watching, WatchedInTime, PTL

\* If the ttl leaves room for that many faults, no item with a receiver goes before it was
\* taken up or cancelled.  With the times of the code, in hours, that asks for 6 + 6 +
\* 6 * MaxFaults + Delivery < 24: one fault is survived, two may not be.
THEOREM NoneLostUntried ==
    ASSUME Threshold + Period + MaxFaults * Period + Delivery < Ttl
    PROVE  Spec => []TriedBeforeExpiry
<1>1. ASSUME TypeOK, WatchInv, NEW t \in TxIds \ Unaddressed, status[t] = "RESERVED"
      PROVE  age[t] < Ttl
  <2>1. age[t] <= LastRun + Delivery
    BY <1>1, WatchedInTime DEF TakenUpInTime
  <2>2. faults * Period <= MaxFaults * Period
    BY <1>1, TimesAssumption DEF TypeOK
  <2>3. age[t] \in Nat /\ faults * Period \in Nat /\ MaxFaults * Period \in Nat
    BY <1>1, TimesAssumption DEF TypeOK
  <2> QED BY <2>1, <2>2, <2>3, TimesAssumption DEF LastRun
<1>2. TypeOK /\ WatchInv /\ TriedBeforeExpiry /\ [Next]_vars => TriedBeforeExpiry'
  <2> SUFFICES ASSUME TypeOK, WatchInv, TriedBeforeExpiry, [Next]_vars,
                      NEW t \in TxIds \ Unaddressed
               PROVE  status'[t] # "EXPIRED"
    BY DEF TriedBeforeExpiry
  <2>1. status[t] # "EXPIRED"
    BY DEF TriedBeforeExpiry
  <2>2. ASSUME NEW u \in TxIds, Expire(u) PROVE status'[t] # "EXPIRED"
    BY <1>1, <2>1, <2>2 DEF Expire, TypeOK
  <2>3. ASSUME NEW x \in queue, Receive(x) \/ ReceiveFails(x) PROVE status'[t] # "EXPIRED"
    BY <2>1, <2>3 DEF Receive, ReceiveFails, Take, TypeOK
  <2>4. ASSUME NEW u \in TxIds, Request(u) PROVE status'[t] # "EXPIRED"
    BY <2>1, <2>4 DEF Request, Schedule, Cancel, TypeOK
  <2>5. CASE Reconcile \/ Tick \/ UNCHANGED vars
    BY <2>1, <2>5 DEF Reconcile, ReconQuery, ReconQueryFails, ReconCrash, ReconSend,
          ReconSendFails, Tick, vars
  <2> QED BY <2>2, <2>3, <2>4, <2>5 DEF Next
<1>3. Init => TriedBeforeExpiry
  BY DEF Init, TriedBeforeExpiry
<1> QED BY <1>2, <1>3, Watching, PTL DEF Spec

-----------------------------------------------------------------------------
(* No transaction is taken up before its delay is over *)

\* No message comes before the delay is over, unless reconciliation sent it for a delay
\* longer than its threshold; what reconciliation is about to send for is older than that.
DelayInv ==
    /\ \A x \in queue : delay[x.tx] <= Threshold => x.at >= delay[x.tx]
    /\ \A t \in recon : age[t] > Threshold
    /\ \A t \in TxIds : status[t] = "NONE" => t \notin recon /\ \A x \in queue : x.tx # t

\* Every step keeps the invariant.
LEMMA DelayStep == TypeOK /\ DelayInv /\ [Next]_vars => DelayInv'
<1> SUFFICES ASSUME TypeOK, DelayInv, [Next]_vars PROVE DelayInv'
  OBVIOUS
<1> USE TimesAssumption
<1>0. /\ age \in [TxIds -> 0..Ttl] /\ delay \in [TxIds -> Int] /\ recon \subseteq TxIds
      /\ \A x \in queue : x.tx \in TxIds /\ x.at \in Nat
  BY DEF TypeOK, Message
<1>1. ASSUME NEW t \in TxIds, NEW d \in Delays, Schedule(t, d) PROVE DelayInv'
  <2>1. delay' = [delay EXCEPT ![t] = d] /\ \A x \in queue : x.tx # t
    BY <1>1 DEF Schedule, DelayInv
  <2>2. CASE queue' = queue
    BY <1>0, <1>1, <2>1, <2>2 DEF Schedule, DelayInv, TypeOK
  <2>3. CASE Sendable(d) /\ queue' = queue \union {Enqueued(t, d)}
    <3>1. d \in Nat /\ Enqueued(t, d).tx = t /\ Enqueued(t, d).at = d
      BY <2>3, EnqueuedTyped DEF Sendable
    <3>2. \A x \in queue' : x.at >= delay'[x.tx] \/ (x \in queue /\ delay'[x.tx] = delay[x.tx])
      BY <1>0, <2>1, <2>3, <3>1
    <3>3. \A u \in TxIds : status'[u] = "NONE" => u # t /\ status[u] = "NONE"
      BY <1>1 DEF Schedule, TypeOK
    <3> QED BY <1>1, <2>3, <3>1, <3>2, <3>3 DEF Schedule, DelayInv
  <2> QED BY <1>1, <2>2, <2>3 DEF Schedule
<1>2. ASSUME NEW t \in TxIds, Cancel(t) \/ Expire(t) PROVE DelayInv'
  BY <1>2 DEF Cancel, Expire, DelayInv, TypeOK
<1>3. ASSUME NEW x \in queue, Receive(x) PROVE DelayInv'
  <2>1. \A u \in TxIds : status'[u] = "NONE" => status[u] = "NONE"
    BY <1>0, <1>3, TakeEffect DEF Receive, Take, TypeOK
  <2> QED BY <1>3, <2>1 DEF Receive, DelayInv
<1>4. ASSUME NEW x \in queue, ReceiveFails(x) PROVE DelayInv'
  <2>1. /\ \A u \in TxIds : status'[u] = "NONE" => status[u] = "NONE"
        /\ age' = age /\ delay' = delay /\ recon' = recon
    BY <1>0, <1>4, TakeEffect DEF ReceiveFails, Take, TypeOK
  <2>2. CASE queue' = queue \ {x}
    BY <2>1, <2>2 DEF DelayInv
  <2>3. CASE queue' = (queue \ {x}) \union {Enqueued(x.tx, age[x.tx] + Visibility)}
    <3>1. age[x.tx] \in Nat /\ age[x.tx] + Visibility \in Nat /\ age[x.tx] >= x.at
      BY <1>0, <1>4 DEF ReceiveFails
    <3>2. LET y == Enqueued(x.tx, age[x.tx] + Visibility) IN
          y.tx = x.tx /\ y.at >= x.at
      BY <1>0, <3>1, EnqueuedTyped
    <3>3. \A y \in queue' : y.tx \in TxIds /\ \E z \in queue : z.tx = y.tx /\ y.at >= z.at
                                          /\ y.at \in Int /\ z.at \in Int
      BY <1>0, <2>3, <3>1, <3>2, EnqueuedTyped
    <3>4. \A y \in queue' : delay[y.tx] <= Threshold => y.at >= delay[y.tx]
      BY <1>0, <3>3 DEF DelayInv
    <3> QED BY <2>1, <3>3, <3>4 DEF DelayInv
  <2> QED BY <1>4, <2>2, <2>3 DEF ReceiveFails
<1>5. CASE ReconQuery \/ ReconQueryFails
  BY <1>5 DEF ReconQuery, ReconQueryFails, StartRun, Stuck, DelayInv
<1>6. ASSUME NEW t \in TxIds, ReconSend(t) PROVE DelayInv'
  <2>1. age[t] \in Nat /\ Enqueued(t, age[t]).tx = t /\ Enqueued(t, age[t]).at = age[t]
    BY <1>0, EnqueuedTyped
  <2> QED BY <1>0, <1>6, <2>1 DEF ReconSend, BatchAfter, DelayInv
<1>7. CASE ReconCrash \/ \E t \in TxIds : ReconSendFails(t)
  BY <1>7 DEF ReconCrash, ReconSendFails, BatchAfter, DelayInv
<1>8. CASE Tick
  BY <1>0, <1>8 DEF Tick, NothingDue, DelayInv
<1>9. CASE UNCHANGED vars
  BY <1>9 DEF vars, DelayInv
<1> QED BY <1>1, <1>2, <1>3, <1>4, <1>5, <1>6, <1>7, <1>8, <1>9 DEF Next, Request, Reconcile

\* A step that takes up a transaction handles a message of it that is visible.
LEMMA TakenByMessage ==
    ASSUME TypeOK, [Next]_vars, NEW t \in TxIds,
           status[t] = "RESERVED", status'[t] = "WORKING"
    PROVE  \E x \in queue : x.tx = t /\ age[t] >= x.at
<1>1. ASSUME NEW x \in queue, Receive(x) \/ ReceiveFails(x)
      PROVE  x.tx = t /\ age[t] >= x.at
  <2>1. x.tx \in TxIds
    BY DEF TypeOK, Message
  <2> QED BY <1>1, <2>1, TakeEffect DEF Receive, ReceiveFails
<1>2. ASSUME NEW u \in TxIds, Request(u) \/ Expire(u) PROVE FALSE
  BY <1>2 DEF Request, Schedule, Cancel, Expire, TypeOK
<1>3. CASE Reconcile \/ Tick \/ UNCHANGED vars
  BY <1>3 DEF Reconcile, ReconQuery, ReconQueryFails, ReconCrash, ReconSend,
        ReconSendFails, Tick, vars
<1> QED BY <1>1, <1>2, <1>3 DEF Next

\* No sender's delay is cut short, by the scheduler, a redelivery or reconciliation, as long
\* as it is not longer than reconciliation's threshold, which the limit of SQS ensures for
\* every delay that is not refused.
THEOREM DelayKept == Spec => NotBeforeDelay
<1>1. Init => DelayInv
  BY DEF Init, DelayInv
<1>2. TypeOK /\ DelayInv /\ [Next]_vars =>
        \A t \in TxIds :
            (status[t] = "RESERVED" /\ status'[t] = "WORKING" /\ delay[t] <= Threshold)
            => age[t] >= delay[t]
  <2> SUFFICES ASSUME TypeOK, DelayInv, [Next]_vars, NEW t \in TxIds,
                      status[t] = "RESERVED", status'[t] = "WORKING", delay[t] <= Threshold
               PROVE  age[t] >= delay[t]
    OBVIOUS
  <2>1. PICK x \in queue : x.tx = t /\ age[t] >= x.at
    BY TakenByMessage
  <2>2. x.at \in Int /\ age[t] \in Int /\ delay[t] \in Int
    BY TimesAssumption DEF TypeOK, Message
  <2> QED BY <2>1, <2>2 DEF DelayInv
<1>3. TypeOK /\ DelayInv /\ [Next]_vars => (TypeOK /\ DelayInv)'
  BY TypeStep, DelayStep
<1> QED BY <1>1, <1>2, <1>3, RetentionTypeCorrect, PTL DEF Spec, NotBeforeDelay
=============================================================================
