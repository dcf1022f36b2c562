------------------------ MODULE NotificationsProofs ------------------------
(***************************************************************************)
(* Theorems about Notifications: its types, and that a Publish call that   *)
(* has returned has tried every listed client that is still connected.     *)
(***************************************************************************)
EXTENDS Notifications, TLAPS

-----------------------------------------------------------------------------
(* Types *)

\* The record a publisher starts from, and what its steps make of one.
LEMMA PublishingTyped ==
    /\ \A pc \in {"idle", "query", "post", "remove", "done", "failed"} :
          At(pc) \in Publishing
    /\ \A pc : At(pc).pc = pc /\ At(pc).audience = {}
BY DEF At, Publishing

\* A change of one publisher keeps the types when the new record has them.
LEMMA PubTyped ==
    ASSUME TypeOK, NEW p \in Publishers, NEW r \in Publishing, PubUpdate(p, r),
           r.pc = "remove" => r.gone \in Conns,
           table' \subseteq Conns, UNCHANGED <<gate, handler, index>>, faults' \in 0..MaxFaults
    PROVE  TypeOK'
BY DEF TypeOK, PubUpdate

\* The records the steps of a Publish call leave.
LEMMA StepsTyped ==
    ASSUME TypeOK, NEW p \in Publishers
    PROVE  /\ AfterRemoval(p) \in Publishing /\ AfterRemoval(p).pc = "post"
           /\ Finished(p) \in Publishing /\ Finished(p).pc = "done"
           /\ \A c \in Conns :
                /\ NextStale(p, c) \in Publishing /\ NextStale(p, c).gone \in Conns
                /\ Posted(p, c) \in Publishing /\ Posted(p, c).pc = pub[p].pc
                /\ Refused(p, c) \in Publishing /\ Refused(p, c).pc = pub[p].pc
<1>1. pub[p] \in Publishing
  BY DEF TypeOK
<1> QED BY <1>1 DEF Publishing, AfterRemoval, NextStale, Finished, Posted, Refused

\* The types are kept by what happens to a connection.
LEMMA ConnectionTyped ==
    ASSUME TypeOK, NEW c \in Conns, Connection(c)
    PROVE  TypeOK'
<1>f. ASSUME Fault PROVE faults' \in 0..MaxFaults
  BY <1>f, MaxFaultsAssumption DEF Fault, TypeOK
<1>1. CASE Connect(c)
  BY <1>1 DEF Connect, TypeOK, GateState, HandlerState
<1>2. CASE HandleConnect(c)
  BY <1>2 DEF HandleConnect, AddConnection, TypeOK, HandlerState
<1>3. CASE HandleConnectFails(c)
  BY <1>3, <1>f DEF HandleConnectFails, AddConnection, TypeOK, GateState, HandlerState
<1>4. CASE Accept(c)
  BY <1>4 DEF Accept, TypeOK, GateState, HandlerState
<1>5. CASE Close(c)
  BY <1>5 DEF Close, TypeOK, GateState, HandlerState
<1>6. CASE HandleDisconnect(c)
  BY <1>6 DEF HandleDisconnect, RemoveConnection, TypeOK, HandlerState
<1>7. CASE HandleDisconnectFails(c)
  BY <1>7, <1>f DEF HandleDisconnectFails, TypeOK, HandlerState
<1>8. CASE IndexFollows(c)
  BY <1>8 DEF IndexFollows, TypeOK
<1>9. CASE ExpireConnection(c)
  BY <1>9 DEF ExpireConnection, RemoveConnection, TypeOK
<1> QED BY <1>1, <1>2, <1>3, <1>4, <1>5, <1>6, <1>7, <1>8, <1>9 DEF Connection

\* The types are kept by the steps of a publisher.
LEMMA PublisherTyped ==
    ASSUME TypeOK, NEW p \in Publishers, Publish(p) \/ Proceed(p) \/ Disturbed(p)
    PROVE  TypeOK'
<1>0. table \subseteq Conns /\ index \subseteq Conns /\ faults \in 0..MaxFaults
  BY DEF TypeOK
<1>f. ASSUME Fault PROVE faults' \in 0..MaxFaults
  BY <1>f, MaxFaultsAssumption DEF Fault, TypeOK
<1>1. CASE Publish(p)
  BY <1>0, <1>1, PubTyped, PublishingTyped DEF Publish
<1>2. CASE Query(p)
  <2>1. Listed \in Publishing /\ Listed.pc = "post"
    BY <1>0 DEF At, Publishing, Listed
  <2> QED BY <1>0, <1>2, <2>1, PubTyped DEF Query
<1>3. ASSUME NEW c \in Conns, Post(p, c) PROVE TypeOK'
  BY <1>0, <1>3, StepsTyped, PubTyped DEF Post
<1>4. ASSUME NEW c \in Conns, PostToStale(p, c) PROVE TypeOK'
  BY <1>0, <1>4, StepsTyped, PubTyped DEF PostToStale
<1>5. CASE RemoveStale(p)
  BY <1>0, <1>5, StepsTyped, PubTyped DEF RemoveStale, RemoveConnection
<1>6. CASE Finish(p)
  BY <1>0, <1>6, StepsTyped, PubTyped DEF Finish
<1>7. ASSUME NEW c \in Conns, PostFails(p, c) PROVE TypeOK'
  BY <1>0, <1>f, <1>7, StepsTyped, PubTyped DEF PostFails
<1>8. CASE RemoveStaleFails(p)
  BY <1>0, <1>f, <1>8, StepsTyped, PubTyped DEF RemoveStaleFails
<1>9. CASE PublishFails(p)
  BY <1>0, <1>f, <1>9, PublishingTyped, PubTyped DEF PublishFails
<1> QED BY <1>1, <1>2, <1>3, <1>4, <1>5, <1>6, <1>7, <1>8, <1>9 DEF Proceed, Disturbed

\* Every reachable state has the declared types; a publisher about to remove a
\* connection knows which.
THEOREM NotificationsTypeCorrect == Spec => []TypeOK
<1>1. Init => TypeOK
  BY PublishingTyped, MaxFaultsAssumption DEF Init, TypeOK, GateState, HandlerState
<1>2. TypeOK /\ [Next]_vars => TypeOK'
  <2> SUFFICES ASSUME TypeOK, [Next]_vars PROVE TypeOK'
    OBVIOUS
  <2>1. CASE UNCHANGED vars
    BY <2>1 DEF vars, TypeOK
  <2> QED BY <2>1, ConnectionTyped, PublisherTyped DEF Next
<1> QED BY <1>1, <1>2, PTL DEF Spec

-----------------------------------------------------------------------------
(* A Publish call tries everybody *)

\* Of one publisher: an open connection of the audience has been tried or is still to
\* be; what is about to be removed was closed if it was of the audience; nothing is
\* left when the call returns.
PublishInvOf(p) ==
    /\ \A c \in pub[p].audience :
        /\ gate[c] \in {"open", "closed"}
        /\ gate[c] = "open" => c \in pub[p].reached \union pub[p].refused \union pub[p].todo
    /\ (pub[p].pc = "remove" /\ pub[p].gone \in pub[p].audience) => gate[pub[p].gone] = "closed"
    /\ pub[p].pc = "done" => pub[p].todo = {}

PublishInv == \A p \in Publishers : PublishInvOf(p)

\* A connection is opened from "connecting" only, and does not leave "closed".
LEMMA GateStep ==
    ASSUME TypeOK, [Next]_vars, NEW c \in Conns, gate[c] \in {"open", "closed"}
    PROVE  /\ gate'[c] \in {"open", "closed"}
           /\ gate[c] = "closed" => gate'[c] = "closed"
<1>1. ASSUME NEW d \in Conns, Connection(d)
      PROVE  /\ gate'[c] \in {"open", "closed"}
             /\ gate[c] = "closed" => gate'[c] = "closed"
  <2>1. gate' = gate \/ (gate[d] \notin {"open", "closed"} /\ \E g : gate' = [gate EXCEPT ![d] = g])
                     \/ gate' = [gate EXCEPT ![d] = "closed"]
    BY <1>1, SMTT(30) DEF Connection, Connect, HandleConnect, HandleConnectFails, Accept, Close,
          HandleDisconnect, HandleDisconnectFails, IndexFollows, ExpireConnection
  <2> QED BY <2>1 DEF TypeOK
<1>2. ASSUME NEW p \in Publishers, Publish(p) \/ Proceed(p) \/ Disturbed(p)
      PROVE  gate' = gate
  BY <1>2 DEF Publish, Proceed, Disturbed, Query, Post, PostToStale, RemoveStale, Finish,
              PostFails, RemoveStaleFails, PublishFails
<1>3. CASE UNCHANGED vars
  BY <1>3 DEF vars
<1> QED BY <1>1, <1>2, <1>3 DEF Next

\* A step that leaves the record of p alone keeps its part of the invariant.
LEMMA OtherPublisher ==
    ASSUME TypeOK, [Next]_vars, NEW p \in Publishers, PublishInvOf(p), pub'[p] = pub[p]
    PROVE  PublishInvOf(p)'
<1>1. pub[p] \in Publishing
  BY DEF TypeOK
<1>2. \A c \in pub[p].audience : c \in Conns
  BY <1>1 DEF Publishing
<1> QED BY <1>2, GateStep DEF PublishInvOf

\* What the steps of a call change in its record.
LEMMA StepsChange ==
    ASSUME TypeOK, NEW p \in Publishers
    PROVE  /\ Listed.todo = index /\ Listed.pc = "post"
           /\ Listed.audience = {c \in index : gate[c] = "open"}
           /\ /\ AfterRemoval(p).audience = pub[p].audience
              /\ AfterRemoval(p).reached = pub[p].reached
              /\ AfterRemoval(p).refused = pub[p].refused
              /\ AfterRemoval(p).todo = pub[p].todo \ {pub[p].gone}
           /\ Finished(p) = [pub[p] EXCEPT !.pc = "done"]
           /\ \A c : /\ Posted(p, c).audience = pub[p].audience
                     /\ Posted(p, c).reached = pub[p].reached \union {c}
                     /\ Posted(p, c).refused = pub[p].refused
                     /\ Posted(p, c).todo = pub[p].todo \ {c}
           /\ \A c : /\ Refused(p, c).audience = pub[p].audience
                     /\ Refused(p, c).reached = pub[p].reached
                     /\ Refused(p, c).refused = pub[p].refused \union {c}
                     /\ Refused(p, c).todo = pub[p].todo \ {c}
           /\ \A c : /\ NextStale(p, c).audience = pub[p].audience
                     /\ NextStale(p, c).reached = pub[p].reached
                     /\ NextStale(p, c).refused = pub[p].refused
                     /\ NextStale(p, c).todo = pub[p].todo
                     /\ NextStale(p, c).gone = c /\ NextStale(p, c).pc = "remove"
<1>1. pub[p] \in Publishing
  BY DEF TypeOK
<1> QED BY <1>1 DEF Publishing, Listed, At, AfterRemoval, NextStale, Finished, Posted, Refused

\* Every step of a publisher keeps its part of the invariant.
LEMMA OwnStep ==
    ASSUME TypeOK, NEW p \in Publishers, PublishInvOf(p),
           Publish(p) \/ Proceed(p) \/ Disturbed(p)
    PROVE  PublishInvOf(p)'
<1>0. /\ pub \in [Publishers -> Publishing]
      /\ \A r : PubUpdate(p, r) => pub'[p] = r
  BY DEF TypeOK, PubUpdate
<1>1. CASE Publish(p)
  <2>1. pub'[p] = At("query")
    BY <1>0, <1>1 DEF Publish
  <2> QED BY <2>1, PublishingTyped DEF PublishInvOf
<1>2. CASE Query(p)
  <2>1. pub'[p] = Listed /\ gate' = gate
    BY <1>0, <1>2 DEF Query
  <2> QED BY <2>1, StepsChange DEF PublishInvOf
<1>3. ASSUME NEW c \in Conns, Post(p, c) PROVE PublishInvOf(p)'
  <2>1. pub'[p] = Posted(p, c) /\ gate' = gate /\ pub[p].pc = "post"
    BY <1>0, <1>3 DEF Post
  <2> QED BY <2>1, StepsChange, StepsTyped DEF PublishInvOf
<1>4. ASSUME NEW c \in Conns, PostToStale(p, c) PROVE PublishInvOf(p)'
  <2>1. pub'[p] = NextStale(p, c) /\ gate' = gate /\ gate[c] # "open"
    BY <1>0, <1>4 DEF PostToStale
  <2> QED BY <2>1, StepsChange DEF PublishInvOf
<1>5. CASE RemoveStale(p) \/ RemoveStaleFails(p)
  <2>1. pub'[p] = AfterRemoval(p) /\ gate' = gate /\ pub[p].pc = "remove"
    BY <1>0, <1>5 DEF RemoveStale, RemoveStaleFails
  <2> QED BY <2>1, StepsChange, StepsTyped DEF PublishInvOf
<1>6. CASE Finish(p)
  <2>1. pub'[p] = Finished(p) /\ gate' = gate /\ pub[p].todo = {}
    BY <1>0, <1>6 DEF Finish
  <2>2. /\ Finished(p).audience = pub[p].audience /\ Finished(p).todo = pub[p].todo
        /\ Finished(p).reached = pub[p].reached /\ Finished(p).refused = pub[p].refused
        /\ Finished(p).pc = "done"
    BY <1>0, StepsTyped DEF Finished, Publishing
  <2> QED BY <2>1, <2>2 DEF PublishInvOf
<1>7. ASSUME NEW c \in Conns, PostFails(p, c) PROVE PublishInvOf(p)'
  <2>1. pub'[p] = Refused(p, c) /\ gate' = gate /\ pub[p].pc = "post"
    BY <1>0, <1>7 DEF PostFails
  <2> QED BY <2>1, StepsChange, StepsTyped DEF PublishInvOf
<1>8. CASE PublishFails(p)
  <2>1. pub'[p] = At("failed")
    BY <1>0, <1>8 DEF PublishFails
  <2> QED BY <2>1, PublishingTyped DEF PublishInvOf
<1> QED BY <1>1, <1>2, <1>3, <1>4, <1>5, <1>6, <1>7, <1>8 DEF Proceed, Disturbed

\* A publisher's step leaves the records of the others alone, and that of a connection
\* all of them.
LEMMA PublishStep == TypeOK /\ PublishInv /\ [Next]_vars => PublishInv'
<1> SUFFICES ASSUME TypeOK, PublishInv, [Next]_vars, NEW p \in Publishers
             PROVE  PublishInvOf(p)'
  BY DEF PublishInv
<1>0. PublishInvOf(p)
  BY DEF PublishInv
<1>1. CASE pub'[p] = pub[p]
  BY <1>0, <1>1, OtherPublisher
<1>2. CASE pub'[p] # pub[p]
  <2>1. Publish(p) \/ Proceed(p) \/ Disturbed(p)
    <3>1. ASSUME NEW c \in Conns, Connection(c) PROVE pub' = pub
      BY <3>1 DEF Connection, Connect, HandleConnect, HandleConnectFails, Accept, Close,
            HandleDisconnect, HandleDisconnectFails, IndexFollows, ExpireConnection
    <3>2. ASSUME NEW q \in Publishers, Publish(q) \/ Proceed(q) \/ Disturbed(q), q # p
          PROVE  pub'[p] = pub[p]
      <4>1. \E r : PubUpdate(q, r)
        BY <3>2 DEF Publish, Proceed, Disturbed, Query, Post, PostToStale, RemoveStale,
              Finish, PostFails, RemoveStaleFails, PublishFails
      <4> QED BY <3>2, <4>1 DEF PubUpdate, TypeOK
    <3>3. ~UNCHANGED vars
      BY <1>2 DEF vars
    <3> QED BY <1>2, <3>1, <3>2, <3>3 DEF Next
  <2> QED BY <1>0, <2>1, OwnStep
<1> QED BY <1>1, <1>2

\* The publisher's loop skips nobody: when Publish has returned, every listed client
\* that was connected at the query and still is was posted to, whatever stale
\* connections, failed posts, failed removals and other publishers came in between.
THEOREM PublishWorks == Spec => []PublishReaches
<1>1. Init => PublishInv
  BY PublishingTyped DEF Init, PublishInv, PublishInvOf
<1>2. PublishInv => PublishReaches
  BY DEF PublishInv, PublishInvOf, PublishReaches
<1> QED BY <1>1, <1>2, PublishStep, NotificationsTypeCorrect, PTL DEF Spec

-----------------------------------------------------------------------------
(* Publish is a broadcast *)

\* A change of one publisher's record is a change of its call.
LEMMA CallMoves ==
    ASSUME TypeOK, NEW p \in Publishers, NEW r \in Publishing, PubUpdate(p, r), gate' = gate
    PROVE  Bcast!Update(p, [stage |-> StageOf(r.pc), due |-> r.audience,
                            got |-> r.reached, lost |-> r.refused])
BY DEF TypeOK, PubUpdate, CallOf, ConnOf, Bcast!Update

\* A step that leaves calls and connections as they are known outside stutters.
LEMMA BcastStutter ==
    ASSUME pub' = pub, \A c \in Conns : ConnOf(c)' = ConnOf(c)
    PROVE  UNCHANGED Bcast!vars
BY DEF Bcast!vars, CallOf

\* A connection is opened and closed as in the broadcast; its handlers and its id in
\* the table and the index are not seen there.
LEMMA ConnectionMaps ==
    ASSUME TypeOK, NEW d \in Conns, Connection(d)
    PROVE  [Bcast!Next]_Bcast!vars
<1>1. pub' = pub
  BY DEF Connection, Connect, HandleConnect, HandleConnectFails, Accept, Close,
         HandleDisconnect, HandleDisconnectFails, IndexFollows, ExpireConnection
<1>2. [p \in Publishers |-> CallOf(p)'] = [p \in Publishers |-> CallOf(p)]
  BY <1>1 DEF CallOf
<1>3. \A c \in Conns : gate[c] \in GateState
  BY DEF TypeOK
<1>4. CASE gate' = gate
  BY <1>1, <1>4, BcastStutter DEF ConnOf
<1>5. CASE Connect(d)
  <2>1. \A c \in Conns : ConnOf(c)' = ConnOf(c)
    BY <1>5 DEF Connect, ConnOf, TypeOK
  <2> QED BY <1>1, <2>1, BcastStutter
<1>6. CASE Accept(d)
  <2>1. ConnOf(d) = "new"
    BY <1>6 DEF Accept, ConnOf
  <2>2. \A c \in Conns : ConnOf(c)' = IF c = d THEN "open" ELSE ConnOf(c)
    BY <1>6 DEF Accept, ConnOf, TypeOK
  <2>3. [c \in Conns |-> ConnOf(c)'] = [[c \in Conns |-> ConnOf(c)] EXCEPT ![d] = "open"]
    BY <2>2
  <2>4. Bcast!Join(d)
    BY <1>2, <2>1, <2>3 DEF Bcast!Join
  <2> QED BY <2>4 DEF Bcast!Next
<1>7. CASE gate' = [gate EXCEPT ![d] = "closed"]
  <2>1. \A c \in Conns : ConnOf(c)' = IF c = d THEN "closed" ELSE ConnOf(c)
    BY <1>7 DEF ConnOf, TypeOK
  <2>2. CASE gate[d] = "closed"
    <3>1. \A c \in Conns : ConnOf(c)' = ConnOf(c)
      BY <2>1, <2>2 DEF ConnOf
    <3> QED BY <1>1, <3>1, BcastStutter
  <2>3. CASE gate[d] # "closed"
    <3>1. ConnOf(d) # "closed"
      BY <2>3 DEF ConnOf
    <3>2. [c \in Conns |-> ConnOf(c)'] = [[c \in Conns |-> ConnOf(c)] EXCEPT ![d] = "closed"]
      BY <2>1
    <3>3. Bcast!Leave(d)
      BY <1>2, <3>1, <3>2 DEF Bcast!Leave
    <3> QED BY <3>3 DEF Bcast!Next
  <2> QED BY <2>2, <2>3
<1>8. Connect(d) \/ Accept(d) \/ gate' = gate \/ gate' = [gate EXCEPT ![d] = "closed"]
  BY DEF Connection, HandleConnect, HandleConnectFails, Close, HandleDisconnect,
         HandleDisconnectFails, IndexFollows, ExpireConnection
<1> QED BY <1>4, <1>5, <1>6, <1>7, <1>8

\* The steps of a call are those of a broadcast.  That it returns only when nobody is
\* left is the invariant of PublishWorks.
LEMMA PublisherMaps ==
    ASSUME TypeOK, NEW p \in Publishers, PublishInvOf(p),
           Publish(p) \/ Proceed(p) \/ Disturbed(p)
    PROVE  [Bcast!Next]_Bcast!vars
<1> DEFINE called == [q \in Publishers |-> CallOf(q)]
           M(r) == Bcast!Update(p, [stage |-> StageOf(r.pc), due |-> r.audience,
                                    got |-> r.reached, lost |-> r.refused])
<1>0. /\ pub \in [Publishers -> Publishing] /\ pub[p] \in Publishing
      /\ called[p] = CallOf(p)
      /\ \A r \in Publishing : PubUpdate(p, r) /\ gate' = gate => M(r)
  BY CallMoves DEF TypeOK
<1>c. \A c \in Conns : [d \in Conns |-> ConnOf(d)][c] = "open" <=> gate[c] = "open"
  BY DEF ConnOf, TypeOK, GateState
<1> SUFFICES ASSUME TRUE PROVE Bcast!Publishing(p) \/ UNCHANGED Bcast!vars
  BY DEF Bcast!Next
<1>1. CASE Publish(p)
  <2>1. M(At("query"))
    BY <1>0, <1>1, PublishingTyped DEF Publish
  <2>2. Bcast!Update(p, Bcast!Empty("called"))
    BY <2>1 DEF At, StageOf, Bcast!Empty
  <2>3. called[p].stage \in {"idle", "done", "failed"}
    BY <1>0, <1>1 DEF Publish, CallOf, StageOf
  <2> QED BY <2>2, <2>3 DEF Bcast!Begin, Bcast!Publishing
<1>2. CASE Query(p)
  <2> DEFINE S == {c \in index : gate[c] = "open"}
  <2>1. Listed \in Publishing /\ S \in SUBSET Conns
    BY DEF Listed, At, Publishing, TypeOK
  <2>2. M(Listed)
    BY <1>0, <1>2, <2>1 DEF Query
  <2>3. Bcast!Update(p, [Bcast!Empty("sending") EXCEPT !.due = S])
    BY <2>2 DEF Listed, At, StageOf, Bcast!Empty
  <2>4. called[p].stage = "called"
    BY <1>0, <1>2 DEF Query, CallOf, StageOf
  <2>5. Bcast!Address(p, S)
    BY <1>c, <2>1, <2>3, <2>4 DEF Bcast!Address
  <2> QED BY <2>1, <2>5 DEF Bcast!Publishing
<1>3. ASSUME NEW c \in Conns, Post(p, c) PROVE Bcast!Publishing(p)
  <2>1. M(Posted(p, c)) /\ pub[p].pc = "post" /\ gate[c] = "open"
    BY <1>0, <1>3, StepsTyped DEF Post
  <2>2. called[p].stage = "sending"
    BY <1>0, <2>1 DEF CallOf, StageOf
  <2>3. Bcast!Update(p, [called[p] EXCEPT !.got = @ \union {c}])
    <3>1. [called[p] EXCEPT !.got = @ \union {c}]
              = [stage |-> "sending", due |-> pub[p].audience,
                 got |-> pub[p].reached \union {c},
                 lost |-> pub[p].refused]
      BY <1>0, <2>2 DEF CallOf
    <3>2. StageOf(Posted(p, c).pc) = "sending"
      BY <2>1, StepsTyped DEF StageOf
    <3>3. /\ Posted(p, c).audience = pub[p].audience
          /\ Posted(p, c).reached = pub[p].reached \union {c}
          /\ Posted(p, c).refused = pub[p].refused
      BY StepsChange
    <3> QED BY <2>1, <3>1, <3>2, <3>3
  <2>4. Bcast!Deliver(p, c)
    BY <1>c, <2>1, <2>2, <2>3 DEF Bcast!Deliver
  <2> QED BY <2>4 DEF Bcast!Publishing
<1>4. ASSUME NEW c \in Conns, PostFails(p, c) PROVE Bcast!Publishing(p)
  <2>1. M(Refused(p, c)) /\ pub[p].pc = "post"
    BY <1>0, <1>4, StepsTyped DEF PostFails
  <2>2. called[p].stage = "sending"
    BY <1>0, <2>1 DEF CallOf, StageOf
  <2>3. Bcast!Update(p, [called[p] EXCEPT !.lost = @ \union {c}])
    <3>1. [called[p] EXCEPT !.lost = @ \union {c}]
              = [stage |-> "sending", due |-> pub[p].audience,
                 got |-> pub[p].reached,
                 lost |-> pub[p].refused \union {c}]
      BY <1>0, <2>2 DEF CallOf
    <3>2. StageOf(Refused(p, c).pc) = "sending"
      BY <2>1, StepsTyped DEF StageOf
    <3>3. /\ Refused(p, c).audience = pub[p].audience
          /\ Refused(p, c).reached = pub[p].reached
          /\ Refused(p, c).refused = pub[p].refused \union {c}
      BY StepsChange
    <3> QED BY <2>1, <3>1, <3>2, <3>3
  <2>4. Bcast!Lose(p, c)
    BY <2>2, <2>3 DEF Bcast!Lose
  <2> QED BY <2>4 DEF Bcast!Publishing
<1>5. ASSUME NEW r \in Publishing, PubUpdate(p, r), gate' = gate,
             StageOf(r.pc) = StageOf(pub[p].pc), r.audience = pub[p].audience,
             r.reached = pub[p].reached, r.refused = pub[p].refused
      PROVE  UNCHANGED Bcast!vars
  <2>1. \A q \in Publishers : CallOf(q)' = CallOf(q)
    BY <1>0, <1>5 DEF PubUpdate, CallOf
  <2> QED BY <1>5, <2>1 DEF Bcast!vars, ConnOf
<1>6. ASSUME NEW c \in Conns, PostToStale(p, c) PROVE UNCHANGED Bcast!vars
  <2>1. PubUpdate(p, NextStale(p, c)) /\ gate' = gate /\ pub[p].pc = "post"
    BY <1>6 DEF PostToStale
  <2> QED BY <2>1, <1>5, StepsTyped, StepsChange DEF StageOf
<1>7. CASE RemoveStale(p) \/ RemoveStaleFails(p)
  <2>1. PubUpdate(p, AfterRemoval(p)) /\ gate' = gate /\ pub[p].pc = "remove"
    BY <1>7 DEF RemoveStale, RemoveStaleFails
  <2> QED BY <2>1, <1>5, StepsTyped, StepsChange DEF StageOf
<1>8. CASE Finish(p)
  <2>1. M(Finished(p)) /\ pub[p].pc = "post" /\ pub[p].todo = {}
    BY <1>0, <1>8, StepsTyped DEF Finish
  <2>2. called[p].stage = "sending"
    BY <1>0, <2>1 DEF CallOf, StageOf
  <2>3. Bcast!Update(p, [called[p] EXCEPT !.stage = "done"])
    <3>1. /\ Finished(p).pc = "done" /\ Finished(p).audience = pub[p].audience
          /\ Finished(p).reached = pub[p].reached /\ Finished(p).refused = pub[p].refused
      BY <1>0 DEF Finished, Publishing
    <3>2. [called[p] EXCEPT !.stage = "done"]
              = [stage |-> "done", due |-> pub[p].audience,
                 got |-> pub[p].reached, lost |-> pub[p].refused]
      BY <1>0 DEF CallOf
    <3>3. StageOf("done") = "done"
      BY DEF StageOf
    <3> QED BY <2>1, <3>1, <3>2, <3>3
  <2>4. \A c \in pub[p].audience : c \in Conns /\
            (gate[c] = "open" => c \in pub[p].reached \union pub[p].refused)
    BY <1>0, <2>1 DEF PublishInvOf, Publishing
  <2>5. \A c \in called[p].due : [d \in Conns |-> ConnOf(d)][c] = "open"
                                   => c \in called[p].got \union called[p].lost
    BY <1>0, <1>c, <2>4 DEF CallOf
  <2>6. Bcast!Return(p)
    BY <2>2, <2>3, <2>5 DEF Bcast!Return
  <2> QED BY <2>6 DEF Bcast!Publishing
<1>9. CASE PublishFails(p)
  <2>1. M(At("failed")) /\ pub[p].pc \in {"query", "post", "remove"}
    BY <1>0, <1>9, PublishingTyped DEF PublishFails
  <2>2. Bcast!Update(p, Bcast!Empty("failed"))
    BY <2>1 DEF At, StageOf, Bcast!Empty
  <2>3. called[p].stage \in {"called", "sending"}
    BY <1>0, <2>1 DEF CallOf, StageOf
  <2> QED BY <2>2, <2>3 DEF Bcast!Fail, Bcast!Publishing
<1> QED BY <1>1, <1>2, <1>3, <1>4, <1>6, <1>7, <1>8, <1>9 DEF Proceed, Disturbed

\* For any number of connections, publishers and faults, Publish is a broadcast.
THEOREM PublishBroadcasts == Spec => ImplementsBroadcast
<1>1. Init => Bcast!Init
  BY PublishingTyped DEF Init, ConnOf, CallOf, StageOf, At, Bcast!Init, Bcast!Empty
<1>2. Init => PublishInv
  BY PublishingTyped DEF Init, PublishInv, PublishInvOf
<1>3. TypeOK /\ PublishInv /\ [Next]_vars => [Bcast!Next]_Bcast!vars
  <2> SUFFICES ASSUME TypeOK, PublishInv, [Next]_vars PROVE [Bcast!Next]_Bcast!vars
    OBVIOUS
  <2>1. CASE UNCHANGED vars
    <3>1. pub' = pub /\ \A c \in Conns : ConnOf(c)' = ConnOf(c)
      BY <2>1 DEF vars, ConnOf
    <3> QED BY <3>1, BcastStutter
  <2>2. \A p \in Publishers : PublishInvOf(p)
    BY DEF PublishInv
  <2> QED BY <2>1, <2>2, ConnectionMaps, PublisherMaps DEF Next
<1> QED BY <1>1, <1>2, <1>3, PublishStep, NotificationsTypeCorrect, PTL
        DEF Spec, ImplementsBroadcast, Bcast!Spec
=============================================================================
