--------------------------- MODULE Notifications ---------------------------
(***************************************************************************)
(* The WebSocket side of the service: the table of connections, the        *)
(* handlers that keep it (pkg/handlers/websockets), the publisher that     *)
(* sends a message to every connection in it (pkg/websockets), and, as far *)
(* as these depend on it, API Gateway, which holds the connections.        *)
(***************************************************************************)
EXTENDS Naturals

CONSTANTS
    Conns,       \* connection ids; API Gateway never uses one again
    Publishers,  \* requests that publish, one message at a time
    MaxFaults,   \* bound: failed calls and crashes in one behaviour
    NoConn       \* the connection of a publisher that has none to remove

ASSUME NoConnAssumption == NoConn \notin Conns
ASSUME MaxFaultsAssumption == MaxFaults \in Nat

VARIABLES
    gate,     \* gate[c]: the connection, as API Gateway knows it
    handler,  \* handler[c]: the invocation of the lambda for a route of c
    table,    \* the ids in the WebsocketConnections table
    index,    \* the ids its pk-index shows, which follows the table
    pub,      \* pub[p]: the Publish call under way, or the last one
    faults    \* faults so far

vars == <<gate, handler, table, index, pub, faults>>

GateState == {"new", "connecting", "open", "closed"}
HandlerState == {"none", "connect", "saved", "disconnect"}

\* todo: ids of the query not yet posted to.  gone: the id to be removed.  The rest is
\* for the properties: audience are the listed connections that were open at the query,
\* reached those the message was sent to, refused those whose post failed.
Publishing ==
    [pc : {"idle", "query", "post", "remove", "done", "failed"},
     todo : SUBSET Conns, gone : Conns \union {NoConn},
     audience : SUBSET Conns, reached : SUBSET Conns, refused : SUBSET Conns]

At(pc) == [pc |-> pc, todo |-> {}, gone |-> NoConn,
           audience |-> {}, reached |-> {}, refused |-> {}]

TypeOK ==
    /\ gate \in [Conns -> GateState]
    /\ handler \in [Conns -> HandlerState]
    /\ table \subseteq Conns
    /\ index \subseteq Conns
    /\ pub \in [Publishers -> Publishing]
    /\ \A p \in Publishers : pub[p].pc = "remove" => pub[p].gone \in Conns
    /\ faults \in 0..MaxFaults

Init ==
    /\ gate = [c \in Conns |-> "new"]
    /\ handler = [c \in Conns |-> "none"]
    /\ table = {}
    /\ index = {}
    /\ pub = [p \in Publishers |-> At("idle")]
    /\ faults = 0

Fault == faults < MaxFaults /\ faults' = faults + 1

-----------------------------------------------------------------------------
(* Faulty variants of definitions below; no action uses them *)

\* The publisher that removes and forgets the id it was told is gone.
NextStaleNone(p, c) == [pub[p] EXCEPT !.pc = "remove"]

\* The loop that returns after the first stale connection.
AfterRemovalReturn(p) == [pub[p] EXCEPT !.pc = "done", !.todo = {}, !.gone = NoConn]

\* RemoveConnection that reports success and deletes nothing.
RemoveConnectionNothing(c) == UNCHANGED table

\* The publisher that takes a GoneException for a success.
NextStalePosted(p, c) == [pub[p] EXCEPT !.todo = @ \ {c}, !.reached = @ \union {c}]

-----------------------------------------------------------------------------
(* The store: AddConnection, RemoveConnection; GetAllConnections reads index *)

AddConnection(c) == table' = table \union {c}
RemoveConnection(c) == table' = table \ {c}

\* A global secondary index is eventually consistent.
IndexFollows(c) ==
    /\ c \in table <=> c \notin index
    /\ index' = IF c \in table THEN index \union {c} ELSE index \ {c}
    /\ UNCHANGED <<gate, handler, table, pub, faults>>

\* The ttl of 24 hours; API Gateway closes a connection after two.
ExpireConnection(c) ==
    /\ c \in table /\ gate[c] = "closed"
    /\ RemoveConnection(c)
    /\ UNCHANGED <<gate, handler, index, pub, faults>>

-----------------------------------------------------------------------------
(* The life of a connection *)

\* A client opens a WebSocket: API Gateway invokes the $connect route.
Connect(c) ==
    /\ gate[c] = "new"
    /\ gate' = [gate EXCEPT ![c] = "connecting"]
    /\ handler' = [handler EXCEPT ![c] = "connect"]
    /\ UNCHANGED <<table, index, pub, faults>>

\* The write of HandleConnect, which then replies 200.
HandleConnect(c) ==
    /\ handler[c] = "connect"
    /\ handler' = [handler EXCEPT ![c] = "saved"]
    /\ AddConnection(c)
    /\ UNCHANGED <<gate, index, pub, faults>>

\* HandleConnect replies 500, or not at all, whether or not the id was written.
HandleConnectFails(c) ==
    /\ Fault
    /\ handler[c] = "connect"
    /\ handler' = [handler EXCEPT ![c] = "none"]
    /\ gate' = [gate EXCEPT ![c] = "closed"]
    /\ AddConnection(c) \/ UNCHANGED table
    /\ UNCHANGED <<index, pub>>

\* API Gateway gets the 200, and only from now on can the connection be posted to.
Accept(c) ==
    /\ gate[c] = "connecting" /\ handler[c] = "saved"
    /\ gate' = [gate EXCEPT ![c] = "open"]
    /\ handler' = [handler EXCEPT ![c] = "none"]
    /\ UNCHANGED <<table, index, pub, faults>>

\* The client, the network or API Gateway closes it.  The $disconnect route is invoked
\* for an open connection, on a best effort.
Close(c) ==
    /\ gate[c] \in {"connecting", "open"}
    /\ gate' = [gate EXCEPT ![c] = "closed"]
    /\ \/ gate[c] = "open" /\ handler' = [handler EXCEPT ![c] = "disconnect"]
       \/ UNCHANGED handler
    /\ UNCHANGED <<table, index, pub, faults>>

HandleDisconnect(c) ==
    /\ handler[c] = "disconnect"
    /\ handler' = [handler EXCEPT ![c] = "none"]
    /\ RemoveConnection(c)
    /\ UNCHANGED <<gate, index, pub, faults>>

\* Its delete fails, or the invocation dies.
HandleDisconnectFails(c) ==
    /\ Fault
    /\ handler[c] = "disconnect"
    /\ handler' = [handler EXCEPT ![c] = "none"]
    /\ UNCHANGED <<gate, table, index, pub>>

-----------------------------------------------------------------------------
(* Publish, for ScheduleTransaction and NotifySettlement *)

PubUpdate(p, r) == pub' = [pub EXCEPT ![p] = r]

Publish(p) ==
    /\ pub[p].pc \in {"idle", "done", "failed"}
    /\ PubUpdate(p, At("query"))
    /\ UNCHANGED <<gate, handler, table, index, faults>>

\* What GetAllConnections returns.
Listed == [At("post") EXCEPT !.todo = index, !.audience = {c \in index : gate[c] = "open"}]

Query(p) ==
    /\ pub[p].pc = "query"
    /\ PubUpdate(p, Listed)
    /\ UNCHANGED <<gate, handler, table, index, faults>>

\* What the steps of a call make of its record.
Posted(p, c) == [pub[p] EXCEPT !.todo = @ \ {c}, !.reached = @ \union {c}]
Refused(p, c) == [pub[p] EXCEPT !.todo = @ \ {c}, !.refused = @ \union {c}]
NextStale(p, c) == [pub[p] EXCEPT !.pc = "remove", !.gone = c]
AfterRemoval(p) ==
    [pub[p] EXCEPT !.pc = "post", !.todo = @ \ {pub[p].gone}, !.gone = NoConn]
Finished(p) == [pub[p] EXCEPT !.pc = "done"]

\* PostToConnection reaches the client of an open connection.
Post(p, c) ==
    /\ pub[p].pc = "post" /\ c \in pub[p].todo
    /\ gate[c] = "open"
    /\ PubUpdate(p, Posted(p, c))
    /\ UNCHANGED <<gate, handler, table, index, faults>>

\* GoneException: API Gateway does not have the connection, or not yet.
PostToStale(p, c) ==
    /\ pub[p].pc = "post" /\ c \in pub[p].todo
    /\ gate[c] # "open"
    /\ PubUpdate(p, NextStale(p, c))
    /\ UNCHANGED <<gate, handler, table, index, faults>>

\* Another error is logged, and the loop goes on.
PostFails(p, c) ==
    /\ Fault
    /\ pub[p].pc = "post" /\ c \in pub[p].todo
    /\ PubUpdate(p, Refused(p, c))
    /\ UNCHANGED <<gate, handler, table, index>>

RemoveStale(p) ==
    /\ pub[p].pc = "remove"
    /\ RemoveConnection(pub[p].gone)
    /\ PubUpdate(p, AfterRemoval(p))
    /\ UNCHANGED <<gate, handler, index, faults>>

\* A failed removal is logged, too.
RemoveStaleFails(p) ==
    /\ Fault
    /\ pub[p].pc = "remove"
    /\ PubUpdate(p, AfterRemoval(p))
    /\ UNCHANGED <<gate, handler, table, index>>

Finish(p) ==
    /\ pub[p].pc = "post" /\ pub[p].todo = {}
    /\ PubUpdate(p, Finished(p))
    /\ UNCHANGED <<gate, handler, table, index, faults>>

\* The query fails, or the request times out or dies at any point.
PublishFails(p) ==
    /\ Fault
    /\ pub[p].pc \in {"query", "post", "remove"}
    /\ PubUpdate(p, At("failed"))
    /\ UNCHANGED <<gate, handler, table, index>>

-----------------------------------------------------------------------------

Connection(c) ==
    \/ Connect(c) \/ HandleConnect(c) \/ HandleConnectFails(c) \/ Accept(c)
    \/ Close(c) \/ HandleDisconnect(c) \/ HandleDisconnectFails(c)
    \/ IndexFollows(c) \/ ExpireConnection(c)

\* The steps of a Publish call that goes well.
Proceed(p) ==
    \/ Query(p)
    \/ \E c \in Conns : Post(p, c) \/ PostToStale(p, c)
    \/ RemoveStale(p)
    \/ Finish(p)

Disturbed(p) ==
    \/ \E c \in Conns : PostFails(p, c)
    \/ RemoveStaleFails(p)
    \/ PublishFails(p)

Next ==
    \/ \E c \in Conns : Connection(c)
    \/ \E p \in Publishers : Publish(p) \/ Proceed(p) \/ Disturbed(p)

Spec == Init /\ [][Next]_vars

\* A Publish call that does not fail takes its steps; the index follows the table.
Fairness ==
    /\ \A p \in Publishers : WF_vars(Proceed(p))
    /\ \A c \in Conns : WF_vars(IndexFollows(c))

FairSpec == Spec /\ Fairness

-----------------------------------------------------------------------------
(* Properties *)

\* A stale connection, a failed post or a failed removal keeps nobody else from the
\* message: when Publish has returned, every listed connection that was open at the
\* query and still is has been posted to.
PublishReaches ==
    \A p \in Publishers :
        pub[p].pc = "done" =>
            \A c \in pub[p].audience :
                gate[c] = "open" => c \in pub[p].reached \union pub[p].refused

\* A connection as its client knows it, and the stage of a call as its caller does.
ConnOf(c) == IF gate[c] = "connecting" THEN "new" ELSE gate[c]
StageOf(pc) ==
    CASE pc = "query" -> "called"
      [] pc \in {"post", "remove"} -> "sending"
      [] OTHER -> pc
CallOf(p) ==
    [stage |-> StageOf(pub[p].pc), due |-> pub[p].audience,
     got |-> pub[p].reached, lost |-> pub[p].refused]

\* The table, its lagging index, the removal of stale ids and the handlers that race it
\* are details of a broadcast: nobody but a connected client is sent to, and no client of
\* the audience is skipped.
Bcast == INSTANCE Broadcast WITH
    conn <- [c \in Conns |-> ConnOf(c)],
    call <- [p \in Publishers |-> CallOf(p)]

ImplementsBroadcast == Bcast!Spec

\* "GetAllConnections retrieves all active WebSocket connection IDs": an open
\* connection is in the table.
OpenIsListed == \A c \in Conns : gate[c] = "open" => c \in table

\* As long as transactions are made or settled, the id of a closed connection goes,
\* although $disconnect may never be invoked, may fail, or may come before a late
\* AddConnection.
StaleConnectionsGo ==
    []<>(\E p \in Publishers : pub[p].pc = "query") =>
        \A c \in Conns : (c \in table /\ gate[c] = "closed") ~> c \notin table
=============================================================================
