---------------------------- MODULE Broadcast ----------------------------
(***************************************************************************)
(* What Publish promises its callers, without a table of connections, its  *)
(* index, ids that are stale or handlers of routes: a message goes to an   *)
(* audience of clients that are connected when it is sent, and the call    *)
(* returns when each of them has it, has gone, or could not be reached.    *)
(* Others who have come since may get it too, and a message may come twice.*)
(***************************************************************************)
CONSTANTS
    Conns,       \* connections; each is opened at most once
    Publishers   \* callers

VARIABLES
    conn,  \* conn[c]: "new", "open" or "closed"
    call   \* call[p]: the call under way, or the last one

vars == <<conn, call>>

\* due: the audience.  got: who has the message.  lost: whom the service could not reach.
Call ==
    [stage : {"idle", "called", "sending", "done", "failed"},
     due : SUBSET Conns, got : SUBSET Conns, lost : SUBSET Conns]

Empty(stage) == [stage |-> stage, due |-> {}, got |-> {}, lost |-> {}]

TypeOK ==
    /\ conn \in [Conns -> {"new", "open", "closed"}]
    /\ call \in [Publishers -> Call]

Init ==
    /\ conn = [c \in Conns |-> "new"]
    /\ call = [p \in Publishers |-> Empty("idle")]

-----------------------------------------------------------------------------

Join(c) ==
    /\ conn[c] = "new"
    /\ conn' = [conn EXCEPT ![c] = "open"]
    /\ UNCHANGED call

Leave(c) ==
    /\ conn[c] # "closed"
    /\ conn' = [conn EXCEPT ![c] = "closed"]
    /\ UNCHANGED call

Update(p, r) == call' = [call EXCEPT ![p] = r] /\ UNCHANGED conn

Begin(p) ==
    /\ call[p].stage \in {"idle", "done", "failed"}
    /\ Update(p, Empty("called"))

Address(p, audience) ==
    /\ call[p].stage = "called"
    /\ \A c \in audience : conn[c] = "open"
    /\ Update(p, [Empty("sending") EXCEPT !.due = audience])

Deliver(p, c) ==
    /\ call[p].stage = "sending" /\ conn[c] = "open"
    /\ Update(p, [call[p] EXCEPT !.got = @ \union {c}])

Lose(p, c) ==
    /\ call[p].stage = "sending"
    /\ Update(p, [call[p] EXCEPT !.lost = @ \union {c}])

Return(p) ==
    /\ call[p].stage = "sending"
    /\ \A c \in call[p].due : conn[c] = "open" => c \in call[p].got \union call[p].lost
    /\ Update(p, [call[p] EXCEPT !.stage = "done"])

Fail(p) ==
    /\ call[p].stage \in {"called", "sending"}
    /\ Update(p, Empty("failed"))

Publishing(p) ==
    \/ Begin(p) \/ Return(p) \/ Fail(p)
    \/ \E audience \in SUBSET Conns : Address(p, audience)
    \/ \E c \in Conns : Deliver(p, c) \/ Lose(p, c)

Next ==
    \/ \E c \in Conns : Join(c) \/ Leave(c)
    \/ \E p \in Publishers : Publishing(p)

Spec == Init /\ [][Next]_vars
=============================================================================
