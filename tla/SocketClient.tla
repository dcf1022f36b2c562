--------------------------- MODULE SocketClient ---------------------------
(***************************************************************************)
(* The WebSocketClient of the web client (web-client/src/client/           *)
(* websocket.ts) and the effect of WebSocketHandler that calls connect().  *)
(* A browser runs one callback at a time, so each action is a whole        *)
(* callback.                                                               *)
(***************************************************************************)
EXTENDS Naturals

CONSTANTS
    Sockets,               \* browser WebSockets; a closed one stands for a new one
    NoSocket,              \* this.socket before the first connect()
    MaxReconnectAttempts,  \* maxReconnectAttempts
    MaxRenders,            \* bound: renders of the page after the first
    MaxRefused             \* bound: failed connection attempts in a row

ASSUME NoSocketAssumption == NoSocket \notin Sockets
ASSUME ClientBoundsAssumption ==
    MaxReconnectAttempts \in Nat /\ MaxRenders \in Nat /\ MaxRefused \in Nat

VARIABLES
    sock,      \* sock[s]: readyState; CLOSED sockets are "free"
    socket,    \* this.socket
    attempts,  \* this.reconnectAttempts
    timers,    \* reconnections due after reconnectInterval
    renders,   \* renders so far
    refused    \* attempts that failed since a socket was last open

vars == <<sock, socket, attempts, timers, renders, refused>>

TypeOK ==
    /\ sock \in [Sockets -> {"free", "connecting", "open"}]
    /\ socket \in Sockets \union {NoSocket}
    /\ attempts \in Nat
    /\ timers \in Nat
    /\ renders \in 0..MaxRenders
    /\ refused \in 0..MaxRefused

-----------------------------------------------------------------------------
(* Faulty variants of definitions below; no action uses them *)

\* connect() that only looks whether there is a socket.
IsConnectedSet == socket # NoSocket

\* onopen that does not reset the counter.
ResetNever == UNCHANGED attempts

\* onclose that clears a timeout instead of setting one, also when there is none.
ClearTimeout(s) == timers' = timers - 1

-----------------------------------------------------------------------------
(* connect() *)

IsConnected == socket # NoSocket /\ sock[socket] = "open"

NewSocket(s) == sock' = [sock EXCEPT ![s] = "connecting"] /\ socket' = s

\* The early return is for an open socket only: one that is still connecting is
\* replaced, and goes on living beside the new one.
ConnectCall ==
    \/ IsConnected /\ UNCHANGED <<sock, socket>>
    \/ /\ ~IsConnected
       /\ \E s \in Sockets \ {socket} : sock[s] = "free" /\ NewSocket(s)

\* The first render: the effect calls connect().
Init ==
    /\ \E s \in Sockets :
        /\ sock = [x \in Sockets |-> IF x = s THEN "connecting" ELSE "free"]
        /\ socket = s
    /\ attempts = 0 /\ timers = 0 /\ renders = 0 /\ refused = 0

\* onTransactionUpdate is a new function whenever the page renders, so the effect runs
\* again, and with it connect().
Render ==
    /\ renders < MaxRenders
    /\ renders' = renders + 1
    /\ ConnectCall
    /\ UNCHANGED <<attempts, timers, refused>>

-----------------------------------------------------------------------------
(* The callbacks of a socket *)

Reset == attempts' = 0

\* onopen
Open(s) ==
    /\ sock[s] = "connecting"
    /\ sock' = [sock EXCEPT ![s] = "open"]
    /\ Reset
    /\ refused' = 0
    /\ UNCHANGED <<socket, timers, renders>>

ScheduleReconnect(s) ==
    IF attempts < MaxReconnectAttempts THEN timers' = timers + 1 ELSE UNCHANGED timers

\* onclose of an attempt that failed
Refuse(s) ==
    /\ refused < MaxRefused
    /\ sock[s] = "connecting"
    /\ sock' = [sock EXCEPT ![s] = "free"]
    /\ ScheduleReconnect(s)
    /\ refused' = refused + 1
    /\ UNCHANGED <<socket, attempts, renders>>

\* onclose of an open connection, which API Gateway closes after two hours at the latest
Drop(s) ==
    /\ sock[s] = "open"
    /\ sock' = [sock EXCEPT ![s] = "free"]
    /\ ScheduleReconnect(s)
    /\ UNCHANGED <<socket, attempts, renders, refused>>

\* The timeout of onclose.
Reconnect ==
    /\ timers > 0
    /\ timers' = timers - 1
    /\ attempts' = attempts + 1
    /\ ConnectCall
    /\ UNCHANGED <<renders, refused>>

Next ==
    \/ Render
    \/ Reconnect
    \/ \E s \in Sockets : Open(s) \/ Refuse(s) \/ Drop(s)

Spec == Init /\ [][Next]_vars

\* Timeouts fire, and a connection attempt succeeds or fails.
Fairness ==
    /\ WF_vars(Reconnect)
    /\ \A s \in Sockets : WF_vars(Open(s) \/ Refuse(s))

FairSpec == Spec /\ Fairness

-----------------------------------------------------------------------------
(* Properties *)

Down == timers = 0 /\ \A s \in Sockets : sock[s] = "free"

\* The page is not silently offline: without a socket and without a timeout that will
\* make one, it has used up its attempts.
NeverSilentlyDown == Down => attempts >= MaxReconnectAttempts

\* However often connections are dropped, the page is connected again and again, as long
\* as it does not fail too often in a row.  Each render may leave a socket that uses up
\* an attempt, even after another one has opened, so the renders count like failures.
StaysConnected ==
    [](refused + renders < MaxReconnectAttempts) => []<>(\E s \in Sockets : sock[s] = "open")
=============================================================================
