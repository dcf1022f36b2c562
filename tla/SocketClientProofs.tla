------------------------ MODULE SocketClientProofs ------------------------
(***************************************************************************)
(* Theorems about SocketClient: its types, and that the page is never      *)
(* offline without having used up its attempts.                            *)
(***************************************************************************)
EXTENDS SocketClient, TLAPS

\* After connect() there is a socket that is open or connecting.
LEMMA ConnectedAfterCall ==
    ASSUME TypeOK, ConnectCall
    PROVE  /\ sock' \in [Sockets -> {"free", "connecting", "open"}]
           /\ socket' \in Sockets \union {NoSocket}
           /\ \E s \in Sockets : sock'[s] # "free"
<1>1. CASE IsConnected /\ UNCHANGED <<sock, socket>>
  BY <1>1 DEF IsConnected, TypeOK
<1>2. ASSUME NEW s \in Sockets, NewSocket(s)
      PROVE  /\ sock' \in [Sockets -> {"free", "connecting", "open"}]
             /\ socket' \in Sockets /\ sock'[s] # "free"
  BY <1>2 DEF NewSocket, TypeOK
<1> QED BY <1>1, <1>2 DEF ConnectCall

\* onclose sets a timeout unless the attempts are used up.
LEMMA TimerAfterClose ==
    ASSUME TypeOK, NEW s \in Sockets, ScheduleReconnect(s)
    PROVE  timers' \in Nat /\ (timers' > 0 \/ attempts >= MaxReconnectAttempts)
BY ClientBoundsAssumption DEF ScheduleReconnect, TypeOK

\* Each callback keeps the types and leaves a socket, a timeout, or no attempts.
LEMMA ClientStep ==
    TypeOK /\ NeverSilentlyDown /\ [Next]_vars => TypeOK' /\ NeverSilentlyDown'
<1> SUFFICES ASSUME TypeOK, NeverSilentlyDown, [Next]_vars
             PROVE  TypeOK' /\ NeverSilentlyDown'
  OBVIOUS
<1>1. CASE Render
  <2>1. ConnectCall /\ renders' \in 0..MaxRenders /\ UNCHANGED <<attempts, timers, refused>>
    BY <1>1, ClientBoundsAssumption DEF Render, TypeOK
  <2> QED BY <2>1, ConnectedAfterCall DEF TypeOK, NeverSilentlyDown, Down
<1>2. CASE Reconnect
  <2>1. /\ ConnectCall /\ timers' \in Nat /\ attempts' \in Nat
        /\ UNCHANGED <<renders, refused>>
    BY <1>2 DEF Reconnect, TypeOK
  <2> QED BY <2>1, ConnectedAfterCall DEF TypeOK, NeverSilentlyDown, Down
<1>3. ASSUME NEW s \in Sockets, Open(s) PROVE TypeOK' /\ NeverSilentlyDown'
  <2>1. sock'[s] = "open" /\ TypeOK'
    BY <1>3, ClientBoundsAssumption DEF Open, Reset, TypeOK
  <2> QED BY <2>1 DEF NeverSilentlyDown, Down
<1>4. ASSUME NEW s \in Sockets, Refuse(s) \/ Drop(s) PROVE TypeOK' /\ NeverSilentlyDown'
  <2>1. /\ ScheduleReconnect(s) /\ attempts' = attempts
        /\ socket' = socket /\ renders' = renders
        /\ sock' = [sock EXCEPT ![s] = "free"]
    BY <1>4 DEF Refuse, Drop
  <2>2. refused' \in 0..MaxRefused
    BY <1>4, ClientBoundsAssumption DEF Refuse, Drop, TypeOK
  <2>3. TypeOK'
    BY <2>1, <2>2, TimerAfterClose DEF TypeOK
  <2> QED BY <2>1, <2>3, TimerAfterClose DEF NeverSilentlyDown, Down
<1>5. CASE UNCHANGED vars
  BY <1>5 DEF vars, TypeOK, NeverSilentlyDown, Down
<1> QED BY <1>1, <1>2, <1>3, <1>4, <1>5 DEF Next

\* The types hold from the start, and with them that the first render has made a socket.
LEMMA ClientInit == Init => TypeOK /\ NeverSilentlyDown
<1> SUFFICES ASSUME Init PROVE TypeOK /\ NeverSilentlyDown
  OBVIOUS
<1>1. PICK s \in Sockets :
        /\ sock = [x \in Sockets |-> IF x = s THEN "connecting" ELSE "free"]
        /\ socket = s
  BY DEF Init
<1>2. sock[s] = "connecting" /\ TypeOK
  BY <1>1, ClientBoundsAssumption DEF Init, TypeOK
<1> QED BY <1>2 DEF NeverSilentlyDown, Down

\* Every reachable state has the declared types: no callback takes a timeout that was not
\* set, and this.socket is a socket of the page.
THEOREM ClientTypeCorrect == Spec => []TypeOK
BY ClientInit, ClientStep, PTL DEF Spec

\* connect(), onopen and onclose together never leave the page without a socket and
\* without a reconnection on the way, unless reconnectAttempts has reached its limit,
\* however many sockets there are at a time.
THEOREM ReconnectWorks == Spec => []NeverSilentlyDown
BY ClientInit, ClientStep, PTL DEF Spec
=============================================================================
