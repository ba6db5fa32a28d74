--------------------------- MODULE TransportConnects ---------------------------
(* How a caller gets a connection: connect() of the transports (tcp.ts,         *)
(* websocket.ts, webtransport.ts) with their timers, the attempts of            *)
(* connectWithReconnect around it (reconnect_wrappers.ts), and what is built on *)
(* the transport before the caller gets anything: the bootstrap of a client      *)
(* (connect() of service.ts, connectAndBootstrap) or a session.  Each of these   *)
(* steps can fail while a connection is open, or is still to open.               *)
EXTENDS Integers, FiniteSets

CONSTANTS
    ConnectKinds,    \* SUBSET {"tcp", "websocket", "webtransport"}
    MaxDials,        \* attempts that the reconnect policy allows
    ConnectTimeouts  \* connectTimeoutMs and streamOpenTimeoutMs are set

ASSUME ConnectAssumption ==
    /\ ConnectKinds \subseteq {"tcp", "websocket", "webtransport"}
    /\ MaxDials \in Nat \ {0} /\ ConnectTimeouts \in BOOLEAN

VARIABLES
    connectKind,
    layer,           \* what is built on the transport: "none", "client", "session"
    dialing,         \* how far the connect call has come
    dial,            \* the number of the attempt, and of its socket
    socket,          \* the sockets of all attempts
    timer,           \* the timer of the attempt
    gaveUp           \* TCP: the attempts whose `resolved` was set by their timer

connectVars == <<connectKind, layer, dialing, dial, socket, timer, gaveUp>>

Sockets == 1 .. MaxDials

ConnectsTypeOK ==
    /\ connectKind \in ConnectKinds /\ layer \in {"none", "client", "session"}
    /\ dialing \in {"idle", "connecting", "streaming", "connected", "unwinding",
                    "waiting", "ready", "failed", "closed"}
    /\ dial \in 0 .. MaxDials
    /\ socket \in [Sockets -> {"unused", "opening", "open", "closed"}]
    /\ timer \in {"off", "armed"}
    /\ gaveUp \subseteq Sockets

ConnectsInit ==
    /\ connectKind \in ConnectKinds /\ layer \in {"none", "client", "session"}
    /\ dialing = "idle" /\ dial = 0
    /\ socket = [s \in Sockets |-> "unused"]
    /\ timer = "off" /\ gaveUp = {}

Armed == IF ConnectTimeouts THEN "armed" ELSE "off"
Fixed == UNCHANGED <<connectKind, layer>>

\* connectWithReconnect: the first attempt, and the next after a failure.
Dial ==
    /\ dialing = "idle" \/ (dialing = "waiting" /\ dial < MaxDials)
    /\ dial' = dial + 1
    /\ socket' = [socket EXCEPT ![dial + 1] = "opening"]
    /\ dialing' = "connecting" /\ timer' = Armed
    /\ UNCHANGED gaveUp /\ Fixed

\* The attempt has failed: another one, or the error goes to the caller.
Failed == dialing' = IF dial < MaxDials THEN "waiting" ELSE "failed"

\* The policy may also refuse another attempt, or the caller abort the wait.
WaitGivenUp ==
    /\ dialing = "waiting" /\ dialing' = "failed"
    /\ UNCHANGED <<dial, socket, timer, gaveUp>> /\ Fixed

\* Broken form: what opens after the timeout is not looked at.
StaysOpen(s) == "open"

\* The then-handler next to the race of TcpTransport.connect: a connection that
\* comes after the timeout is closed.
LateConnection(s) == IF s \in gaveUp THEN "closed" ELSE "open"

\* The connection opens.  All reactions to it run before another timer can fire.
Opens(s) ==
    /\ socket[s] = "opening"
    /\ socket' = [socket EXCEPT ![s] = LateConnection(s)]
    /\ IF s # dial \/ dialing # "connecting"
       THEN UNCHANGED <<dialing, timer>>
       ELSE IF connectKind = "webtransport"
       THEN dialing' = "streaming" /\ timer' = Armed
       ELSE dialing' = "connected" /\ timer' = "off"
    /\ UNCHANGED <<dial, gaveUp>> /\ Fixed

\* The connection cannot be made.
DialFails(s) ==
    /\ socket[s] = "opening"
    /\ socket' = [socket EXCEPT ![s] = "closed"]
    /\ IF s = dial /\ dialing = "connecting"
       THEN Failed /\ timer' = "off" ELSE UNCHANGED <<dialing, timer>>
    /\ UNCHANGED <<dial, gaveUp>> /\ Fixed

\* WebTransport: createBidirectionalStream ends; a failure closes the session.
StreamOpened ==
    /\ dialing = "streaming"
    /\ timer' = "off"
    /\ \/ socket[dial] = "open" /\ dialing' = "connected" /\ UNCHANGED socket
       \/ Failed /\ socket' = [socket EXCEPT ![dial] = "closed"]
    /\ UNCHANGED <<dial, gaveUp>> /\ Fixed

\* The timer of TCP can only leave a mark; the others have a socket to close.
ConnectTimerFires ==
    /\ timer = "armed" /\ dialing \in {"connecting", "streaming"}
    /\ timer' = "off" /\ Failed
    /\ IF connectKind = "tcp"
       THEN gaveUp' = gaveUp \cup {dial} /\ UNCHANGED socket
       ELSE socket' = [socket EXCEPT ![dial] = "closed"] /\ UNCHANGED gaveUp
    /\ UNCHANGED dial /\ Fixed

(***************************************************************************)
(* What is built on the transport.                                         *)
(***************************************************************************)
\* The caller has the bare transport, or the bootstrap or the session succeeds.
Built ==
    /\ dialing = "connected" /\ dialing' = "ready"
    /\ UNCHANGED <<dial, socket, timer, gaveUp>> /\ Fixed

BuildFails ==
    /\ dialing = "connected" /\ layer # "none" /\ dialing' = "unwinding"
    /\ UNCHANGED <<dial, socket, timer, gaveUp>> /\ Fixed

\* The close is awaited before the error goes to the caller, whatever becomes of it.
Unwound ==
    /\ dialing = "unwinding" /\ dialing' = "failed"
    /\ socket' = [socket EXCEPT ![dial] = "closed"]
    /\ UNCHANGED <<dial, timer, gaveUp>> /\ Fixed

\* close() and the dispose methods of the stub, or of the bare transport.
StubCloses ==
    /\ dialing = "ready" /\ dialing' = "closed"
    /\ socket' = [socket EXCEPT ![dial] = "closed"]
    /\ UNCHANGED <<dial, timer, gaveUp>> /\ Fixed

OtherEndCloses ==
    /\ dial > 0 /\ socket[dial] = "open"
    /\ socket' = [socket EXCEPT ![dial] = "closed"]
    /\ UNCHANGED <<dialing, dial, timer, gaveUp>> /\ Fixed

ConnectsNext ==
    \/ Dial \/ WaitGivenUp \/ StreamOpened \/ ConnectTimerFires
    \/ Built \/ BuildFails \/ Unwound \/ StubCloses \/ OtherEndCloses
    \/ \E s \in Sockets : Opens(s) \/ DialFails(s)

\* A timer that is armed fires, and the operating system settles what it was asked.
ConnectsFairness ==
    /\ WF_connectVars(ConnectTimerFires)
    /\ \A s \in Sockets : WF_connectVars(s \in gaveUp /\ (Opens(s) \/ DialFails(s)))

ConnectsSpec == ConnectsInit /\ [][ConnectsNext]_connectVars /\ ConnectsFairness

(***************************************************************************)
(* Properties.                                                             *)
(***************************************************************************)
\* An open socket belongs to the current attempt, and to a call that has not failed:
\* neither a timeout nor a failed bootstrap leaves one behind.
NoSocketLost ==
    \A s \in Sockets :
        socket[s] = "open" =>
            s = dial /\ dialing \in {"streaming", "connected", "unwinding", "ready"}

\* With its timeouts set a connect call does not wait for ever, and what it gave up
\* is settled.
ConnectsSettle ==
    /\ ConnectTimeouts =>
           (dialing \in {"connecting", "streaming"} ~>
            dialing \notin {"connecting", "streaming"})
    /\ \A s \in Sockets : s \in gaveUp ~> socket[s] = "closed"
=============================================================================
