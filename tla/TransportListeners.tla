--------------------------- MODULE TransportListeners ---------------------------
(* The listeners of the transports (tcp.ts, websocket.ts, webtransport.ts) with *)
(* the queue of accepted transports that two of them fill, and a consumer that  *)
(* iterates accept().                                                           *)
(*                                                                              *)
(* A TCP listener accepts when the consumer asks.  A WebSocket listener upgrades *)
(* a request in one step.  A WebTransport listener has a loop that starts a job  *)
(* for each incoming connection; the job accepts, upgrades and waits for the     *)
(* first stream, and close() may come between any two of these.                  *)
EXTENDS Integers, Sequences, FiniteSets, SequencesExt

CONSTANTS
    Peers,           \* connections that may come in
    ListenerKinds    \* SUBSET {"tcp", "websocket", "webtransport"}

ASSUME ListenerAssumption ==
    IsFiniteSet(Peers) /\ ListenerKinds \subseteq {"tcp", "websocket", "webtransport"}

VARIABLES
    listenerKind,
    listenerClosed,  \* #closed of the listener
    endpoint,        \* the socket, the HTTP server or the QUIC endpoint
    offered,         \* RpcAcceptedTransportQueue: #values and #closed
    peer,            \* per connection: where it is, and whether it is open
    taker,           \* the consumer's iterator
    incoming,        \* #runAcceptLoop of WebTransport
    shutting,        \* how far close() has come
    jobsAwaited      \* the snapshot of #accepting that close() waits for

listenerVars == <<listenerKind, listenerClosed, endpoint, offered, peer, taker,
                  incoming, shutting, jobsAwaited>>

Listens(kind) == listenerKind = kind

InJob == {"offered", "accepting", "upgrading", "stream", "refused", "reported"}

ListenersTypeOK ==
    /\ listenerKind \in ListenerKinds
    /\ listenerClosed \in BOOLEAN /\ endpoint \in {"open", "stopped", "closed"}
    /\ offered \in [values : Seq(Peers), closed : BOOLEAN]
    /\ peer \in [Peers -> [at : InJob \cup {"away", "queued", "dropping", "taken",
                                          "gone"},
                           open : BOOLEAN]]
    /\ taker \in {"idle", "pending", "given", "ended", "failed"}
    /\ incoming \in {"none", "waiting", "given", "reporting", "ended"}
    /\ shutting \in {"none", "server", "queue", "loop", "jobs", "done"}
    /\ jobsAwaited \subseteq Peers

ListenersInit ==
    /\ listenerKind \in ListenerKinds
    /\ listenerClosed = FALSE /\ endpoint = "open"
    /\ offered = [values |-> <<>>, closed |-> FALSE]
    /\ peer = [p \in Peers |-> [at |-> "away", open |-> FALSE]]
    /\ taker = "idle"
    /\ incoming = IF Listens("webtransport") THEN "waiting" ELSE "none"
    /\ shutting = "none" /\ jobsAwaited = {}

At(place) == {p \in Peers : peer[p].at = place}
\* #accepting, and the requests of the HTTP server that have no response yet.
Jobs == {p \in Peers : peer[p].at \in InJob \ {"offered"}}

Moves(p, to, isOpen) == peer' = [peer EXCEPT ![p] = [at |-> to, open |-> isOpen]]

\* close() and the loop stay where they are.
opened == <<listenerKind, listenerClosed, endpoint, incoming, shutting, jobsAwaited>>

(***************************************************************************)
(* RpcAcceptedTransportQueue and its consumer.                             *)
(***************************************************************************)
\* Broken form: push() does not look whether the queue was closed.
PushAnyway(p) ==
    IF taker = "pending"
    THEN taker' = "given" /\ Moves(p, "taken", TRUE) /\ UNCHANGED offered
    ELSE /\ offered' = [offered EXCEPT !.values = Append(@, p)]
         /\ Moves(p, "queued", TRUE) /\ UNCHANGED taker

\* push(), and what its callers do with a transport it refuses: they close it.
Push(p) ==
    IF offered.closed
    THEN Moves(p, "refused", TRUE) /\ UNCHANGED <<offered, taker>>
    ELSE IF taker = "pending"
    THEN taker' = "given" /\ Moves(p, "taken", TRUE) /\ UNCHANGED offered
    ELSE /\ offered' = [offered EXCEPT !.values = Append(@, p)]
         /\ Moves(p, "queued", TRUE) /\ UNCHANGED taker

\* close() of the queue: the waiting iterator ends, and the close() of what nobody
\* has taken is started.
CloseOffered ==
    /\ offered' = [values |-> <<>>, closed |-> TRUE]
    /\ taker' = IF taker = "pending" THEN "ended" ELSE taker
    /\ peer' = [p \in Peers |->
           IF peer[p].at = "queued" THEN [peer[p] EXCEPT !.at = "dropping"] ELSE peer[p]]

\* #next(), or accept() of the TCP socket.
TakerAsks ==
    /\ taker \in {"idle", "given"}
    /\ IF offered.values # <<>>
       THEN /\ taker' = "given"
            /\ offered' = [offered EXCEPT !.values = Tail(@)]
            /\ peer' = [peer EXCEPT ![Head(offered.values)].at = "taken"]
       ELSE /\ taker' = IF offered.closed \/ (Listens("tcp") /\ listenerClosed)
                        THEN "ended" ELSE "pending"
            /\ UNCHANGED <<offered, peer>>
    /\ UNCHANGED opened

(***************************************************************************)
(* TCP.                                                                    *)
(***************************************************************************)
\* A connection that the socket had accepted is yielded even after close().
TcpAccepts(p) ==
    /\ Listens("tcp") /\ taker = "pending"
    /\ \/ /\ peer[p].at = "away" /\ endpoint = "open"
          /\ Moves(p, "offered", TRUE) /\ UNCHANGED taker
       \/ peer[p].at = "offered" /\ Moves(p, "taken", TRUE) /\ taker' = "given"
    /\ UNCHANGED <<offered, opened>>

\* The accept fails: behind close() the iterator ends, before it the error goes to
\* the consumer, and that ends the iterator as well.
TcpAcceptFails ==
    /\ Listens("tcp") /\ taker = "pending" /\ At("offered") = {}
    /\ taker' = IF listenerClosed THEN "ended" ELSE "failed"
    /\ UNCHANGED <<offered, peer, opened>>

TcpClose ==
    /\ Listens("tcp") /\ ~listenerClosed
    /\ listenerClosed' = TRUE /\ endpoint' = "closed" /\ shutting' = "done"
    /\ UNCHANGED <<listenerKind, offered, peer, taker, incoming, jobsAwaited>>

(***************************************************************************)
(* WebSocket: handle(), and close() of the listener around it.              *)
(***************************************************************************)
\* A request is refused, fails to upgrade, which is reported, or is upgraded.
Handle(p) ==
    /\ Listens("websocket") /\ peer[p].at = "away" /\ endpoint # "closed"
    /\ IF offered.closed
       THEN Moves(p, "gone", FALSE) /\ UNCHANGED <<offered, taker>>
       ELSE \/ Moves(p, "gone", FALSE) /\ UNCHANGED <<offered, taker>>
            \/ Moves(p, "reported", FALSE) /\ UNCHANGED <<offered, taker>>
            \/ Push(p)
    /\ UNCHANGED opened

\* server.shutdown() lets the requests in flight finish, and takes no more when it
\* is done.
WebSocketClose ==
    /\ Listens("websocket") /\ ~listenerClosed
    /\ listenerClosed' = TRUE /\ endpoint' = "stopped" /\ shutting' = "server"
    /\ UNCHANGED <<listenerKind, offered, peer, taker, incoming, jobsAwaited>>

ServerStopped ==
    /\ shutting = "server" /\ Jobs = {}
    /\ endpoint' = "closed" /\ shutting' = "queue"
    /\ CloseOffered
    /\ UNCHANGED <<listenerKind, listenerClosed, incoming, jobsAwaited>>

WebSocketClosed ==
    /\ Listens("websocket") /\ shutting = "queue" /\ At("dropping") = {}
    /\ shutting' = "done"
    /\ UNCHANGED <<listenerKind, listenerClosed, endpoint, offered, peer, taker,
                   incoming, jobsAwaited>>

(***************************************************************************)
(* WebTransport: the accept loop and its jobs.                              *)
(***************************************************************************)
LoopMoves(to) ==
    /\ incoming' = to
    /\ UNCHANGED <<listenerKind, listenerClosed, endpoint, offered, taker, shutting,
                   jobsAwaited>>

\* incoming() resolves, or rejects: as it must once the listener is stopped.
Arrives(p) ==
    /\ incoming = "waiting" /\ endpoint = "open" /\ peer[p].at = "away"
    /\ Moves(p, "offered", TRUE) /\ LoopMoves("given")

IncomingFails ==
    /\ incoming = "waiting"
    /\ LoopMoves(IF listenerClosed THEN "ended" ELSE "reporting") /\ UNCHANGED peer

\* #trackAcceptIncoming, and the condition of the loop.
Tracks(p) ==
    /\ incoming = "given" /\ peer[p].at = "offered"
    /\ Moves(p, "accepting", peer[p].open)
    /\ LoopMoves(IF listenerClosed THEN "ended" ELSE "waiting")

LoopReported ==
    /\ incoming = "reporting"
    /\ LoopMoves(IF listenerClosed THEN "ended" ELSE "waiting") /\ UNCHANGED peer

JobMoves(p, to, isOpen) == Moves(p, to, isOpen) /\ UNCHANGED <<offered, taker, opened>>

JobAccepts(p) ==
    /\ peer[p].at = "accepting"
    /\ \/ peer[p].open /\ JobMoves(p, "upgrading", TRUE)
       \/ JobMoves(p, IF listenerClosed THEN "gone" ELSE "reported", FALSE)

\* The upgrade fails, or the listener was closed meanwhile, or the path is another
\* one: each closes the connection.
JobUpgrades(p) ==
    /\ peer[p].at = "upgrading"
    /\ \/ JobMoves(p, "reported", FALSE)
       \/ /\ peer[p].open
          /\ JobMoves(p, IF listenerClosed THEN "gone" ELSE "stream", ~listenerClosed)

\* readFirstBidirectionalStream: a stream comes from a session that is open.
FirstStreamCame(p) == peer[p].open

\* Broken form: the session whose first stream did not come is left to itself.
JobForgets(p) ==
    /\ peer[p].at = "stream"
    /\ \/ JobMoves(p, "reported", peer[p].open)
       \/ FirstStreamCame(p) /\ Push(p) /\ UNCHANGED opened

\* acceptAccepted: the first stream comes, or the wait for it fails.
JobGetsStream(p) ==
    /\ peer[p].at = "stream"
    /\ \/ JobMoves(p, "reported", FALSE)
       \/ FirstStreamCame(p) /\ Push(p) /\ UNCHANGED opened

\* The report, or the close() of the refused transport, has been awaited.
JobEnds(p) ==
    /\ peer[p].at \in {"reported", "refused"}
    /\ JobMoves(p, "gone", IF peer[p].at = "refused" THEN FALSE ELSE peer[p].open)

WebTransportClose ==
    /\ Listens("webtransport") /\ ~listenerClosed
    /\ listenerClosed' = TRUE /\ endpoint' = "stopped" /\ shutting' = "queue"
    /\ CloseOffered
    /\ UNCHANGED <<listenerKind, incoming, jobsAwaited>>

\* endpoint.close() ends every session it has, those of the consumer too.
EndpointCloses ==
    /\ Listens("webtransport") /\ shutting = "queue" /\ At("dropping") = {}
    /\ endpoint' = "closed" /\ shutting' = "loop"
    /\ peer' = [p \in Peers |-> [peer[p] EXCEPT !.open = FALSE]]
    /\ UNCHANGED <<listenerKind, listenerClosed, offered, taker, incoming, jobsAwaited>>

\* Broken form: the jobs are looked at before the loop has ended.
SnapshotsEarly ==
    /\ shutting = "loop"
    /\ shutting' = "jobs" /\ jobsAwaited' = Jobs
    /\ UNCHANGED <<listenerKind, listenerClosed, endpoint, offered, peer, taker,
                   incoming>>

\* The loop has ended, and the jobs are waited for that are there now.
LoopAwaited ==
    /\ shutting = "loop" /\ incoming = "ended"
    /\ shutting' = "jobs" /\ jobsAwaited' = Jobs
    /\ UNCHANGED <<listenerKind, listenerClosed, endpoint, offered, peer, taker,
                   incoming>>

JobsAwaited ==
    /\ shutting = "jobs" /\ jobsAwaited \cap Jobs = {}
    /\ shutting' = "done"
    /\ UNCHANGED <<listenerKind, listenerClosed, endpoint, offered, peer, taker,
                   incoming, jobsAwaited>>

(***************************************************************************)
(* A transport that nobody took has closed; one end of a connection may     *)
(* close it at any time.                                                    *)
(***************************************************************************)
DropEnds(p) == peer[p].at = "dropping" /\ JobMoves(p, "gone", FALSE)
PeerLeaves(p) == peer[p].open /\ JobMoves(p, peer[p].at, FALSE)

JobStep(p) == JobAccepts(p) \/ JobUpgrades(p) \/ JobEnds(p) \/ DropEnds(p)
LoopStep == LoopReported \/ \E p \in Peers : Tracks(p)
CloseStep ==
    ServerStopped \/ WebSocketClosed \/ EndpointCloses \/ LoopAwaited \/ JobsAwaited
TakerStep == TcpAcceptFails \/ \E p \in Peers : TcpAccepts(p)

ListenersNext ==
    \/ TakerAsks \/ TakerStep \/ LoopStep \/ IncomingFails \/ CloseStep
    \/ TcpClose \/ WebSocketClose \/ WebTransportClose
    \/ \E p \in Peers : \/ Handle(p) \/ Arrives(p) \/ JobStep(p) \/ JobGetsStream(p)
                        \/ PeerLeaves(p)

\* What is awaited ends: a stopped listener rejects, a closed endpoint ends the wait
\* for a stream, callbacks return and transports close.
ListenersFairness ==
    /\ WF_listenerVars(CloseStep)
    /\ WF_listenerVars(LoopStep \/ (listenerClosed /\ IncomingFails))
    /\ WF_listenerVars(listenerClosed /\ TakerStep)
    /\ \A p \in Peers :
           WF_listenerVars(JobStep(p) \/ (endpoint = "closed" /\ JobGetsStream(p)))

ListenersSpec == ListenersInit /\ [][ListenersNext]_listenerVars /\ ListenersFairness

(***************************************************************************)
(* Properties.                                                             *)
(***************************************************************************)
\* A connection that is open has an owner: a job, the queue, a close() that is under
\* way, or the consumer.  The queue holds each of its connections once, and behind
\* close() of the listener the consumer is the only owner left.
EveryPeerOwned ==
    /\ \A p \in Peers : peer[p].open => peer[p].at \notin {"away", "gone"}
    /\ ToSet(offered.values) = At("queued") /\ IsInjective(offered.values)
    /\ offered.closed => offered.values = <<>>
    /\ shutting = "done" =>
           \A p \in Peers : peer[p].at \in {"away", "taken", "gone"}
                                \/ (Listens("tcp") /\ peer[p].at = "offered")

\* Once its queue is closed a listener gives out no connection; what TCP yields then
\* had been accepted before.
NothingTakenLate ==
    [][\A p \in Peers :
           peer[p].at # "taken" /\ peer'[p].at = "taken" =>
               /\ ~offered.closed
               /\ listenerClosed => peer[p].at # "away" \/ shutting = "server"
      ]_listenerVars

\* close() of a listener returns, and the iterator that waits for it ends.
ListenerEnds ==
    /\ listenerClosed ~> shutting = "done"
    /\ listenerClosed /\ taker = "pending" ~> taker # "pending"
=============================================================================
