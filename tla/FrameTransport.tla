---------------------------- MODULE FrameTransport ----------------------------
(* TcpTransport, WebSocketTransport, WebTransportTransport and                 *)
(* MessagePortTransport (src/rpc/transports/) over the outbound queue and the  *)
(* close signal they share (internal/transport_internal.ts).                   *)
(*                                                                             *)
(* TCP and WebTransport read a byte stream in a loop that awaits the handler   *)
(* of each frame; the other two chain a handler to every message event.  All   *)
(* four write their queue in a drain loop.  The connection below may go at any *)
(* time, and close() may be called by the application or by the handler of a   *)
(* frame, which awaits it.                                                     *)
EXTENDS Integers, Sequences, FiniteSets, SequencesExt

CONSTANTS
    Transports,               \* kinds of transport
    MaxIn, MaxOut,            \* bounds on frames received and sent
    MaxQueuedOutboundFrames

TransportKinds == {"tcp", "webtransport", "websocket", "messagePort"}

ASSUME TransportAssumption ==
    /\ Transports \subseteq TransportKinds
    /\ {MaxIn, MaxOut, MaxQueuedOutboundFrames} \subseteq Nat

VARIABLES
    transport,       \* its kind, whether timeouts are set, whether it has onError
    transportStarted,  \* #started
    transportClosed,   \* #closed
    remoteClosed,    \* #remoteClosed, #sessionClosed or #socketClosed
    listening,       \* listeners attached
    notified,        \* how often the close signal and onClose were given
    link,            \* the connection, socket, session or port: open, closing or
                     \* closed
    reader,          \* the read loop or the inbound chain
    inbound,         \* received and not handled yet
    received,        \* number of frames received
    handled,         \* ghost: the frames handed to onFrame
    sending,         \* per send(): how far it has come
    queue, inflight, drain,
    wire,            \* ghost: what was written, and whether all of it
    closer           \* per caller of close(): how far it has come

lifeVars == <<transport, transportStarted, transportClosed, remoteClosed, listening, notified, link>>
inVars == <<reader, inbound, received, handled>>
outVars == <<sending, queue, inflight, drain, wire>>
transportVars == <<lifeVars, inVars, outVars, closer>>

Sends == 1 .. MaxOut
NoFrame == 0
Callers == {"app", "handler"}

\* A stream transport works the same with an onError or without; a port has no
\* timeout to close.
TransportOptions ==
    {t \in [kind : Transports, timeouts : BOOLEAN, onError : BOOLEAN] :
        IF t.kind \in {"tcp", "webtransport"} THEN t.onError
        ELSE t.kind = "messagePort" => t.timeouts}

TransportTypeOK ==
    /\ transport \in TransportOptions
    /\ {transportStarted, transportClosed, remoteClosed, listening} \subseteq BOOLEAN
    /\ notified \in 0 .. 1
    /\ link \in {"open", "closing", "closed"}
    /\ reader \in {"none", "reading", "frames", "handling", "muted", "ended"}
    /\ inbound \in Seq(1 .. MaxIn) /\ received \in 0 .. MaxIn
    /\ handled \in Seq(1 .. MaxIn)
    /\ sending \in [Sends -> {"idle", "queued", "writing", "sent", "rejected"}]
    /\ queue \in Seq(Sends) /\ inflight \in Sends \cup {NoFrame}
    /\ drain \in {"none", "loop", "writing", "ending"}
    /\ wire \in Seq([frame : Sends, whole : BOOLEAN])
    /\ closer \in [Callers -> {"none", "aborting", "waiting", "done", "gaveUp"}]

TransportInit ==
    /\ transport \in TransportOptions
    /\ transportStarted = FALSE /\ transportClosed = FALSE /\ remoteClosed = FALSE
    /\ listening = FALSE /\ notified = 0 /\ link = "open"
    /\ reader = "none" /\ inbound = <<>> /\ received = 0 /\ handled = <<>>
    /\ sending = [s \in Sends |-> "idle"]
    /\ queue = <<>> /\ inflight = NoFrame /\ drain = "none" /\ wire = <<>>
    /\ closer = [c \in Callers |-> "none"]

Is(kinds) == transport.kind \in kinds
StreamKinds == {"tcp", "webtransport"}
EventKinds == {"websocket", "messagePort"}

\* #closeNotified
NotifyClose == notified' = IF notified = 0 THEN 1 ELSE notified

\* rejectQueued(), together with the rejection of a frame that was being written.
Reject(frames) ==
    /\ sending' = [s \in Sends |-> IF s \in frames THEN "rejected" ELSE sending[s]]
    /\ queue' = <<>>
RejectQueued == /\ Reject(Range(queue))
                /\ UNCHANGED <<inflight, drain, wire>>

(***************************************************************************)
(* Receiving.                                                              *)
(***************************************************************************)
\* A closed transport does not start, nor a WebTransport whose session has ended.
StartTransport ==
    /\ ~transportStarted /\ ~transportClosed
    /\ Is({"webtransport"}) => ~remoteClosed
    /\ transportStarted' = TRUE
    /\ listening' = Is(EventKinds)
    /\ reader' = IF Is(StreamKinds) THEN "reading" ELSE "frames"
    /\ UNCHANGED <<transport, transportClosed, remoteClosed, notified, link, inbound,
                   received, handled, outVars, closer>>

\* A chunk with some frames is read, or a message event comes.
Receive(n) ==
    /\ received + n <= MaxIn /\ link # "closed"
    /\ IF Is(StreamKinds)
       THEN /\ reader = "reading" /\ link = "open"
            /\ reader' = "frames"
       ELSE /\ listening /\ n = 1
            /\ UNCHANGED reader
    /\ received' = received + n
    /\ inbound' = inbound \o [i \in 1 .. n |-> received + i]
    /\ UNCHANGED <<lifeVars, handled, outVars, closer>>

HandleFrame ==
    /\ reader = "frames" /\ inbound # <<>>
    /\ reader' = "handling"
    /\ handled' = Append(handled, Head(inbound)) /\ inbound' = Tail(inbound)
    /\ UNCHANGED <<lifeVars, received, outVars, closer>>

\* A handler that awaits close() does not end before.
HandlerWaits == closer["handler"] \in {"aborting", "waiting"}

HandlerEnds ==
    /\ reader = "handling" /\ ~HandlerWaits
    /\ reader' = "frames"
    /\ UNCHANGED <<lifeVars, inbound, received, handled, outVars, closer>>

\* A message whose handler fails is reported; without an onError the report is
\* thrown, and the chain stays rejected: later messages are not handled.
HandlerFails ==
    /\ Is(EventKinds) /\ reader = "handling" /\ ~HandlerWaits
    /\ reader' = IF transport.onError THEN "frames" ELSE "muted"
    /\ UNCHANGED <<lifeVars, inbound, received, handled, outVars, closer>>

\* The inner loop empties the framer without a look at #closed.
FramesDone ==
    /\ Is(StreamKinds) /\ reader = "frames" /\ inbound = <<>>
    /\ reader' = IF transportClosed THEN "ended" ELSE "reading"
    /\ UNCHANGED <<lifeVars, inbound, received, handled, outVars, closer>>

\* #markRemoteClosed, or #handleReadStreamClosed with #handleSessionClosed.
RemoteClosed ==
    /\ remoteClosed' = TRUE /\ link' = "closed"
    /\ transportClosed' = (transportClosed \/ Is({"tcp"}))
    /\ NotifyClose /\ RejectQueued

\* The read loop ends: end of stream, a read that fails, bytes that are no frame,
\* a read that is idle too long, or a handler that failed.
ReadEnds ==
    /\ Is(StreamKinds)
    /\ reader \in {"reading", "frames"} \/ (reader = "handling" /\ ~HandlerWaits)
    /\ reader' = "ended" /\ inbound' = <<>>
    /\ RemoteClosed
    /\ UNCHANGED <<transport, transportStarted, listening, received, handled, closer>>

\* The other end begins to close the socket.
PeerCloses ==
    /\ Is({"websocket"}) /\ link = "open"
    /\ link' = "closing"
    /\ UNCHANGED <<transport, transportStarted, transportClosed, remoteClosed, listening, notified,
                   inVars, outVars, closer>>

\* The WebTransport session ends, or the socket: without listeners nobody sees it.
LinkCloses ==
    /\ Is({"webtransport", "websocket"}) /\ link # "closed"
    /\ IF Is({"webtransport"}) \/ listening
       THEN RemoteClosed
       ELSE /\ link' = "closed"
            /\ UNCHANGED <<remoteClosed, transportClosed, notified, outVars>>
    /\ UNCHANGED <<transport, transportStarted, listening, inVars, closer>>

(***************************************************************************)
(* Sending.                                                                *)
(***************************************************************************)
\* #ensureDrainLoop()
EnsureDrainLoop == drain' = IF drain = "none" THEN "loop" ELSE drain

Sendable == /\ transportStarted /\ ~transportClosed
            /\ Is(StreamKinds) => ~remoteClosed
            /\ Is({"websocket"}) => link = "open"

\* Broken form: a frame that is being written does not count.
QueueFullNotInflight == Len(queue) + 1 > MaxQueuedOutboundFrames

\* assertCapacity(): a frame that is being written still counts.
QueueFull ==
    Len(queue) + (IF inflight = NoFrame THEN 0 ELSE 1) + 1 > MaxQueuedOutboundFrames

Send(s) ==
    /\ sending[s] = "idle" /\ \A r \in Sends : r < s => sending[r] # "idle"
    /\ IF Sendable /\ ~QueueFull
       THEN /\ sending' = [sending EXCEPT ![s] = "queued"]
            /\ queue' = Append(queue, s)
            /\ EnsureDrainLoop
       ELSE /\ sending' = [sending EXCEPT ![s] = "rejected"]
            /\ UNCHANGED <<queue, drain>>
    /\ UNCHANGED <<lifeVars, inVars, inflight, wire, closer>>

\* What the loops of #drainOutbound look at.
Drains == ~transportClosed /\ queue # <<>> /\ (Is({"webtransport"}) => ~remoteClosed)

Dequeue ==
    /\ drain = "loop" /\ Drains /\ ~Is({"messagePort"})
    /\ inflight' = Head(queue) /\ queue' = Tail(queue)
    /\ sending' = [sending EXCEPT ![Head(queue)] = "writing"]
    /\ drain' = "writing"
    /\ UNCHANGED <<lifeVars, inVars, wire, closer>>

DrainLoopExits ==
    /\ drain = "loop" /\ ~Drains
    /\ drain' = "ending"
    /\ UNCHANGED <<lifeVars, inVars, sending, queue, inflight, wire, closer>>

\* A port posts in the step that takes the frame.
PostMessage ==
    /\ drain = "loop" /\ Drains /\ Is({"messagePort"})
    /\ \/ /\ wire' = Append(wire, [frame |-> Head(queue), whole |-> TRUE])
          /\ sending' = [sending EXCEPT ![Head(queue)] = "sent"]
          /\ queue' = Tail(queue)
          /\ UNCHANGED drain
       \/ /\ Reject(Range(queue))
          /\ drain' = "ending"
          /\ UNCHANGED wire
    /\ UNCHANGED <<lifeVars, inVars, inflight, closer>>

\* The frame is written: a socket is asked until it is open and has room.
WriteDone ==
    /\ drain = "writing" /\ link = "open"
    /\ wire' = Append(wire, [frame |-> inflight, whole |-> TRUE])
    /\ sending' = [sending EXCEPT ![inflight] = "sent"]
    /\ inflight' = NoFrame /\ drain' = "loop"
    /\ UNCHANGED <<lifeVars, inVars, queue, closer>>

\* A write fails or takes too long: what it left on the wire may be nothing, all
\* of the frame (the write goes on behind the timeout) or, over TCP, a part.
\* Everything queued behind it is rejected, and the connection stays as it is.
WriteFails ==
    /\ drain = "writing"
    /\ \/ UNCHANGED wire
       \/ \E whole \in BOOLEAN :
              /\ Is(StreamKinds) /\ (whole \/ Is({"tcp"}))
              /\ wire' = Append(wire, [frame |-> inflight, whole |-> whole])
    /\ Reject(Range(queue) \cup {inflight})
    /\ inflight' = NoFrame /\ drain' = "ending"
    /\ UNCHANGED <<lifeVars, inVars, closer>>

\* Broken form: what was queued while the loop was ending waits for the next send.
DrainFinallyStops ==
    /\ drain = "ending"
    /\ drain' = "none"
    /\ UNCHANGED <<lifeVars, inVars, sending, queue, inflight, wire, closer>>

\* The finally clause: a frame may have been queued since the loop's last look.
DrainFinally ==
    /\ drain = "ending"
    /\ drain' = IF queue # <<>> /\ ~transportClosed THEN "loop" ELSE "none"
    /\ UNCHANGED <<lifeVars, inVars, sending, queue, inflight, wire, closer>>

(***************************************************************************)
(* Closing.                                                                *)
(***************************************************************************)
CallsClose(c) == closer[c] = "none" /\ (c = "handler" => reader = "handling")

\* A second caller returns at once.
CloseAgain(c) ==
    /\ CallsClose(c) /\ transportClosed
    /\ closer' = [closer EXCEPT ![c] = "gaveUp"]
    /\ UNCHANGED <<lifeVars, inVars, outVars>>

\* close() up to its first await: only an open socket is waited for.
CloseTransport(c) ==
    /\ CallsClose(c) /\ ~transportClosed
    /\ transportClosed' = TRUE
    /\ RejectQueued
    /\ closer' = [closer EXCEPT ![c] =
           CASE Is({"tcp"}) -> "waiting"
             [] Is({"webtransport"}) -> "aborting"
             [] Is({"websocket"}) /\ link = "open" -> "waiting"
             [] OTHER -> "done"]
    /\ link' = CASE Is({"tcp"}) -> "closed"
                 [] Is({"websocket"}) /\ link = "open" -> "closing"
                 [] OTHER -> link
    /\ listening' = (listening /\ Is({"websocket"}) /\ link = "open")
    /\ IF Is({"webtransport"}) \/ (Is({"websocket"}) /\ link = "open")
       THEN UNCHANGED notified
       ELSE NotifyClose
    /\ UNCHANGED <<transport, transportStarted, remoteClosed, inVars>>

\* WebTransport: writer and reader are aborted, which ends what they were doing.
CloseSession(c) ==
    /\ closer[c] = "aborting"
    /\ closer' = [closer EXCEPT ![c] = "waiting"]
    /\ link' = IF link = "open" THEN "closing" ELSE link
    /\ NotifyClose
    /\ UNCHANGED <<transport, transportStarted, transportClosed, remoteClosed, listening, inVars,
                   outVars>>

Quiet == reader \in {"none", "ended"} /\ drain = "none"

\* Broken form: the read loop is not waited for.
CloseEndsEarly(c) ==
    /\ closer[c] = "waiting"
    /\ Is({"websocket"}) => link = "closed"
    /\ closer' = [closer EXCEPT ![c] = "done"]
    /\ listening' = FALSE
    /\ NotifyClose
    /\ UNCHANGED <<transport, transportStarted, transportClosed, remoteClosed, link, inVars, outVars>>

\* The read loop and the drain loop have ended, or the socket is closed.
CloseEnds(c) ==
    /\ closer[c] = "waiting"
    /\ Is(StreamKinds) => Quiet
    /\ Is({"webtransport"}) => remoteClosed
    /\ Is({"websocket"}) => link = "closed"
    /\ closer' = [closer EXCEPT ![c] = "done"]
    /\ listening' = FALSE
    /\ NotifyClose
    /\ UNCHANGED <<transport, transportStarted, transportClosed, remoteClosed, link, inVars, outVars>>

CloseTimesOut(c) ==
    /\ closer[c] = "waiting" /\ transport.timeouts
    /\ closer' = [closer EXCEPT ![c] = "gaveUp"]
    /\ listening' = FALSE
    /\ NotifyClose
    /\ UNCHANGED <<transport, transportStarted, transportClosed, remoteClosed, link, inVars, outVars>>

DrainStep == Dequeue \/ PostMessage \/ DrainLoopExits \/ WriteDone \/ WriteFails \/ DrainFinally
ReadStep == HandleFrame \/ HandlerEnds \/ FramesDone
CloseStep(c) == CloseSession(c) \/ CloseEnds(c) \/ CloseTimesOut(c)

TransportNext ==
    \/ StartTransport \/ HandlerFails \/ ReadEnds \/ PeerCloses \/ LinkCloses
    \/ \E n \in 1 .. 2 : Receive(n)
    \/ \E s \in Sends : Send(s)
    \/ \E c \in Callers : CloseTransport(c) \/ CloseAgain(c) \/ CloseStep(c)
    \/ DrainStep \/ ReadStep

TransportSpec == TransportInit /\ [][TransportNext]_transportVars

\* Writes and handlers end, reads of a connection that is gone fail, and the
\* other end of a socket or session that is being closed closes it too.
TransportFairness ==
    /\ WF_transportVars(DrainStep) /\ WF_transportVars(ReadStep)
    /\ WF_transportVars(transportClosed /\ ReadEnds)
    /\ WF_transportVars(link = "closing" /\ LinkCloses)
    /\ \A c \in Callers : WF_transportVars(CloseStep(c))
TransportFairSpec == TransportSpec /\ TransportFairness

(***************************************************************************)
(* Properties.                                                             *)
(***************************************************************************)
\* Frames reach the wire in the order of the sends, each at most once; those
\* whose send() succeeded are there as a whole, and none that was rejected while
\* it was queued.  The limit counts what is queued and what is being written.
SentFramesOnWire ==
    /\ \A i, j \in DOMAIN wire : i < j => wire[i].frame < wire[j].frame
    /\ \A s \in Sends :
           sending[s] = "sent" <=> [frame |-> s, whole |-> TRUE] \in Range(wire)
                                       /\ sending[s] # "rejected"
    /\ Len(queue) + (IF inflight = NoFrame THEN 0 ELSE 1) <= MaxQueuedOutboundFrames
    /\ Range(queue) = {s \in Sends : sending[s] = "queued"}

\* When close() of a stream transport has run to its end, nothing is handed to
\* the application and nothing is written any more.
SilentWhenClosed ==
    [][Is(StreamKinds) /\ (\E c \in Callers : closer[c] = "done")
           => UNCHANGED <<handled, wire>>]_transportVars

\* Every accepted send() settles, whatever the connection does and however
\* close(), the failure of a write and the end of the drain loop fall together.
SendsSettle ==
    \A s \in Sends : (sending[s] = "queued") ~> (sending[s] \in {"sent", "rejected"})

\* The end of the connection is announced; close() ends, unless
\* the handler that awaits it keeps the read loop from ending.
ClosureAnnounced ==
    (transportClosed \/ remoteClosed) ~> (notified = 1)
CloseReturns ==
    /\ (closer["app"] # "none") ~> (closer["app"] \in {"done", "gaveUp"})
    /\ (closer["handler"] # "none") ~>
           (closer["handler"] \in {"done", "gaveUp"} \/ (Is(StreamKinds) /\ ~transport.timeouts))

\* RpcTransport.close(): "After close() resolves, no further frames will be
\* received or sent."
NothingAfterClose ==
    [][(\E c \in Callers : closer[c] = "done") => UNCHANGED <<handled, wire>>]_transportVars
=============================================================================
