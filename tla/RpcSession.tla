------------------------------ MODULE RpcSession ------------------------------
(* RpcSession (src/rpc/session/session.ts) over a WasmPeer (src/wasm/peer.ts): *)
(* inbound frames queue on #inboundChain, each is pushed into the peer, and    *)
(* what the peer put out is handed to the transport frame by frame.            *)
(*                                                                             *)
(* Inbound frames are numbered in the order the transport delivers them.  An   *)
(* outbound frame carries the inbound frame it answers (0 when the host put it *)
(* in the peer's queue by answering a call) and its place in the order the     *)
(* peer produced it.  Every await of the code is a boundary between two        *)
(* actions, so deliveries, close() and host answers fall between any two sends.*)
EXTENDS Integers, Sequences

CONSTANTS
    MaxFrames,        \* bound on inbound frames
    MaxReplies,       \* bound on the frames the peer produces for one of them
    MaxHostReplies,   \* bound on the frames that answer host calls
    DrainLimit,       \* DEFAULT_MAX_DRAIN_FRAMES
    AwaitsFrames,     \* the transport waits for a frame before the next one
    ErrorsHandled,    \* {TRUE}: onError is given and returns; FALSE: there is
                      \* none, or it throws
    PushMayFail,      \* the peer may reject a frame
    SendMayFail,      \* transport.send may fail on an open transport
    RemoteMayClose,   \* the remote end may close the transport
    DefersSends,      \* the transport keeps frames while one is in turn
    MaxStarts         \* bound on calls of start()

ASSUME BoundsAssumption == /\ {MaxFrames, MaxReplies, MaxHostReplies,
                               MaxStarts} \subseteq Nat
                           /\ DrainLimit \in Nat \ {0}
ASSUME ModeAssumption == /\ {AwaitsFrames, PushMayFail, SendMayFail,
                             RemoteMayClose, DefersSends} \subseteq BOOLEAN
                         /\ ErrorsHandled # {} /\ ErrorsHandled \subseteq BOOLEAN

VARIABLES
    lifecycle,      \* #started, #starting
    stage,          \* how far close() has come; #closed is stage # "open"
    flushUpTo,      \* the frames whose outcome close() waits for
    starts,
    transportOpen,
    arrived, begun, \* frames delivered, frames whose pump has begun
    pumping,        \* pumpInboundFrame is between two sends
    outcome,
    rejected,       \* #inboundChain is a rejected promise
    queue,          \* the peer's outbound queue
    sending,        \* frames drained by the pump, still to be sent
    produced,       \* frames the peer has produced so far
    hostReplies,
    sent            \* frames accepted by transport.send

peerVars == <<queue, produced, hostReplies>>
pumpVars == <<arrived, begun, pumping, outcome, rejected, sending>>
lifeVars == <<lifecycle, stage, flushUpTo, starts, transportOpen>>
sessionVars == <<lifeVars, pumpVars, peerVars, sent>>

Frames == 1 .. MaxFrames
Outbound == [of : 0 .. MaxFrames, seq : Nat]
Outcomes == {"none", "ok", "failed", "refused", "thrown"}
Stages == {"open", "flushing", "transport", "done"}

closed == stage # "open"
Settled(n) == outcome[n] # "none"

TypeOK ==
    /\ lifecycle \in {"idle", "starting", "started"}
    /\ stage \in Stages
    /\ flushUpTo \in 0 .. MaxFrames
    /\ starts \in 0 .. MaxStarts
    /\ transportOpen \in BOOLEAN
    /\ arrived \in 0 .. MaxFrames
    /\ begun \in 0 .. arrived
    /\ pumping \in BOOLEAN /\ rejected \in BOOLEAN
    /\ outcome \in [Frames -> Outcomes]
    /\ queue \in Seq(Outbound) /\ sending \in Seq(Outbound)
    /\ sent \in Seq(Outbound)
    /\ produced \in Nat
    /\ hostReplies \in 0 .. MaxHostReplies

SessionInit ==
    /\ lifecycle = "idle" /\ stage = "open" /\ flushUpTo = 0 /\ starts = 0
    /\ transportOpen = TRUE
    /\ arrived = 0 /\ begun = 0 /\ pumping = FALSE /\ rejected = FALSE
    /\ outcome = [n \in Frames |-> "none"]
    /\ queue = <<>> /\ sending = <<>> /\ sent = <<>>
    /\ produced = 0 /\ hostReplies = 0

(***************************************************************************)
(* start()                                                                 *)
(***************************************************************************)
StartBegin ==
    /\ ~closed
    /\ lifecycle = "idle" /\ starts < MaxStarts
    /\ lifecycle' = "starting" /\ starts' = starts + 1
    /\ UNCHANGED <<stage, flushUpTo, transportOpen, pumpVars, peerVars, sent>>

\* transport.start returns; it may have failed, and the session may have been
\* closed in the meantime.  A failed start can be repeated.
StartEnd ==
    /\ lifecycle = "starting"
    /\ \/ lifecycle' = "started" /\ ~closed
       \/ lifecycle' = "idle" /\ (closed \/ arrived = 0)
    /\ UNCHANGED <<stage, flushUpTo, starts, transportOpen, pumpVars, peerVars,
                   sent>>

(***************************************************************************)
(* The inbound chain.                                                      *)
(***************************************************************************)
\* The callback given to the transport appends the frame to #inboundChain.
Arrive ==
    /\ lifecycle # "idle" /\ transportOpen
    /\ arrived < MaxFrames
    /\ AwaitsFrames /\ arrived > 0 => Settled(arrived)
    /\ arrived' = arrived + 1
    /\ UNCHANGED <<lifeVars, begun, pumping, outcome, rejected, sending,
                   peerVars, sent>>

\* A pump throws: unless onError takes the error, the chain stays rejected.
Fail(n, result) ==
    \E handled \in ErrorsHandled :
        /\ outcome' = [outcome EXCEPT ![n] = IF handled THEN result ELSE "thrown"]
        /\ rejected' = ~handled

Replies(n, k) == [i \in 1 .. k |-> [of |-> n, seq |-> produced + i]]

\* WasmPeer.pushFrame: the peer consumes the frame, then its queue is drained
\* up to the limit.  The flag that says the limit was reached is not looked at.
PushFrame(n, k) ==
    LET made == queue \o Replies(n, k)
        drained == IF Len(made) < DrainLimit THEN Len(made) ELSE DrainLimit
    IN /\ produced' = produced + k
       /\ sending' = SubSeq(made, 1, drained)
       /\ queue' = SubSeq(made, drained + 1, Len(made))
       /\ UNCHANGED hostReplies

\* A rejected chain does not pump the frame, a closed session refuses it; either
\* way the error goes to onError, which may take it this time.
SkipFrame ==
    /\ ~pumping /\ begun < arrived
    /\ rejected \/ closed
    /\ begun' = begun + 1
    /\ Fail(begun + 1, "refused")
    /\ UNCHANGED <<lifeVars, arrived, pumping, sending, peerVars, sent>>

\* Broken form: the next frame is pushed while an earlier one is being sent.
BeginWithoutChain(k) ==
    /\ begun < arrived
    /\ ~rejected /\ ~closed
    /\ begun' = begun + 1
    /\ pumping' = TRUE
    /\ produced' = produced + k
    /\ sending' = queue \o Replies(begun + 1, k) \o sending
    /\ queue' = <<>>
    /\ UNCHANGED <<lifeVars, arrived, outcome, rejected, hostReplies, sent>>

\* Broken form: the queue is drained before the frame is pushed.
BeginDrainsFirst(k) ==
    /\ ~pumping /\ begun < arrived
    /\ ~rejected /\ ~closed
    /\ begun' = begun + 1
    /\ pumping' = TRUE
    /\ produced' = produced + k
    /\ sending' = queue
    /\ queue' = Replies(begun + 1, k)
    /\ UNCHANGED <<lifeVars, arrived, outcome, rejected, hostReplies, sent>>

BeginPump(k) ==
    /\ ~pumping /\ begun < arrived
    /\ ~rejected /\ ~closed
    /\ begun' = begun + 1
    /\ \/ /\ PushFrame(begun + 1, k)
          /\ pumping' = TRUE
          /\ UNCHANGED <<outcome, rejected>>
       \/ /\ PushMayFail /\ k = 0
          /\ Fail(begun + 1, "failed")
          /\ UNCHANGED <<pumping, sending, peerVars>>
    /\ UNCHANGED <<lifeVars, arrived, sent>>

PumpSend ==
    /\ pumping /\ sending # <<>>
    /\ transportOpen \/ DefersSends
    /\ sent' = Append(sent, Head(sending))
    /\ sending' = Tail(sending)
    /\ UNCHANGED <<lifeVars, arrived, begun, pumping, outcome, rejected,
                   peerVars>>

\* Broken form: a failed send leaves the pump in flight.
PumpSendHangs ==
    /\ pumping /\ sending # <<>>
    /\ SendMayFail \/ ~transportOpen
    /\ sending' = <<[Head(sending) EXCEPT !.of = 0]>>
    /\ UNCHANGED <<lifeVars, arrived, begun, pumping, outcome, rejected,
                   peerVars, sent>>

\* A failed send abandons the frames that were drained with it.
PumpSendFails ==
    /\ pumping /\ sending # <<>>
    /\ SendMayFail \/ ~transportOpen
    /\ sending' = <<>>
    /\ pumping' = FALSE
    /\ Fail(begun, "failed")
    /\ UNCHANGED <<lifeVars, arrived, begun, peerVars, sent>>

PumpEnd ==
    /\ pumping /\ sending = <<>>
    /\ pumping' = FALSE
    /\ outcome' = [outcome EXCEPT ![begun] = "ok"]
    /\ UNCHANGED <<lifeVars, arrived, begun, rejected, sending, peerVars, sent>>

(***************************************************************************)
(* close(): the flag, the flush, the transport, the peer.                  *)
(***************************************************************************)
Close ==
    /\ ~closed
    /\ stage' = "flushing"
    /\ flushUpTo' = arrived
    /\ UNCHANGED <<lifecycle, starts, transportOpen, pumpVars, peerVars, sent>>

CloseTransport ==
    /\ stage = "flushing"
    /\ \A n \in 1 .. flushUpTo : Settled(n)
    /\ stage' = "transport" /\ transportOpen' = FALSE
    /\ UNCHANGED <<lifecycle, flushUpTo, starts, pumpVars, peerVars, sent>>

ClosePeer ==
    /\ stage = "transport"
    /\ stage' = "done"
    /\ UNCHANGED <<lifecycle, flushUpTo, starts, transportOpen, pumpVars,
                   peerVars, sent>>

(***************************************************************************)
(* The session's surroundings.                                             *)
(***************************************************************************)
RemoteClose ==
    /\ RemoteMayClose /\ transportOpen
    /\ transportOpen' = FALSE
    /\ UNCHANGED <<lifecycle, stage, flushUpTo, starts, pumpVars, peerVars, sent>>

\* A host call is answered: the peer queues the Return.
HostReply ==
    /\ stage # "done" /\ hostReplies < MaxHostReplies
    /\ hostReplies' = hostReplies + 1
    /\ produced' = produced + 1
    /\ queue' = Append(queue, [of |-> 0, seq |-> produced + 1])
    /\ UNCHANGED <<lifeVars, pumpVars, sent>>

PumpStep ==
    \/ SkipFrame
    \/ \E k \in 0 .. MaxReplies : BeginPump(k)
    \/ PumpSend
    \/ PumpSendFails
    \/ PumpEnd

CloseStep == CloseTransport \/ ClosePeer

Next ==
    \/ StartBegin \/ StartEnd
    \/ Arrive
    \/ PumpStep
    \/ Close \/ CloseStep
    \/ RemoteClose \/ HostReply

Spec == SessionInit /\ [][Next]_sessionVars

\* Continuations that are ready run, and the transport's promises settle.
Fairness == /\ WF_sessionVars(PumpStep)
            /\ WF_sessionVars(CloseStep)
FairSpec == Spec /\ Fairness

(***************************************************************************)
(* The session as a FramePump.                                             *)
(***************************************************************************)
Promise == INSTANCE FramePump WITH
    MaxDelivered <- MaxFrames,
    MaxProduced  <- MaxFrames * MaxReplies + MaxHostReplies,
    delivered    <- arrived,
    settled      <- IF pumping THEN begun - 1 ELSE begun,
    out          <- sent,
    closing      <- CASE stage = "open" -> "open"
                      [] stage = "flushing" -> "asked"
                      [] OTHER -> "shut",
    due          <- flushUpTo

(***************************************************************************)
(* Properties.                                                             *)
(***************************************************************************)
\* Outbound frames reach the transport in the order the peer produced them,
\* answers to host calls included.
SentInOrder ==
    \A i, j \in DOMAIN sent : i < j => sent[i].seq < sent[j].seq

\* The core contract of the README: when the next inbound frame is pushed, every
\* outbound frame of the ones before it has been drained and handed over.
CoreContract ==
    [][produced' # produced /\ begun' # begun =>
          /\ sending = <<>>
          /\ \A i \in DOMAIN queue : queue[i].of = 0]_sessionVars

\* Once every delivered frame is settled, nothing the peer produced for one is
\* left behind in the peer or in a pump.
NothingLeftBehind ==
    arrived = begun /\ ~pumping =>
        /\ sending = <<>>
        /\ \A i \in DOMAIN queue : queue[i].of = 0

CloseCompletes == closed ~> (stage = "done")

\* Frames are pumped one after the other, and close() waits for those it found:
\* with its queues, its drains and its failures, the session is a FramePump.
ImplementsFramePump == Promise!PumpSpec
=============================================================================
