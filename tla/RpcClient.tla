------------------------------ MODULE RpcClient ------------------------------
(* SessionRpcClientTransport (src/rpc/session/client.ts) over a session whose  *)
(* harness transport queues inbound frames (harness_frame_queue.ts).           *)
(*                                                                             *)
(* Operations run one at a time on a promise chain; a pipelined call leaves    *)
(* the chain once it is sent and waits for its Return on its own.  Returns are *)
(* read by a pump that runs only while somebody waits or the client exports a  *)
(* capability.  An operation, the pump and the continuation of a settled wait  *)
(* are interleaved at their awaits with timeouts, aborts and close().  The     *)
(* session has no onError, so a frame it could not process fails emitInbound(). *)
EXTENDS Naturals, Sequences, FiniteSets

CONSTANTS
    RawCalls,           \* bootstrap() and callRaw(): the chain waits for the Return
    PipelinedCalls,     \* callRawPipelined()
    OneWays,            \* finish() and release()
    WithCaps,           \* calls that pass exported capabilities as parameters
    Repeated,           \* calls that a peer may answer twice (a bound)
    MaxCallbacks,       \* bound on calls to exported capabilities
    MaxOutstandingParamCapQuestions,
    SendMayFail,        \* the session may refuse a frame while it is open
    MayCancel,          \* calls carry a timeout or an AbortSignal
    RemoteMayClose

Calls == RawCalls \cup PipelinedCalls
Ops == Calls \cup OneWays

ASSUME ClientAssumption ==
    /\ IsFiniteSet(Ops)
    /\ RawCalls \cap PipelinedCalls = {} /\ Calls \cap OneWays = {}
    /\ WithCaps \subseteq Calls
    /\ Repeated \subseteq Calls
    /\ {MaxCallbacks, MaxOutstandingParamCapQuestions} \subseteq Nat
    /\ {SendMayFail, MayCancel, RemoteMayClose} \subseteq BOOLEAN

VARIABLES
    closed,      \* close() was called
    open,        \* the harness transport is open
    chain,       \* the operations that hold or wait for #opChain
    phase,       \* how far each operation has come
    outcome,     \* what its wait for the Return ended with
    expected,    \* #expectedReturns
    pending,     \* questions with a waiter in #pendingReturns
    queued,      \* questions with a Return in #queuedReturns
    grants,      \* questions in #questionParamCapGrants
    spent,       \* how often a question's grants were released locally
    exported,    \* #localBridge is there
    pump,        \* #responsePump and where it is
    stopped,     \* #responsePumpStopped
    frames,      \* inbound frames that were not read yet
    asked,       \* questions the peer has got
    returns,     \* how many Returns it has sent for each
    callbacks    \* how many calls it has made to exported capabilities

opVars == <<chain, phase>>
waitVars == <<outcome, expected, pending, queued>>
grantVars == <<grants, spent, exported>>
pumpVars == <<pump, stopped>>
peerVars == <<asked, returns, callbacks>>
clientVars == <<closed, open, opVars, waitVars, grantVars, pumpVars, frames,
                peerVars>>

Callback == [callback |-> TRUE]
ReturnFrames == [answerId : Calls, releaseParamCaps : BOOLEAN]

TypeOK ==
    /\ {closed, open, exported, stopped} \subseteq BOOLEAN
    /\ chain \in Seq(Ops)
    /\ phase \in [Ops -> {"idle", "queued", "opening", "sending", "waiting",
                          "finishing", "done"}]
    /\ outcome \in [Calls -> {"none", "returned", "canceled", "failed",
                              "aborted"}]
    /\ expected \cup pending \cup asked \subseteq Calls
    /\ queued \subseteq expected
    /\ grants \subseteq WithCaps /\ spent \in [WithCaps -> Nat]
    /\ pump \in {"off", "reading", "aborted", "callback", "ending"}
    /\ frames \in Seq(ReturnFrames \cup {Callback})
    /\ returns \in [Calls -> 0 .. 2]
    /\ callbacks \in 0 .. MaxCallbacks

Init ==
    /\ closed = FALSE /\ open = TRUE
    /\ chain = <<>> /\ phase = [q \in Ops |-> "idle"]
    /\ outcome = [q \in Calls |-> "none"]
    /\ expected = {} /\ pending = {} /\ queued = {}
    /\ grants = {} /\ spent = [q \in WithCaps |-> 0] /\ exported = FALSE
    /\ pump = "off" /\ stopped = FALSE
    /\ frames = <<>>
    /\ asked = {} /\ returns = [q \in Calls |-> 0] /\ callbacks = 0

(***************************************************************************)
(* The response pump, as other operations see it.                          *)
(***************************************************************************)
\* #shouldPumpResponses with the given waiters.
ShouldPump(waiters) == ~stopped /\ (waiters # {} \/ exported)

\* The pump goes on with its loop, or leaves it.
PumpLoops(waiters) == IF ShouldPump(waiters) THEN "reading" ELSE "ending"

\* #ensureResponsePump
EnsurePump(waiters) == IF pump = "off" THEN PumpLoops(waiters) ELSE pump

\* #abortResponsePumpReadIfIdle.  A read that has its frame already is not
\* disturbed.
AbortReadIfIdle(waiters) ==
    IF pump = "reading" /\ frames = <<>> /\ ~ShouldPump(waiters)
    THEN "aborted" ELSE pump

(***************************************************************************)
(* Operations and their chain (#enqueue).                                  *)
(***************************************************************************)
Leave(q, p) == /\ phase' = [phase EXCEPT ![q] = p]
               /\ chain' = Tail(chain)

Submit(q) ==
    /\ phase[q] = "idle"
    /\ q \in WithCaps => exported
    /\ IF closed
       THEN phase' = [phase EXCEPT ![q] = "done"] /\ UNCHANGED chain
       ELSE /\ phase' = [phase EXCEPT ![q] = "queued"]
            /\ chain' = Append(chain, q)
    /\ UNCHANGED <<closed, open, waitVars, grantVars, pumpVars, frames, peerVars>>

AtHead(q) == chain # <<>> /\ Head(chain) = q

\* The gate opens: a closed client and a full table of grants refuse the
\* operation; otherwise the middleware's onCall is awaited.
OpBegins(q) ==
    /\ AtHead(q) /\ phase[q] = "queued"
    /\ IF \/ closed
          \/ /\ q \in WithCaps
             /\ Cardinality(grants) >= MaxOutstandingParamCapQuestions
       THEN Leave(q, "done")
       ELSE phase' = [phase EXCEPT ![q] = "opening"] /\ UNCHANGED chain
    /\ UNCHANGED <<closed, open, waitVars, grantVars, pumpVars, frames, peerVars>>

\* The grants are recorded and the Return is expected before the frame goes.  A
\* session that was closed meanwhile refuses it.
OpSends(q) ==
    /\ AtHead(q) /\ phase[q] = "opening"
    /\ grants' = grants \cup ({q} \cap WithCaps)
    /\ IF closed
       THEN Leave(q, "done") /\ UNCHANGED expected
       ELSE /\ phase' = [phase EXCEPT ![q] = "sending"]
            /\ expected' = expected \cup ({q} \cap Calls)
            /\ UNCHANGED chain
    /\ UNCHANGED <<closed, open, outcome, pending, queued, spent, exported,
                   pumpVars, frames, peerVars>>

\* The peer gets the call some time before the send is over.
CallArrives(q) ==
    /\ q \in Calls \ asked /\ phase[q] = "sending" /\ open
    /\ asked' = asked \cup {q}
    /\ UNCHANGED <<closed, open, opVars, waitVars, grantVars, pumpVars, frames,
                   returns, callbacks>>

\* start() fails before the frame is handed over, or emitInbound() fails, or
\* flush() does.  Only the first takes the grants back, and only after the last
\* does callRaw() send a Finish.
SendFails(q) ==
    /\ AtHead(q) /\ phase[q] = "sending"
    /\ SendMayFail \/ closed \/ ~open
    /\ expected' = expected \ {q} /\ queued' = queued \ {q}
    /\ \/ q \notin asked /\ grants' = grants \ {q} /\ Leave(q, "done")
       \/ UNCHANGED grants /\ Leave(q, "done")
       \/ /\ q \in RawCalls \cap asked
          /\ phase' = [phase EXCEPT ![q] = "finishing"]
          /\ UNCHANGED <<grants, chain>>
    /\ outcome' = [c \in Calls |-> IF c = q THEN "failed" ELSE outcome[c]]
    /\ UNCHANGED <<closed, open, pending, spent, exported, pumpVars, frames,
                   peerVars>>

\* #awaitReturn: a Return that came meanwhile is taken; an aborted signal and a
\* client that closed meanwhile end the wait before it begins.
AwaitReturn(q) ==
    IF q \notin expected
    THEN /\ outcome' = [outcome EXCEPT ![q] = "failed"]
         /\ UNCHANGED <<expected, pending, queued, pump>>
    ELSE \/ /\ q \in queued \/ MayCancel
            /\ outcome' = [outcome EXCEPT ![q] =
                   IF q \in queued THEN "returned" ELSE "canceled"]
            /\ expected' = expected \ {q} /\ queued' = queued \ {q}
            /\ UNCHANGED <<pending, pump>>
         \/ /\ q \notin queued
            /\ pending' = pending \cup {q}
            /\ pump' = EnsurePump(pending')
            /\ UNCHANGED <<outcome, expected, queued>>

SendEnds(q) ==
    /\ AtHead(q) /\ phase[q] = "sending"
    /\ IF q \in OneWays
       THEN /\ open
            /\ Leave(q, "done")
            /\ UNCHANGED <<waitVars, pump>>
       ELSE /\ q \in asked
            /\ phase' = [phase EXCEPT ![q] = "waiting"]
            /\ chain' = IF q \in PipelinedCalls THEN Tail(chain) ELSE chain
            /\ AwaitReturn(q)
    /\ UNCHANGED <<closed, open, grantVars, stopped, frames, peerVars>>

\* The wait is over: callRaw() goes on to its Finish, unless autoFinish is off, or
\* the Return was an exception or needs none.
WaitEnds(q) ==
    /\ q \in Calls /\ phase[q] = "waiting" /\ outcome[q] # "none"
    /\ \/ /\ q \in PipelinedCalls
          /\ phase' = [phase EXCEPT ![q] = "done"] /\ UNCHANGED chain
       \/ /\ q \in RawCalls
          /\ phase' = [phase EXCEPT ![q] = "finishing"] /\ UNCHANGED chain
       \/ q \in RawCalls /\ Leave(q, "done")
    /\ UNCHANGED <<closed, open, waitVars, grantVars, pumpVars, frames, peerVars>>

\* A Finish that fails takes the result of a call that succeeded with it.
FinishEnds(q) ==
    /\ q \in RawCalls /\ phase[q] = "finishing"
    /\ \/ open /\ UNCHANGED outcome
       \/ /\ SendMayFail \/ closed \/ ~open
          /\ outcome' = [outcome EXCEPT ![q] =
                 IF @ = "returned" THEN "failed" ELSE @]
    /\ Leave(q, "done")
    /\ UNCHANGED <<closed, open, expected, pending, queued, grantVars, pumpVars,
                   frames, peerVars>>

\* Broken form: the question is still expected after its wait was given up.
CancelKeepsExpected(q) ==
    /\ MayCancel /\ q \in pending
    /\ pending' = pending \ {q}
    /\ outcome' = [outcome EXCEPT ![q] = "canceled"]
    /\ pump' = AbortReadIfIdle(pending')
    /\ UNCHANGED <<closed, open, opVars, expected, queued, grantVars, stopped,
                   frames, peerVars>>

\* A timeout fires, or the call's own signal is aborted.
Cancel(q) ==
    /\ MayCancel /\ q \in pending
    /\ pending' = pending \ {q}
    /\ expected' = expected \ {q} /\ queued' = queued \ {q}
    /\ outcome' = [outcome EXCEPT ![q] = "canceled"]
    /\ pump' = AbortReadIfIdle(pending')
    /\ UNCHANGED <<closed, open, opVars, grantVars, stopped, frames, peerVars>>

\* exportCapability() makes the bridge, and starts the pump for its calls.
ExportCapability ==
    /\ ~closed /\ ~exported
    /\ Cardinality(grants) < MaxOutstandingParamCapQuestions
    /\ exported' = TRUE
    /\ pump' = IF pump = "off" /\ ~stopped THEN "reading"
               ELSE IF pump = "off" THEN "ending" ELSE pump
    /\ UNCHANGED <<closed, open, opVars, waitVars, grants, spent, stopped,
                   frames, peerVars>>

(***************************************************************************)
(* The response pump (#pumpResponses).                                     *)
(***************************************************************************)
\* Every waiter is rejected and its question abandoned.
RejectAllPendingReturns(result) ==
    /\ pending' = {}
    /\ outcome' = [q \in Calls |-> IF q \in pending THEN result ELSE outcome[q]]

\* Broken form: a Return releases the grants whenever it comes.
SettleGrantsAgain(f) ==
    LET q == f.answerId
        released == {q} \cap (IF f.releaseParamCaps /\ exported
                              THEN WithCaps ELSE {})
    IN /\ grants' = grants \ {q}
       /\ spent' = [c \in WithCaps |-> IF c \in released THEN spent[c] + 1
                                                         ELSE spent[c]]

\* #settleParamCapGrants, or the peer keeps the references and releases them
\* itself.  Either way the grants are gone.
SettleGrants(f) ==
    LET q == f.answerId
        released == {q} \cap (IF f.releaseParamCaps /\ exported
                              THEN grants ELSE {})
    IN /\ grants' = grants \ {q}
       /\ spent' = [c \in WithCaps |-> IF c \in released THEN spent[c] + 1
                                                         ELSE spent[c]]

\* #resolvePendingReturn, or #queueReturn for a wait to come.
TakeReturn(q) ==
    IF q \in pending
    THEN /\ pending' = pending \ {q}
         /\ expected' = expected \ {q} /\ queued' = queued \ {q}
         /\ outcome' = [outcome EXCEPT ![q] = "returned"]
    ELSE /\ queued' = queued \cup {q}
         /\ UNCHANGED <<pending, expected, outcome>>

PumpReads ==
    /\ pump = "reading" /\ frames # <<>>
    /\ frames' = Tail(frames)
    /\ LET f == Head(frames) IN
       IF f = Callback
       THEN /\ pump' = "callback"
            /\ UNCHANGED <<waitVars, grants, spent>>
       ELSE /\ SettleGrants(f)
            /\ IF f.answerId \in expected THEN TakeReturn(f.answerId)
                                          ELSE UNCHANGED waitVars
            /\ pump' = PumpLoops(pending')
    /\ UNCHANGED <<closed, open, opVars, exported, stopped, peerVars>>

\* The session is flushed and the bridge runs the handler, which makes no call
\* on this client: its own Return could not be read.  An error leaves the loop.
CallbackEnds ==
    /\ pump = "callback"
    /\ pump' \in {PumpLoops(pending), "ending"}
    /\ UNCHANGED <<closed, open, opVars, waitVars, grantVars, stopped, frames,
                   peerVars>>

\* The pump sees its read fail, by an abort or with the transport.  An abort for
\* want of waiters ends it; anything else stops it for good.
PumpReadFails ==
    /\ \/ pump = "aborted"
       \/ pump = "reading" /\ frames = <<>> /\ ~open
    /\ IF pump = "aborted" /\ ~ShouldPump(pending)
       THEN UNCHANGED <<waitVars, stopped>>
       ELSE /\ stopped' = TRUE
            /\ RejectAllPendingReturns(IF pump = "aborted" THEN "aborted"
                                                           ELSE "failed")
            /\ expected' = expected \ pending /\ queued' = queued \ pending
    /\ pump' = "ending"
    /\ UNCHANGED <<closed, open, opVars, grantVars, frames, peerVars>>

\* Broken form: the pump that ended is not started again.
PumpEndsForGood ==
    /\ pump = "ending"
    /\ pump' = "off"
    /\ UNCHANGED <<closed, open, opVars, waitVars, grantVars, stopped, frames,
                   peerVars>>

\* The finally clause of #ensureResponsePump looks again.
PumpEnds ==
    /\ pump = "ending"
    /\ pump' = IF ShouldPump(pending) THEN "reading" ELSE "off"
    /\ UNCHANGED <<closed, open, opVars, waitVars, grantVars, stopped, frames,
                   peerVars>>

PumpStep == PumpReads \/ CallbackEnds \/ PumpReadFails \/ PumpEnds

(***************************************************************************)
(* close(), and the peer.                                                  *)
(***************************************************************************)
Close ==
    /\ ~closed
    /\ closed' = TRUE
    /\ stopped' = TRUE /\ exported' = FALSE
    /\ RejectAllPendingReturns("failed")
    /\ expected' = {} /\ queued' = {} /\ grants' = {}
    /\ pump' = IF pump = "reading" /\ frames = <<>> THEN "aborted" ELSE pump
    /\ UNCHANGED <<open, opVars, spent, frames, peerVars>>

\* The session closes the transport after its flush; the remote end may too.
TransportCloses ==
    /\ open
    /\ closed \/ RemoteMayClose
    /\ open' = FALSE
    /\ UNCHANGED <<closed, opVars, waitVars, grantVars, pumpVars, frames, peerVars>>

\* Once the pump has stopped nobody reads what the peer sends.
Return(q, releaseParamCaps) ==
    /\ open /\ ~stopped /\ q \in asked
    /\ returns[q] < IF q \in Repeated THEN 2 ELSE 1
    /\ returns' = [returns EXCEPT ![q] = @ + 1]
    /\ frames' = Append(frames, [answerId |-> q,
                                 releaseParamCaps |-> releaseParamCaps])
    /\ UNCHANGED <<closed, open, opVars, waitVars, grantVars, pumpVars, asked,
                   callbacks>>

CallsBack ==
    /\ open /\ ~stopped /\ exported /\ callbacks < MaxCallbacks
    /\ callbacks' = callbacks + 1
    /\ frames' = Append(frames, Callback)
    /\ UNCHANGED <<closed, open, opVars, waitVars, grantVars, pumpVars, asked,
                   returns>>

FirstReturn(q) == returns[q] = 0 /\ \E b \in BOOLEAN : Return(q, b)

OpStep(q) == \/ OpBegins(q) \/ OpSends(q) \/ SendEnds(q) \/ SendFails(q)
             \/ WaitEnds(q) \/ FinishEnds(q)

Next ==
    \/ \E q \in Ops : Submit(q) \/ OpStep(q)
    \/ \E q \in Calls : \/ CallArrives(q) \/ Cancel(q)
                        \/ \E b \in BOOLEAN : Return(q, b)
    \/ ExportCapability \/ CallsBack
    \/ PumpStep
    \/ Close \/ TransportCloses

Spec == Init /\ [][Next]_clientVars

\* Continuations that are ready run, sends settle, the peer answers, and the
\* session's close reaches the transport.
FairSpec ==
    /\ Spec
    /\ \A q \in Ops : WF_clientVars(OpStep(q))
    /\ \A q \in Calls : WF_clientVars(CallArrives(q)) /\ WF_clientVars(FirstReturn(q))
    /\ WF_clientVars(PumpStep)
    /\ WF_clientVars(closed /\ TransportCloses)

(***************************************************************************)
(* Properties.                                                             *)
(***************************************************************************)
\* The three tables agree with the operations: the waiters are those of the calls
\* that wait, and while the client is open a Return is expected exactly for the
\* calls that are being sent or wait.  No timeout, abort, failed send or failed
\* read leaves a question behind.
TablesExact ==
    /\ TypeOK
    /\ pending = {q \in Calls : phase[q] = "waiting" /\ outcome[q] = "none"}
    /\ ~closed => expected = {q \in Calls : /\ phase[q] \in {"sending", "waiting"}
                                            /\ outcome[q] = "none"}
    /\ queued \cap pending = {}

\* The references a call granted are given back at most once, whatever Returns
\* repeat and whichever comes late; and they stay on record, past a timeout, an
\* abort or a failed flush, for every call that the peer has got and has not
\* answered.
GrantsSettleOnce ==
    \A q \in WithCaps :
        /\ spent[q] <= 1 /\ (spent[q] = 1 => q \notin grants)
        /\ (~closed /\ q \in asked /\ returns[q] = 0) => q \in grants

\* Every operation ends, with or without a timeout, unless the pump has stopped
\* for good under an open client.
OpsEnd == \A q \in Ops : (phase[q] # "idle")
                             ~> (phase[q] = "done" \/ (stopped /\ ~closed))

\* docs/troubleshooting.md says of "rpc wait aborted" that "the call was
\* cancelled via an AbortSignal": no other call ends with it.
AbortedByCaller == \A q \in Calls : outcome[q] # "aborted"
=============================================================================
