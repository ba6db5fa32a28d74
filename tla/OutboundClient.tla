---------------------------- MODULE OutboundClient ----------------------------
(* RpcServerOutboundClient over RpcServerCallInterceptTransport                *)
(* (src/rpc/server/outbound.ts): calls a server makes back over the connection *)
(* it serves.  They bypass the WASM peer; the transport takes their Returns    *)
(* out of the inbound frames by a table of pending questions.                  *)
(*                                                                             *)
(* A call is registered before its frame is sent, so its Return, its timeout   *)
(* and the end of the transport may all come while the send is awaited.        *)
(* Question ids grow by one per call and are not reused.                       *)
EXTENDS Naturals, FiniteSets

CONSTANTS
    MaxQuestions,  \* bound on calls
    Timeouts,      \* calls carry a timeout
    SendMayFail,   \* transport.send may fail while the transport is open
    MayClose       \* the transport may close

ASSUME OutboundAssumption == /\ MaxQuestions \in Nat
                             /\ {Timeouts, SendMayFail, MayClose} \subseteq BOOLEAN

VARIABLES
    nextQuestionId,
    call,      \* how far callRaw has come
    pending,   \* #pendingQuestions
    outcome,   \* what the question's promise settled with
    remote,    \* the callee's answer: none, asked, or the kind of its Return
    incoming,  \* Returns on their way to the intercepting transport
    toPeer,    \* Returns that were handed on to the session and its peer
    finished,  \* questions whose Finish was handed to the transport
    closed

outboundVars == <<nextQuestionId, call, pending, outcome, remote, incoming,
                  toPeer, finished, closed>>

Questions == 1 .. MaxQuestions
ReturnKinds == {"results", "noFinishNeeded", "exception"}

TypeOK ==
    /\ nextQuestionId \in 1 .. MaxQuestions + 1
    /\ call \in [Questions -> {"idle", "sending", "waiting", "finishing",
                               "done"}]
    /\ outcome \in [Questions -> ReturnKinds \cup {"none", "rejected"}]
    /\ remote \in [Questions -> ReturnKinds \cup {"none", "asked"}]
    /\ pending \cup incoming \cup toPeer \cup finished
           \subseteq 1 .. nextQuestionId - 1
    /\ closed \in BOOLEAN

Init ==
    /\ nextQuestionId = 1
    /\ call = [q \in Questions |-> "idle"]
    /\ outcome = [q \in Questions |-> "none"]
    /\ remote = [q \in Questions |-> "none"]
    /\ pending = {} /\ incoming = {} /\ toPeer = {} /\ finished = {}
    /\ closed = FALSE

\* callRaw up to its first await: register, then send.  On a closed transport
\* both are refused.
CallRaw(q) ==
    /\ q = nextQuestionId
    /\ nextQuestionId' = q + 1
    /\ IF closed
       THEN /\ call' = [call EXCEPT ![q] = "done"]
            /\ UNCHANGED pending
       ELSE /\ call' = [call EXCEPT ![q] = "sending"]
            /\ pending' = pending \cup {q}
    /\ UNCHANGED <<outcome, remote, incoming, toPeer, finished, closed>>

\* The frame reaches the callee at some time during the send.
CallArrives(q) ==
    /\ call[q] = "sending" /\ remote[q] = "none" /\ ~closed
    /\ remote' = [remote EXCEPT ![q] = "asked"]
    /\ UNCHANGED <<nextQuestionId, call, pending, outcome, incoming, toPeer,
                   finished, closed>>

SendEnds(q) ==
    /\ call[q] = "sending" /\ remote[q] # "none"
    /\ call' = [call EXCEPT ![q] = "waiting"]
    /\ UNCHANGED <<nextQuestionId, pending, outcome, remote, incoming, toPeer,
                   finished, closed>>

\* Broken form: a failed send leaves the question registered.
SendFailsRegistered(q) ==
    /\ call[q] = "sending"
    /\ SendMayFail \/ closed
    /\ call' = [call EXCEPT ![q] = "done"]
    /\ UNCHANGED <<nextQuestionId, pending, outcome, remote, incoming, toPeer,
                   finished, closed>>

\* The send fails, or the transport closes first: the call throws.  A send that
\* timed out may have got the frame across.
SendFails(q) ==
    /\ call[q] = "sending"
    /\ SendMayFail \/ closed
    /\ pending' = pending \ {q}
    /\ call' = [call EXCEPT ![q] = "done"]
    /\ UNCHANGED <<nextQuestionId, outcome, remote, incoming, toPeer, finished,
                   closed>>

\* The callee returns; a call it got a Finish for is answered all the same.
Return(q, kind) ==
    /\ remote[q] = "asked" /\ ~closed
    /\ remote' = [remote EXCEPT ![q] = kind]
    /\ incoming' = incoming \cup {q}
    /\ UNCHANGED <<nextQuestionId, call, pending, outcome, toPeer, finished,
                   closed>>

\* #tryInterceptReturn: a Return of no pending question goes on to the session.
InterceptReturn(q) ==
    /\ q \in incoming /\ ~closed
    /\ incoming' = incoming \ {q}
    /\ IF q \in pending
       THEN /\ pending' = pending \ {q}
            /\ outcome' = [outcome EXCEPT ![q] = remote[q]]
            /\ UNCHANGED toPeer
       ELSE /\ toPeer' = toPeer \cup {q}
            /\ UNCHANGED <<pending, outcome>>
    /\ UNCHANGED <<nextQuestionId, call, remote, finished, closed>>

Timeout(q) ==
    /\ Timeouts /\ q \in pending
    /\ pending' = pending \ {q}
    /\ outcome' = [outcome EXCEPT ![q] = "rejected"]
    /\ UNCHANGED <<nextQuestionId, call, remote, incoming, toPeer, finished,
                   closed>>

MarkClosed ==
    /\ MayClose /\ ~closed
    /\ closed' = TRUE
    /\ outcome' = [q \in Questions |-> IF q \in pending THEN "rejected"
                                                        ELSE outcome[q]]
    /\ pending' = {}
    /\ UNCHANGED <<nextQuestionId, call, remote, incoming, toPeer, finished>>

\* An exception is thrown without a Finish; results and a rejected promise are
\* followed by one, unless the callee needs none.
AwaitEnds(q) ==
    /\ call[q] = "waiting" /\ outcome[q] # "none"
    /\ call' = [call EXCEPT ![q] =
           IF outcome[q] \in {"results", "rejected"} THEN "finishing" ELSE "done"]
    /\ UNCHANGED <<nextQuestionId, pending, outcome, remote, incoming, toPeer,
                   finished, closed>>

\* #trySendFinish swallows a failure, and sends nothing on a closed transport.
TrySendFinish(q) ==
    /\ call[q] = "finishing"
    /\ call' = [call EXCEPT ![q] = "done"]
    /\ finished' = IF closed THEN finished ELSE finished \cup {q}
    /\ UNCHANGED <<nextQuestionId, pending, outcome, remote, incoming, toPeer,
                   closed>>

\* What the host does for a call, and what the other end does.
CallStep(q) == SendEnds(q) \/ SendFails(q) \/ AwaitEnds(q) \/ TrySendFinish(q)
RemoteStep(q) == CallArrives(q) \/ InterceptReturn(q)
                     \/ \E kind \in ReturnKinds : Return(q, kind)

Next ==
    \/ MarkClosed
    \/ \E q \in Questions :
           CallRaw(q) \/ CallStep(q) \/ RemoteStep(q) \/ Timeout(q)

Spec == Init /\ [][Next]_outboundVars

\* Sends settle, the callee answers, and continuations run.
Fairness == \A q \in Questions : /\ WF_outboundVars(CallStep(q))
                                  /\ WF_outboundVars(RemoteStep(q))
FairSpec == Spec /\ Fairness

(***************************************************************************)
(* Properties.                                                             *)
(***************************************************************************)
\* A question is registered exactly as long as its call waits for an answer: no
\* failure, timeout or close leaves one behind to take a Return or hold memory.
RegisteredWhileAwaited ==
    pending = {q \in Questions : /\ call[q] \in {"sending", "waiting"}
                                 /\ outcome[q] = "none"}

\* A Return that was taken off the wire went to its call or to the peer, never
\* to both.
TakenOnce ==
    \A q \in toPeer : outcome[q] \in {"none", "rejected"}

\* Every call ends, and a Finish follows every call that had results or was given
\* up on, unless the transport goes.
CallsEnd == \A q \in Questions : (call[q] # "idle") ~> (call[q] = "done")
AnswersRetired ==
    \A q \in Questions :
        (call[q] = "waiting" /\ outcome[q] \in {"results", "rejected"})
            ~> (q \in finished \/ closed)

\* The class's promise: Returns of server-originated calls are captured "before
\* they reach the WASM peer (which has no knowledge of these calls)".
ReturnsIntercepted == toPeer = {}
=============================================================================
