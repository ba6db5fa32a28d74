------------------------------ MODULE WireClient ------------------------------
(* RpcWireClient (src/rpc/rpc_wire_client.ts) under the stubs that call it.    *)
(*                                                                             *)
(* Unlike the session client it has no operation chain: questions are asked    *)
(* side by side, a Return can come while its Call is still being written, and  *)
(* timeouts, aborts and the end of the transport fall between any two awaits.  *)
(* Callers pass callbacks as parameters: all are references of one exported    *)
(* capability, so a reference released twice is one taken from another call.   *)
EXTENDS Naturals, FiniteSets

CONSTANTS
    Bootstraps,     \* bootstrap()
    PlainCalls,     \* calls without capabilities in their parameters
    CallbackCalls,  \* calls that pass one exported capability
    MaxGrants,      \* maxOutstandingParamCapQuestions
    MaxWireQuestions,   \* bound on the questions asked
    Repeated        \* questions that a peer may answer twice (a bound)

WireQuestions == Bootstraps \cup PlainCalls \cup CallbackCalls

ASSUME WireAssumption ==
    /\ IsFiniteSet(WireQuestions)
    /\ Bootstraps \cap PlainCalls = {}
    /\ CallbackCalls \cap (Bootstraps \cup PlainCalls) = {}
    /\ MaxGrants \in Nat \ {0} /\ MaxWireQuestions \in Nat /\ Repeated \subseteq WireQuestions

VARIABLES
    started,     \* #startPromise
    wireClosed,  \* #closed
    asking,      \* how far the request of each question has come
    wait,        \* its waiter: #pendingReturns holds those that are pending
    resultCaps,  \* #questionsWithResultCaps
    paramGrants, \* #questionParamCapGrants
    references,  \* references of the exported capability in #localBridge
    reference,   \* ghost: where the reference of each callback call is
    finishSent,  \* ghost: the releaseResultCaps of the Finish on the wire
    reached,     \* questions the peer has got
    returned     \* how many Returns it has sent for each

wireVars == <<started, wireClosed, asking, wait, resultCaps, paramGrants, references,
              reference, finishSent, reached, returned>>
peerSide == <<reached, returned>>
capSide == <<paramGrants, references, reference>>

Given == {"plain", "caps"}    \* a Return with results

WireTypeOK ==
    /\ started \in {"starting", "up", "failed"} /\ wireClosed \in BOOLEAN
    /\ asking \in [WireQuestions -> {"idle", "ready", "checked", "turn", "sending", "waiting",
                                 "finishing", "lastSend", "done"}]
    /\ wait \in [WireQuestions -> {"none", "pending", "exception", "error"} \cup Given]
    /\ resultCaps \cup reached \subseteq WireQuestions
    /\ paramGrants \subseteq CallbackCalls /\ references \in 0 .. Cardinality(CallbackCalls)
    /\ reference \in [CallbackCalls -> {"none", "local", "granted", "peer", "released"}]
    /\ finishSent \in [WireQuestions -> {"none", "keeps", "releases"}]
    /\ returned \in [WireQuestions -> 0 .. 2]

WireInit ==
    /\ started = "starting" /\ wireClosed = FALSE
    /\ asking = [q \in WireQuestions |-> "idle"] /\ wait = [q \in WireQuestions |-> "none"]
    /\ resultCaps = {} /\ paramGrants = {} /\ references = 0
    /\ reference = [q \in CallbackCalls |-> "none"]
    /\ finishSent = [q \in WireQuestions |-> "none"]
    /\ reached = {} /\ returned = [q \in WireQuestions |-> 0]

AdmissionFull == Cardinality(paramGrants) >= MaxGrants
Pending == {q \in WireQuestions : wait[q] = "pending"}
At(q, where) == asking' = [asking EXCEPT ![q] = where]

\* #rejectAllPending
RejectPending == wait' = [q \in WireQuestions |-> IF q \in Pending THEN "error" ELSE wait[q]]

\* A stub exports its callback, which a closed client and a full table refuse,
\* and calls; #ensureReady() begins.
StubCalls(q) ==
    /\ asking[q] = "idle" /\ Cardinality({p \in WireQuestions : asking[p] # "idle"}) < MaxWireQuestions
    /\ IF wireClosed \/ (q \in CallbackCalls /\ AdmissionFull)
       THEN At(q, "done") /\ UNCHANGED <<references, reference>>
       ELSE /\ At(q, "ready")
            /\ references' = references + Cardinality({q} \cap CallbackCalls)
            /\ reference' = [c \in CallbackCalls |-> IF c = q THEN "local" ELSE reference[c]]
    /\ UNCHANGED <<started, wireClosed, wait, resultCaps, paramGrants, finishSent, peerSide>>

\* transport.start() ends.
StartSettles ==
    /\ started = "starting"
    /\ \/ started' = "up" /\ UNCHANGED wait
       \/ started' = "failed" /\ RejectPending
    /\ UNCHANGED <<wireClosed, asking, resultCaps, capSide, finishSent, peerSide>>

\* #ensureReady() ends, which the end of the transport makes it do as well.
Ready(q) ==
    /\ asking[q] = "ready" /\ (started # "starting" \/ wireClosed)
    /\ At(q, IF wireClosed \/ started = "failed" THEN "done" ELSE "checked")
    /\ UNCHANGED <<started, wireClosed, wait, resultCaps, capSide, finishSent, peerSide>>

Records(q) ==
    /\ paramGrants' = paramGrants \cup ({q} \cap CallbackCalls)
    /\ reference' = [c \in CallbackCalls |-> IF c = q THEN "granted" ELSE reference[c]]

\* From the admission check to the waiter of #requestReturn nothing is awaited.
\* An aborted signal settles the waiter at once; the frame is sent all the same.
Ask(q) ==
    /\ asking[q] = "checked"
    /\ IF wireClosed \/ (q \in CallbackCalls /\ AdmissionFull)
       THEN At(q, "done") /\ UNCHANGED <<wait, paramGrants, reference>>
       ELSE /\ At(q, "turn")
            /\ wait' \in {[wait EXCEPT ![q] = w] : w \in {"pending", "error"}}
            /\ Records(q)
    /\ UNCHANGED <<started, wireClosed, resultCaps, references, finishSent, peerSide>>

\* The frame is handed to the transport one turn later.
HandOff(q) ==
    /\ asking[q] = "turn"
    /\ At(q, IF wireClosed THEN "done" ELSE "sending")
    /\ UNCHANGED <<started, wireClosed, wait, resultCaps, capSide, finishSent, peerSide>>

FrameArrives(q) ==
    /\ asking[q] = "sending" /\ q \notin reached /\ ~wireClosed
    /\ reached' = reached \cup {q}
    /\ UNCHANGED <<started, wireClosed, asking, wait, resultCaps, capSide, finishSent, returned>>

SendCompletes(q) ==
    /\ asking[q] = "sending" /\ q \in reached
    /\ At(q, "waiting")
    /\ UNCHANGED <<started, wireClosed, wait, resultCaps, capSide, finishSent, peerSide>>

\* The frame may be with the peer, so the grants stay.  No Finish is sent, not
\* even for a Return that has come.
WireSendFails(q) ==
    /\ asking[q] = "sending"
    /\ At(q, "done")
    /\ wait' = [wait EXCEPT ![q] = IF @ = "pending" THEN "error" ELSE @]
    /\ UNCHANGED <<started, wireClosed, resultCaps, capSide, finishSent, peerSide>>

\* The request is raced with #closeSignal while the write lags.
StopsWaiting(q) ==
    /\ asking[q] = "sending" /\ wireClosed
    /\ At(q, "done")
    /\ UNCHANGED <<started, wireClosed, wait, resultCaps, capSide, finishSent, peerSide>>

\* The wait is over.  A failed one is followed by a Finish unless autoFinish is
\* off; results by one of the stub's, unless the Return needs none; an exception
\* by none.
WaitIsOver(q) ==
    /\ asking[q] = "waiting" /\ wait[q] # "pending"
    /\ \/ wait[q] # "exception" /\ At(q, "finishing")
       \/ At(q, "done")
    /\ UNCHANGED <<started, wireClosed, wait, resultCaps, capSide, finishSent, peerSide>>

\* finish(): bootstrap() keeps what it was given; otherwise a question whose caller
\* got capabilities does.
Finish(q) ==
    /\ asking[q] = "finishing"
    /\ IF wireClosed THEN At(q, "done") /\ UNCHANGED <<resultCaps, finishSent>>
       ELSE /\ At(q, "lastSend")
            /\ resultCaps' = resultCaps \ {q}
            /\ finishSent' = [finishSent EXCEPT ![q] =
                   IF q \in resultCaps \/ (q \in Bootstraps /\ wait[q] \in Given)
                   THEN "keeps" ELSE "releases"]
    /\ UNCHANGED <<started, wireClosed, wait, capSide, peerSide>>

FinishSettles(q) ==
    /\ asking[q] = "lastSend"
    /\ At(q, "done")
    /\ UNCHANGED <<started, wireClosed, wait, resultCaps, capSide, finishSent, peerSide>>

(***************************************************************************)
(* #onFrame                                                                *)
(***************************************************************************)
Drops(q) == /\ references' = IF references > 0 THEN references - 1 ELSE 0
            /\ reference' = [reference EXCEPT ![q] = "released"]

\* Broken form: every Return releases, also one that comes again.
SettlesAgain(q, release) ==
    /\ paramGrants' = paramGrants \ {q}
    /\ IF q \in CallbackCalls /\ ~wireClosed /\ release
       THEN Drops(q) ELSE UNCHANGED <<references, reference>>

\* #settleParamCapGrants
Settles(q, release) ==
    /\ paramGrants' = paramGrants \ {q}
    /\ IF q \notin paramGrants THEN UNCHANGED <<references, reference>>
       ELSE IF release THEN Drops(q)
       ELSE reference' = [reference EXCEPT ![q] = "peer"] /\ UNCHANGED references

\* The capabilities of a Return are the caller's only if it still waits.
Notes(q, kind) ==
    resultCaps' = resultCaps \cup {r \in {q} : kind = "caps" /\ wait[q] = "pending"}

ReturnArrives(q, kind, release) ==
    /\ q \in reached /\ returned[q] < IF q \in Repeated THEN 2 ELSE 1
    /\ returned' = [returned EXCEPT ![q] = @ + 1]
    /\ Settles(q, release)
    /\ Notes(q, kind)
    /\ wait' = [wait EXCEPT ![q] = IF @ = "pending" THEN kind ELSE @]
    /\ UNCHANGED <<started, wireClosed, asking, finishSent, reached>>

\* A Release for a parameter that the peer has kept.
ReleaseArrives(q) ==
    /\ q \in CallbackCalls /\ reference[q] = "peer" /\ ~wireClosed
    /\ Drops(q)
    /\ UNCHANGED <<started, wireClosed, asking, wait, resultCaps, paramGrants, finishSent,
                   peerSide>>

\* A Return that cannot be decoded, or a callback that cannot be handled or
\* answered, fails whoever waits.
InboundFails ==
    /\ Pending # {}
    /\ RejectPending
    /\ UNCHANGED <<started, wireClosed, asking, resultCaps, capSide, finishSent, peerSide>>

\* A timeout or an abort.
WaitCanceled(q) ==
    /\ q \in Pending
    /\ wait' = [wait EXCEPT ![q] = "error"]
    /\ UNCHANGED <<started, wireClosed, asking, resultCaps, capSide, finishSent, peerSide>>

\* #markClosed(), from close() or from the transport.
WireMarkClosed ==
    /\ ~wireClosed /\ wireClosed' = TRUE
    /\ RejectPending
    /\ resultCaps' = {} /\ paramGrants' = {} /\ references' = 0
    /\ UNCHANGED <<started, asking, reference, finishSent, peerSide>>

\* What the client does by itself.
Continues(q) ==
    \/ Ready(q) \/ Ask(q) \/ HandOff(q) \/ StopsWaiting(q) \/ WaitIsOver(q) \/ Finish(q)

WireNext ==
    \/ \E q \in WireQuestions :
           \/ StubCalls(q) \/ Continues(q) \/ WaitCanceled(q)
           \/ FrameArrives(q) \/ SendCompletes(q) \/ WireSendFails(q) \/ FinishSettles(q)
           \/ \E kind \in Given \cup {"exception"}, release \in BOOLEAN :
                  ReturnArrives(q, kind, release)
           \/ ReleaseArrives(q)
    \/ StartSettles \/ InboundFails \/ WireMarkClosed

WireSpec == WireInit /\ [][WireNext]_wireVars

\* Nothing is assumed of the transport or of the peer.
WireFairness == \A q \in WireQuestions : WF_wireVars(Continues(q))
WireFairSpec == WireSpec /\ WireFairness

(***************************************************************************)
(* Properties.                                                             *)
(***************************************************************************)
\* The Finish of a question, whatever came before it in whatever order, keeps the
\* result capabilities exactly if its caller has been given them.
FinishKeepsWhatIsHeld ==
    \A q \in WireQuestions : finishSent[q] # "none" =>
        (finishSent[q] = "keeps") = (IF q \in Bootstraps THEN wait[q] \in Given
                                                         ELSE wait[q] = "caps")

\* Every reference of the exported capability is in one place.  A canceled wait, a
\* failed write and a Return that comes again do not give back what a peer may
\* hold, and no reference is given back twice.
ReferencesAccounted ==
    IF wireClosed THEN Pending \cup resultCaps \cup paramGrants = {} /\ references = 0
    ELSE /\ references = Cardinality({q \in CallbackCalls :
                             reference[q] \in {"local", "granted", "peer"}})
         /\ paramGrants = {q \in CallbackCalls : reference[q] = "granted"}
         /\ {q \in CallbackCalls : asking[q] \notin {"idle", "ready", "checked", "turn"}
                /\ q \in reached /\ returned[q] = 0} \subseteq paramGrants

\* "rejects pending calls": once the transport has ended, whatever a peer or a
\* lagging write does, every request ends, or is at the write of its Finish.
EofRejects ==
    \A q \in WireQuestions :
        (wireClosed /\ asking[q] # "idle") ~> (asking[q] \in {"done", "lastSend"})
=============================================================================
