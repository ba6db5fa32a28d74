----------------------------- MODULE ServerRuntime -----------------------------
(* RpcServerRuntime (src/rpc/server/runtime.ts): an RpcSession whose transport  *)
(* is a PostInboundHookTransport.  What the session sends while a frame is      *)
(* processed is deferred; a second chain observes the bridge's bootstrap        *)
(* answers, pumps host calls into the bridge, and then sends the deferred       *)
(* frames.  Handlers run in the background; each one that settles flushes the   *)
(* peer's queue by itself.                                                      *)
(*                                                                              *)
(* The session's actions are those of RpcSession, joined with what the hook     *)
(* does in the same step.  A "call" frame becomes the host call of its number.  *)
(* "sent" of RpcSession is what the session handed to the hook; "wire" is what  *)
(* reached the real transport.                                                  *)
EXTENDS RpcSession, FiniteSets

CONSTANTS
    FrameKinds,               \* kinds of inbound frames that occur
    MaxCallsPerInboundFrame,
    MaxCallsTotal,
    FailOnLimit,              \* failOnLimit
    ManualPump,               \* the application calls pumpHostCallsNow itself
    InnerSendMayFail,         \* the real transport may reject a frame
    BridgeMayRefuse           \* observeBootstrapResponse may throw

ASSUME KindsAssumption == FrameKinds \subseteq {"bootstrap", "call", "other"}
ASSUME PumpAssumption == {MaxCallsPerInboundFrame, MaxCallsTotal}
                             \subseteq Nat \ {0}
ASSUME RuntimeModeAssumption == {FailOnLimit, ManualPump,
                                 InnerSendMayFail, BridgeMayRefuse}
                                    \subseteq BOOLEAN

VARIABLES
    kind,
    cell,            \* whose list #deferredOutboundFrames is; 0 for null
    deferred,        \* the list captured for each inbound frame
    hookDone,        \* tasks of #afterInboundChain that are done
    hookStage, hookError,
    observed,        \* bootstrap answers the bridge has seen
    hostCalls,       \* host calls queued in the peer
    handler,
    pump,            \* the two users of pumpHostCallsNow
    totalPumped, pumpDisabled,
    flushing,        \* frames each flush has drained and not yet sent
    wire

hookVars == <<kind, cell, deferred, hookDone, hookStage, hookError, observed>>
callVars == <<hostCalls, handler, pump, totalPumped, pumpDisabled>>
runtimeVars == <<sessionVars, hookVars, callVars, flushing, wire>>

Hook == 0          \* the pump of #afterInboundFrame
Manual == -1       \* the application's pump
Pumps == {Hook, Manual}
Flushers == Frames \cup Pumps
IdlePump == [at |-> "idle", budget |-> 0, handled |-> 0]

RuntimeTypeOK ==
    /\ TypeOK
    /\ kind \in [Frames -> FrameKinds \cup {"none"}]
    /\ cell \in 0 .. arrived
    /\ deferred \in [Frames -> Seq(Outbound)]
    /\ hookDone \in 0 .. arrived
    /\ hookStage \in {"waiting", "pumping", "sending", "closing"}
    /\ hookError \in BOOLEAN /\ pumpDisabled \in BOOLEAN
    /\ observed \subseteq Frames
    /\ hostCalls \in Seq(Frames)
    /\ handler \in [Frames -> {"none", "running", "settled", "flushing",
                               "done"}]
    /\ pump \in [Pumps -> [at : {"idle", "popping", "flushing"},
                           budget : Nat, handled : Nat]]
    /\ totalPumped \in Nat
    /\ flushing \in [Flushers -> Seq(Outbound)]
    /\ wire \in Seq(Outbound)

Init ==
    /\ SessionInit
    /\ kind = [n \in Frames |-> "none"]
    /\ cell = 0
    /\ deferred = [n \in Frames |-> <<>>]
    /\ hookDone = 0 /\ hookStage = "waiting" /\ hookError = FALSE
    /\ observed = {}
    /\ hostCalls = <<>> /\ handler = [n \in Frames |-> "none"]
    /\ pump = [p \in Pumps |-> IdlePump]
    /\ totalPumped = 0 /\ pumpDisabled = FALSE
    /\ flushing = [f \in Flushers |-> <<>>]
    /\ wire = <<>>

(***************************************************************************)
(* The hook around the session.                                            *)
(***************************************************************************)
\* Broken form: every send goes straight to the real transport.
SendUndeferred(frame) ==
    /\ transportOpen
    /\ wire' = Append(wire, frame)
    /\ UNCHANGED deferred

\* PostInboundHookTransport.send: kept while a frame is being processed.
HookSend(frame) ==
    IF cell # 0
    THEN /\ deferred' = [deferred EXCEPT ![cell] = Append(@, frame)]
         /\ UNCHANGED wire
    ELSE /\ transportOpen
         /\ wire' = Append(wire, frame)
         /\ UNCHANGED deferred

\* A frame is delivered: a new list takes the frames sent from now on.
HookArrive(k) ==
    /\ Arrive
    /\ cell' = arrived + 1
    /\ kind' = [kind EXCEPT ![arrived + 1] = k]
    /\ UNCHANGED <<deferred, hookDone, hookStage, hookError, observed, callVars,
                   flushing, wire>>

\* The peer answers a Bootstrap with one frame and hands a Call to the host.
HookBeginPump(k) ==
    /\ BeginPump(k)
    /\ pumping' /\ kind[begun + 1] = "bootstrap" => k = 1
    /\ cell' = IF pumping' THEN cell ELSE 0
    /\ hostCalls' = IF pumping' /\ kind[begun + 1] = "call"
                    THEN Append(hostCalls, begun + 1) ELSE hostCalls
    /\ UNCHANGED <<kind, deferred, hookDone, hookStage, hookError, observed,
                   handler, pump, totalPumped, pumpDisabled, flushing, wire>>

\* The hook takes the frame, or the real transport does.
HookPumpSend ==
    /\ PumpSend
    /\ HookSend(Head(sending))
    /\ UNCHANGED <<kind, cell, hookDone, hookStage, hookError, observed,
                   callVars, flushing>>

\* Broken form: the list stays in place when the frame is done.
PumpEndKeepsCell ==
    /\ SkipFrame \/ PumpEnd
    /\ UNCHANGED <<hookVars, callVars, flushing, wire>>

\* The frame's promise settles: frames are no longer deferred.
HookPumpEnd ==
    /\ SkipFrame \/ PumpEnd
    /\ cell' = 0
    /\ UNCHANGED <<kind, deferred, hookDone, hookStage, hookError, observed,
                   callVars, flushing, wire>>

(***************************************************************************)
(* The tasks of #afterInboundChain.                                        *)
(***************************************************************************)
Task == hookDone + 1
\* An error onError did not take rejects the promise of its frame, and that of
\* every frame after it.
Fulfilled(n) == outcome[n] \in {"ok", "failed", "refused"}

\* After one error the task returns at once: what was deferred is dropped.
\* Otherwise it waits for the frame, and a rejection becomes that error.
HookGivesUp ==
    /\ hookStage = "waiting" /\ Task <= arrived
    /\ hookError \/ (Settled(Task) /\ ~Fulfilled(Task))
    /\ hookError' = TRUE
    /\ hookDone' = Task
    /\ UNCHANGED <<sessionVars, kind, cell, deferred, hookStage, observed,
                   callVars, flushing, wire>>

Answers(n) == {i \in DOMAIN deferred[n] : deferred[n][i].of = n}

\* A bootstrap answer is recorded by the bridge before anything else happens.
BootstrapAnswered == kind[Task] = "bootstrap" /\ Answers(Task) # {}

HookObserves ==
    /\ hookStage = "waiting" /\ Task <= arrived
    /\ ~hookError
    /\ Settled(Task) /\ Fulfilled(Task)
    /\ BootstrapAnswered => ~closed
    /\ observed' = IF BootstrapAnswered THEN observed \cup {Task} ELSE observed
    /\ hookStage' = "pumping"
    /\ UNCHANGED <<sessionVars, kind, cell, deferred, hookDone, hookError,
                   callVars, flushing, wire>>

\* The bridge refuses the answer, as it does when it is closed: the runtime
\* closes bridge and session, and the task fails when that is done.  Closing a
\* closed session waits for nothing.
HookRefused ==
    /\ hookStage = "waiting" /\ Task <= arrived
    /\ ~hookError
    /\ Settled(Task) /\ Fulfilled(Task)
    /\ BootstrapAnswered
    /\ BridgeMayRefuse \/ closed
    /\ IF closed
       THEN /\ hookError' = TRUE /\ hookDone' = Task
            /\ UNCHANGED <<sessionVars, hookStage>>
       ELSE /\ Close
            /\ hookStage' = "closing"
            /\ UNCHANGED <<hookError, hookDone>>
    /\ UNCHANGED <<kind, cell, deferred, observed, callVars, flushing, wire>>

HookClosed ==
    /\ hookStage = "closing" /\ stage = "done"
    /\ hookStage' = "waiting" /\ hookError' = TRUE /\ hookDone' = Task
    /\ UNCHANGED <<sessionVars, kind, cell, deferred, observed, callVars,
                   flushing, wire>>

\* The deferred frames of the task go out one by one.
HookSendsDeferred ==
    /\ hookStage = "sending"
    /\ IF deferred[Task] = <<>>
       THEN /\ hookStage' = "waiting" /\ hookDone' = Task
            /\ UNCHANGED <<deferred, hookError, wire>>
       ELSE \/ /\ transportOpen
               /\ wire' = Append(wire, Head(deferred[Task]))
               /\ deferred' = [deferred EXCEPT ![Task] = Tail(@)]
               /\ UNCHANGED <<hookStage, hookDone, hookError>>
            \/ /\ InnerSendMayFail \/ ~transportOpen
               /\ hookStage' = "waiting" /\ hookDone' = Task
               /\ hookError' = TRUE
               /\ UNCHANGED <<deferred, wire>>
    /\ UNCHANGED <<sessionVars, kind, cell, observed, callVars, flushing>>

(***************************************************************************)
(* pumpHostCallsNow, called by the hook after each frame and by the        *)
(* application at any time.  The bridge runs at most one call to its first *)
(* await before the next one is popped.  The bridge is closed exactly when *)
(* the session is: RpcServerRuntime closes both in one step.               *)
(***************************************************************************)
Least(a, b) == IF a < b THEN a ELSE b

\* What the hook does when its pump ends: send what was deferred, or fail.
HookContinues(failed) ==
    /\ hookStage' = IF failed THEN "waiting" ELSE "sending"
    /\ hookError' = (hookError \/ failed)
    /\ hookDone' = IF failed THEN Task ELSE hookDone

PumpReturns(p, failed) ==
    IF p = Hook THEN HookContinues(failed)
    ELSE UNCHANGED <<hookStage, hookError, hookDone>>

Remaining == MaxCallsTotal - totalPumped

\* The budget is fixed when the pump starts.  At the total limit the pump fails
\* or switches itself off.
PumpStarts(p) ==
    /\ pump[p] = IdlePump
    /\ IF p = Hook THEN hookStage = "pumping" ELSE ManualPump /\ ~pumpDisabled
    /\ IF pumpDisabled \/ Remaining <= 0
       THEN /\ PumpReturns(p, ~pumpDisabled /\ FailOnLimit)
            /\ pumpDisabled' = (pumpDisabled \/ ~FailOnLimit)
            /\ UNCHANGED pump
       ELSE /\ pump' = [pump EXCEPT ![p] =
                   [at |-> "popping", handled |-> 0,
                    budget |-> IF closed THEN 0
                               ELSE Least(MaxCallsPerInboundFrame, Remaining)]]
            /\ UNCHANGED <<hookStage, hookError, hookDone, pumpDisabled>>
    /\ UNCHANGED <<sessionVars, kind, cell, deferred, observed, hostCalls,
                   handler, totalPumped, flushing, wire>>

\* The bridge dispatches the call; one that is closed by now answers it with an
\* exception.  A closed peer hands out no call: the pump throws.
PopHostCall(p) ==
    /\ pump[p].at = "popping" /\ pump[p].handled < pump[p].budget
    /\ \/ /\ hostCalls # <<>> /\ stage # "done"
          /\ hostCalls' = Tail(hostCalls)
          /\ handler' = [handler EXCEPT ![Head(hostCalls)] =
                             IF closed THEN "done" ELSE "running"]
          /\ IF closed THEN HostReply ELSE UNCHANGED sessionVars
          /\ pump' = [pump EXCEPT ![p].handled = @ + 1]
          /\ UNCHANGED <<hookStage, hookError, hookDone>>
       \/ /\ stage = "done"
          /\ pump' = [pump EXCEPT ![p] = IdlePump]
          /\ PumpReturns(p, TRUE)
          /\ UNCHANGED <<sessionVars, hostCalls, handler>>
    /\ UNCHANGED <<kind, cell, deferred, observed, totalPumped, pumpDisabled,
                   flushing, wire>>

\* #flushPeerOutboundFrames drains the peer in one step.
Drain(f) ==
    LET n == Least(DrainLimit, Len(queue)) IN
    /\ flushing' = [flushing EXCEPT ![f] = SubSeq(queue, 1, n)]
    /\ queue' = SubSeq(queue, n + 1, Len(queue))
    /\ UNCHANGED <<lifeVars, pumpVars, produced, hostReplies, sent>>

PumpPopped(p) ==
    /\ pump[p].at = "popping"
    /\ \/ pump[p].handled = pump[p].budget
       \/ hostCalls = <<>> /\ stage # "done"
    /\ totalPumped' = totalPumped + pump[p].handled
    /\ \/ /\ pump[p].handled = 0
          /\ pump' = [pump EXCEPT ![p].at = "flushing"]
          /\ UNCHANGED <<sessionVars, flushing, hookStage, hookError, hookDone>>
       \/ /\ pump[p].handled > 0 /\ stage # "done"
          /\ pump' = [pump EXCEPT ![p].at = "flushing"]
          /\ Drain(p)
          /\ UNCHANGED <<hookStage, hookError, hookDone>>
       \/ /\ pump[p].handled > 0 /\ stage = "done"
          /\ pump' = [pump EXCEPT ![p] = IdlePump]
          /\ PumpReturns(p, TRUE)
          /\ UNCHANGED <<sessionVars, flushing>>
    /\ UNCHANGED <<kind, cell, deferred, observed, hostCalls, handler,
                   pumpDisabled, wire>>

PumpFlushed(p) ==
    /\ pump[p].at = "flushing" /\ flushing[p] = <<>>
    /\ pump' = [pump EXCEPT ![p] = IdlePump]
    /\ PumpReturns(p, Remaining <= 0 /\ FailOnLimit)
    /\ pumpDisabled' = (pumpDisabled \/ (Remaining <= 0 /\ ~FailOnLimit))
    /\ UNCHANGED <<sessionVars, kind, cell, deferred, observed, hostCalls,
                   handler, totalPumped, flushing, wire>>

\* One frame of a flush goes out, through the hook.
FlushSend(f) ==
    /\ flushing[f] # <<>>
    /\ HookSend(Head(flushing[f]))
    /\ flushing' = [flushing EXCEPT ![f] = Tail(@)]
    /\ UNCHANGED <<sessionVars, kind, cell, hookDone, hookStage, hookError,
                   observed, callVars>>

\* A failed send abandons what the flush had drained.
FlushFails(f) ==
    /\ flushing[f] # <<>>
    /\ cell = 0 /\ (InnerSendMayFail \/ ~transportOpen)
    /\ flushing' = [flushing EXCEPT ![f] = <<>>]
    /\ IF f \in Pumps
       THEN /\ pump' = [pump EXCEPT ![f] = IdlePump]
            /\ PumpReturns(f, TRUE)
            /\ UNCHANGED handler
       ELSE /\ handler' = [handler EXCEPT ![f] = "done"]
            /\ UNCHANGED <<pump, hookStage, hookError, hookDone>>
    /\ UNCHANGED <<sessionVars, kind, cell, deferred, observed, hostCalls,
                   totalPumped, pumpDisabled, wire>>

(***************************************************************************)
(* Handlers.                                                               *)
(***************************************************************************)
\* A handler may call back over the connection while it runs (OutboundClient).
\* The answer goes into the peer's queue, unless the bridge is closed.
HandlerSettles(c) ==
    /\ handler[c] = "running"
    /\ handler' = [handler EXCEPT ![c] = "settled"]
    /\ IF closed THEN UNCHANGED sessionVars ELSE HostReply
    /\ UNCHANGED <<hookVars, hostCalls, pump, totalPumped, pumpDisabled,
                   flushing, wire>>

\* onAsyncHostCallSettled: a flush, which fails on a closed peer.
HandlerFlushes(c) ==
    /\ \/ /\ handler[c] = "settled" /\ stage # "done"
          /\ handler' = [handler EXCEPT ![c] = "flushing"]
          /\ Drain(c)
       \/ /\ \/ handler[c] = "settled" /\ stage = "done"
             \/ handler[c] = "flushing" /\ flushing[c] = <<>>
          /\ handler' = [handler EXCEPT ![c] = "done"]
          /\ UNCHANGED <<sessionVars, flushing>>
    /\ UNCHANGED <<hookVars, hostCalls, pump, totalPumped, pumpDisabled, wire>>

(***************************************************************************)
(* The specification.                                                      *)
(***************************************************************************)
SessionAlone ==
    /\ StartBegin \/ StartEnd \/ Close \/ CloseStep \/ RemoteClose
    /\ UNCHANGED <<hookVars, callVars, flushing, wire>>

HookStep ==
    \/ HookPumpSend \/ HookPumpEnd
    \/ HookGivesUp \/ HookObserves \/ HookRefused \/ HookClosed
    \/ HookSendsDeferred

HandlerStep(c) == HandlerSettles(c) \/ HandlerFlushes(c)
PumpAction(p) == PumpStarts(p) \/ PopHostCall(p) \/ PumpPopped(p) \/ PumpFlushed(p)

RuntimeNext ==
    \/ SessionAlone
    \/ \E k \in FrameKinds : HookArrive(k)
    \/ \E k \in 0 .. MaxReplies : HookBeginPump(k)
    \/ HookStep
    \/ \E p \in Pumps : PumpAction(p)
    \/ \E f \in Flushers : FlushSend(f) \/ FlushFails(f)
    \/ \E c \in Frames : HandlerStep(c)

RuntimeSpec == Init /\ [][RuntimeNext]_runtimeVars

RuntimeFairness ==
    /\ WF_runtimeVars(HookStep)
    /\ WF_runtimeVars(\E k \in 0 .. MaxReplies : HookBeginPump(k))
    /\ WF_runtimeVars(CloseStep /\ UNCHANGED <<hookVars, callVars, flushing,
                                              wire>>)
    /\ \A p \in Pumps : WF_runtimeVars(PumpAction(p))
    /\ \A f \in Flushers : WF_runtimeVars(FlushSend(f) \/ FlushFails(f))
    /\ \A c \in Frames : WF_runtimeVars(HandlerStep(c))

\* Continuations that are ready run, sends settle, and handlers return.
RuntimeFairSpec == RuntimeSpec /\ RuntimeFairness

(***************************************************************************)
(* Properties.                                                             *)
(***************************************************************************)
OnWire == {wire[i].seq : i \in DOMAIN wire}

\* A bootstrap answer is on the wire only when the bridge knows it, so that a
\* call pipelined on it finds an answer (the ordering the hook exists for).
BootstrapObserved ==
    \A i \in DOMAIN wire :
        wire[i].of # 0 /\ kind[wire[i].of] = "bootstrap"
            => wire[i].of \in observed

\* The pump, the hook and the flush of every handler drain the same queue: no
\* frame goes out twice.
NoFrameTwice == Cardinality(OnWire) = Len(wire)

\* Nothing stays behind in a queue, the session hands frames over in the order of their
\* production, and what the hook holds is of its types.
QueuesKept == RuntimeTypeOK /\ NothingLeftBehind /\ SentInOrder

\* The wire carries each frame once, and a bootstrap answer no sooner than the bridge
\* knows it.
SentOnceObserved == BootstrapObserved /\ NoFrameTwice

\* When nothing fails and nobody closes, the answers that were given reach the
\* wire, or the runtime remembers an error.
FramesReachWire ==
    \A s \in 1 .. MaxFrames * MaxReplies + MaxHostReplies :
        (produced >= s) ~> (closed \/ hookError \/ s \in OnWire)

\* A call the peer handed to the host is dispatched and its answer flushed,
\* unless the limit on calls switched the pump off.
CallsAnswered ==
    \A c \in Frames :
        (\E i \in DOMAIN hostCalls : hostCalls[i] = c)
            ~> (handler[c] = "done" \/ closed \/ hookError \/ pumpDisabled)

\* maxCallsTotal is the most that is pumped over the runtime's lifetime.
TotalWithinLimit == totalPumped <= MaxCallsTotal

\* The wire carries what the peer produced in the order it produced it.
WireInOrder == \A i, j \in DOMAIN wire : i < j => wire[i].seq < wire[j].seq
=============================================================================
