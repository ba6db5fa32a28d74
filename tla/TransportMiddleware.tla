-------------------------- MODULE TransportMiddleware --------------------------
(* MiddlewareTransport and its built-in middleware (middleware/rpc_middleware.ts). *)
(*                                                                              *)
(* send() takes a frame through the onSend of each middleware and awaits every   *)
(* result, so several frames may be on their way at once.  What is awaited and   *)
(* ready resumes in the order of its await; an asynchronous middleware answers   *)
(* when it likes.  Inbound frames come one at a time, because the transports     *)
(* await their handler.                                                         *)
EXTENDS Integers, Sequences, FiniteSets, SequencesExt

CONSTANTS
    Outbound, Inbound,  \* numbers of frames, in the order they are sent and come in
    LargeFrames,        \* those above the limit of the size middleware
    Stacks,             \* stacks of middleware, outermost first
    SnapshotInterval    \* snapshotIntervalFrames

ASSUME MiddlewareAssumption ==
    /\ Outbound \cup Inbound \subseteq Nat /\ Outbound \cap Inbound = {}
    /\ IsFiniteSet(Outbound) /\ LargeFrames \subseteq Outbound \cup Inbound
    \* The counters are those of one middleware, which is in the stack once.
    /\ \A s \in Stacks :
           /\ s \in Seq({"observer", "sendLimit", "limit", "metrics", "filter", "async"})
           /\ \A i, j \in DOMAIN s : s[i] = "metrics" /\ s[j] = "metrics" => i = j
    /\ SnapshotInterval \in Nat \ {0}

VARIABLES
    stack,
    passage,      \* per frame: the middleware it is at, and how it stands
    ready,        \* the frames whose await is over, in that order
    toInner,      \* what inner.send was given
    toHandler,    \* what onFrame was given
    metrics       \* the counters of createRpcMetricsMiddleware

middlewareVars == <<stack, passage, ready, toInner, toHandler, metrics>>

Passing == Outbound \cup Inbound
States == {"idle", "asked", "ready", "through", "dropped", "thrown"}

MiddlewareTypeOK ==
    /\ stack \in Stacks
    /\ passage \in [Passing -> [at : Nat, is : States]]
    /\ ready \in Seq(Passing) /\ toInner \in Seq(Outbound) /\ toHandler \in Seq(Inbound)
    /\ metrics \in [sent : Nat, received : Nat, total : Nat, snapshots : Nat]

NoCounts == [sent |-> 0, received |-> 0, total |-> 0, snapshots |-> 0]

MiddlewareInit ==
    /\ stack \in Stacks
    /\ passage = [f \in Passing |-> [at |-> 0, is |-> "idle"]]
    /\ ready = <<>> /\ toInner = <<>> /\ toHandler = <<>>
    /\ metrics = NoCounts

\* createRpcMetricsMiddleware: a frame is counted as it passes; a snapshot is given
\* at every multiple of the interval.
Counted(f) ==
    [metrics EXCEPT !.sent = @ + (IF f \in Outbound THEN 1 ELSE 0),
                    !.received = @ + (IF f \in Inbound THEN 1 ELSE 0),
                    !.total = @ + 1,
                    !.snapshots = @ +
                        (IF (metrics.total + 1) % SnapshotInterval = 0 THEN 1 ELSE 0)]

\* Logging, introspection and the counters hand on the frame they are given.
Observers == {"observer", "metrics"}

\* createFrameSizeLimitMiddleware, with its direction.
TooLarge(f, kind) ==
    f \in LargeFrames /\ (kind = "limit" \/ (kind = "sendLimit" /\ f \in Outbound))

Stands(f, at, is) == passage' = [passage EXCEPT ![f] = [at |-> at, is |-> is]]

\* Middleware k of the stack is given a frame; `rest` is ready before it.
Enters(f, k, rest) ==
    LET kind == stack[k]
    IN /\ metrics' = IF kind = "metrics" THEN Counted(f) ELSE metrics
       /\ \/ TooLarge(f, kind) /\ Stands(f, k, "thrown") /\ ready' = rest
          \/ kind = "async" /\ Stands(f, k, "asked") /\ ready' = rest
          \/ kind = "filter" /\ Stands(f, k, "dropped") /\ ready' = rest
          \/ /\ kind \in Observers \cup {"limit", "sendLimit", "filter"}
             /\ ~TooLarge(f, kind)
             /\ Stands(f, k, "ready") /\ ready' = Append(rest, f)
    /\ UNCHANGED <<stack, toInner, toHandler>>

\* Behind the last one: inner.send or the handler.
Leaves(f, rest) ==
    /\ Stands(f, Len(stack), "through") /\ ready' = rest
    /\ IF f \in Outbound
       THEN toInner' = Append(toInner, f) /\ UNCHANGED toHandler
       ELSE toHandler' = Append(toHandler, f) /\ UNCHANGED toInner
    /\ UNCHANGED <<stack, metrics>>

\* A middleware without a hook for the direction is passed over, and not awaited.
Hooked(f, k) == stack[k] = "sendLimit" => f \in Outbound

Chain(f, k, rest) ==
    LET hooks == {j \in k .. Len(stack) : Hooked(f, j)}
    IN IF hooks # {} THEN Enters(f, Min(hooks), rest) ELSE Leaves(f, rest)

FrameEnded(f) == passage[f].is \in {"through", "dropped", "thrown"}

\* send(): frames are handed over in order, and nobody waits for the one before.
Send(f) ==
    /\ f \in Outbound /\ passage[f].is = "idle"
    /\ \A g \in Outbound : g < f => passage[g].is # "idle"
    /\ Chain(f, 1, ready)

\* The transport has awaited the frame before this one.
Receive(f) ==
    /\ f \in Inbound /\ passage[f].is = "idle"
    /\ \A g \in Inbound : g < f => FrameEnded(g)
    /\ Chain(f, 1, ready)

\* Broken form: the frame that came last goes on first.
ResumesLast ==
    /\ ready # <<>>
    /\ Chain(Last(ready), passage[Last(ready)].at + 1, Front(ready))

Resumes ==
    /\ ready # <<>>
    /\ Chain(Head(ready), passage[Head(ready)].at + 1, Tail(ready))

\* An asynchronous middleware answers: with the frame, with null or by a throw.
Answers(f) ==
    /\ passage[f].is = "asked"
    /\ \E is \in {"ready", "dropped", "thrown"} :
           /\ Stands(f, passage[f].at, is)
           /\ ready' = IF is = "ready" THEN Append(ready, f) ELSE ready
    /\ UNCHANGED <<stack, toInner, toHandler, metrics>>

\* reset(), in the middle of the traffic.
ResetMetrics ==
    /\ metrics.total > 0
    /\ metrics' = NoCounts
    /\ UNCHANGED <<stack, passage, ready, toInner, toHandler>>

MiddlewareNext ==
    \/ Resumes \/ ResetMetrics
    \/ \E f \in Passing : Send(f) \/ Receive(f) \/ Answers(f)

MiddlewareSpec == MiddlewareInit /\ [][MiddlewareNext]_middlewareVars

(***************************************************************************)
(* Properties.                                                             *)
(***************************************************************************)
InOrder(s) == \A i, j \in DOMAIN s : i < j => s[i] < s[j]
Asynchronous == "async" \in ToSet(stack)

\* A stack without asynchronous middleware keeps the order of concurrent sends, each
\* frame once, and inbound frames keep theirs whatever the stack does.
OrderKept ==
    /\ InOrder(toHandler)
    /\ ~Asynchronous => InOrder(toInner)
    /\ IsInjective(toInner)

\* No frame above the limit gets past it, in the direction the limit is set for.
LimitsEnforced ==
    \A i \in DOMAIN stack : \A f \in Passing :
        TooLarge(f, stack[i]) => f \notin ToSet(toInner) \cup ToSet(toHandler)

\* The counters add up, across a reset too, and never exceed the frames that have
\* entered the stack.
CountsAddUp ==
    /\ metrics.total = metrics.sent + metrics.received
    /\ metrics.sent <= Cardinality({f \in Outbound : passage[f].is # "idle"})
    /\ metrics.snapshots = metrics.total \div SnapshotInterval
=============================================================================
