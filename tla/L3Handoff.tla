------------------------------- MODULE L3Handoff -------------------------------
(* The waits of a Level-3 handoff (src/rpc/l3_handoff.ts) on the events of one  *)
(* WASM peer (src/wasm/peer.ts).  The peer's module is external: it queues an   *)
(* event for every Accept and for every registered await that ends, and the     *)
(* peer hands all that are queued to all listeners after a pushed frame.  The   *)
(* Return of an await carries no question id.                                   *)
EXTENDS Naturals, FiniteSets, Sequences, SequencesExt

CONSTANTS
    Accepts,       \* calls of acceptProvision
    Awaits,        \* calls of registerThirdPartyAwait, taken in any order
    MaxDrained     \* bound on the events that one frame brings

ASSUME L3Assumption ==
    /\ IsFiniteSet(Accepts \cup Awaits) /\ Accepts \cap Awaits = {}
    /\ MaxDrained \in Nat \ {0}

Waits == Accepts \cup Awaits

VARIABLES
    l3Wait,       \* each promise: idle, listening, resolved, rejected or aborted
    inPending,    \* the await, if any, that holds the peer in pendingAwaits
    l3Asked,      \* the awaits registered with the module, in order
    l3Open,       \* what the module has yet to answer
    l3Closed,     \* WasmPeer.#closed
    settledBy     \* ghost: whose event settled a wait

l3Vars == <<l3Wait, inPending, l3Asked, l3Open, l3Closed, settledBy>>

\* A Return whose payload does not decode rejects the wait it is for.
Events == [kind : {"return", "unreadable", "exception"}, of : Waits]

L3TypeOK ==
    /\ l3Wait \in [Waits -> {"idle", "listening", "resolved", "rejected", "aborted"}]
    /\ inPending \subseteq Awaits /\ Cardinality(inPending) <= 1
    /\ l3Asked \in Seq(Awaits) /\ l3Open \subseteq Waits /\ l3Closed \in BOOLEAN
    /\ settledBy \in [Waits -> SUBSET Waits]

L3Init ==
    /\ l3Wait = [w \in Waits |-> "idle"] /\ inPending = {}
    /\ l3Asked = <<>> /\ l3Open = {} /\ l3Closed = FALSE
    /\ settledBy = [w \in Waits |-> {}]

Listeners == {w \in Waits : l3Wait[w] = "listening"}

\* addL3EventListener, unless the signal is already aborted; the module keeps
\* what it was asked.
Listens(w) ==
    /\ l3Open' = l3Open \cup {w}
    /\ \E state \in {"listening", "aborted"} : l3Wait' = [l3Wait EXCEPT ![w] = state]

\* The module may refuse the question.  A closed peer's does.
AskRefused(w) ==
    /\ l3Wait[w] = "idle"
    /\ l3Wait' = [l3Wait EXCEPT ![w] = "rejected"]
    /\ UNCHANGED <<inPending, l3Asked, l3Open, l3Closed, settledBy>>

AcceptProvision(a) ==
    /\ l3Wait[a] = "idle" /\ ~l3Closed
    /\ Listens(a)
    /\ UNCHANGED <<inPending, l3Asked, l3Closed, settledBy>>

RegisterAwait(w) ==
    /\ l3Wait[w] = "idle" /\ ~l3Closed /\ inPending = {}
    /\ Listens(w) /\ inPending' = {w} /\ l3Asked' = Append(l3Asked, w)
    /\ UNCHANGED <<l3Closed, settledBy>>

\* A second await on the peer throws and is taken back to its caller.
AwaitBarred(w) ==
    /\ l3Wait[w] = "idle" /\ inPending # {}
    /\ l3Wait' = [l3Wait EXCEPT ![w] = "rejected"]
    /\ UNCHANGED <<inPending, l3Asked, l3Open, l3Closed, settledBy>>

\* wait.finally(): one turn after the promise has settled.
PendingCleared(w) ==
    /\ w \in inPending /\ l3Wait[w] # "listening"
    /\ inPending' = inPending \ {w}
    /\ UNCHANGED <<l3Wait, l3Asked, l3Open, l3Closed, settledBy>>

L3Abort(w) ==
    /\ w \in Listeners
    /\ l3Wait' = [l3Wait EXCEPT ![w] = "aborted"]
    /\ UNCHANGED <<inPending, l3Asked, l3Open, l3Closed, settledBy>>

\* onEvent: an accept looks at the question id, an await cannot.
Takes(w, e) ==
    IF w \in Accepts THEN e.of = w
    ELSE e.kind = "exception" \/ e.of \in Awaits

\* Each event is for all listeners, and who has settled listens no more: what a
\* listener gets of a frame is the first event that it takes.
Gets(w, events) ==
    {events[i] : i \in {n \in DOMAIN events :
        /\ w \in Listeners /\ Takes(w, events[n])
        /\ \A m \in 1 .. (n - 1) : ~Takes(w, events[m])}}

Dispatch(events) ==
    /\ l3Wait' = [w \in Waits |-> IF Gets(w, events) = {} THEN l3Wait[w]
                      ELSE IF \E e \in Gets(w, events) : e.kind = "return" THEN "resolved"
                      ELSE "rejected"]
    /\ settledBy' = [w \in Waits |-> settledBy[w] \cup {e.of : e \in Gets(w, events)}]

AskedBefore(v, w) ==
    \E m, n \in DOMAIN l3Asked : m < n /\ l3Asked[m] = v /\ l3Asked[n] = w

\* A frame makes the module answer some of what it was asked, each once: accepts
\* in any order, awaits in the order they were registered.
Answerable(events) ==
    /\ \A i, j \in DOMAIN events : events[i].of = events[j].of => i = j
    /\ \A i \in DOMAIN events : events[i].of \in l3Open
    /\ \A i \in DOMAIN events : \A w \in Awaits \cap l3Open :
           AskedBefore(w, events[i].of) => \E j \in 1 .. (i - 1) : events[j].of = w

\* pushFrame and drainL3Events: the whole queue in one turn.
PushL3Frame(events) ==
    /\ ~l3Closed /\ Answerable(events)
    /\ Dispatch(events)
    /\ l3Open' = l3Open \ {events[i].of : i \in DOMAIN events}
    /\ UNCHANGED <<inPending, l3Asked, l3Closed>>

\* WasmPeer.close(): no event comes any more.
ClosePeer ==
    /\ ~l3Closed /\ l3Closed' = TRUE
    /\ UNCHANGED <<l3Wait, inPending, l3Asked, l3Open, settledBy>>

L3Next ==
    \/ \E a \in Accepts : AcceptProvision(a)
    \/ \E w \in Awaits : RegisterAwait(w) \/ AwaitBarred(w) \/ PendingCleared(w)
    \/ \E w \in Waits : AskRefused(w) \/ L3Abort(w)
    \/ \E events \in BoundedSeq(Events, MaxDrained) : events # <<>> /\ PushL3Frame(events)
    \/ ClosePeer

L3Spec == L3Init /\ [][L3Next]_l3Vars

(***************************************************************************)
(* Properties.                                                             *)
(***************************************************************************)
\* "Only one await may be outstanding per peer": an accept ends by its own event
\* and no other; at most one await listens, while it holds the peer; and its
\* event can be another's only if that one is an accept that failed, or an await
\* that ended without its own (its registration stays in the module, which
\* answers it first: an abort passes its answer on to every await after it).
HandoffsMatched ==
    /\ \A a \in Accepts : settledBy[a] \subseteq {a}
    /\ Listeners \cap Awaits \subseteq inPending
    /\ \A w \in Awaits : \A x \in settledBy[w] :
           \/ x = w
           \/ x \in Accepts /\ l3Wait[w] = "rejected"
           \/ /\ x \in Awaits /\ l3Wait[x] \notin {"idle", "listening"}
              /\ x \notin settledBy[x]
=============================================================================
