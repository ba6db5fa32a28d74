---------------------------- MODULE ServerBridge ----------------------------
(* RpcServerBridge (src/rpc/server/bridge.ts): the answer table, the registry *)
(* of exported capabilities with their wire references and answer holds, and  *)
(* the life of a dispatched call from its registration to its Return.         *)
(*                                                                            *)
(* JavaScript runs the synchronous segments between two awaits atomically, so *)
(* one action is one such segment: a frame is decoded, registered and routed  *)
(* in one step; a handler settles in another; a pipelined call that waited    *)
(* for its target resumes in a third.  Frames, timers and settlements are     *)
(* interleaved in every order.                                                *)
(*                                                                            *)
(* The caller on the other side of the wire follows the protocol: it reuses a *)
(* question id once it has both sent Finish and received Return, and releases *)
(* only references it holds.  What it holds (peerRefs) and what was granted   *)
(* out of band (pregrant) are ghost state the properties compare with the     *)
(* registry's own counts.                                                     *)
EXTENDS Integers, FiniteSets

CONSTANTS
    Questions,              \* question ids the caller uses
    Entries,                \* AnswerTableEntry objects, each used at most once
    Slots,                  \* positions of a Return's capTable
    MaxCap,                 \* capability indexes are 0..MaxCap
    Root,                   \* the capability a Bootstrap answers with
    MaxAnswerTableSize,
    MaxFrameBytes,          \* size of the largest Call frame
    MaxRetainedInputFrameBytes,
    MaxEvictionRetries,
    MaxReferenceCount,      \* bound on one capability's references
    EvictionEnabled,        \* answerEvictionTimeoutMs is positive and finite
    WasmHost,               \* calls come from pumpWasmHostCalls, not handleFrame
    AnswerCancellation,     \* the host has feature bit 12
    EarlyBootstrapFinish,   \* a caller may Finish a Bootstrap it waits for
    NoFinishReturns,        \* handlers may set noFinishNeeded
    RelayMayFail,           \* the WASM peer may refuse a prebuilt Return
    SelfPipelining,         \* a call may name its own question as its target
    None

Caps == 0 .. MaxCap
NoTable == [i \in Slots |-> None]
CapTables == [Slots -> Caps \cup {None}]

ASSUME CapsAssumption == /\ MaxCap \in Nat
                         /\ Root \in Caps
                         /\ MaxReferenceCount \in Nat
ASSUME SetsAssumption == /\ IsFiniteSet(Questions)
                         /\ IsFiniteSet(Entries)
                         /\ IsFiniteSet(Slots)
                         /\ Slots # {}
ASSUME NoneAssumption == None \notin Questions \cup Entries \cup Caps
ASSUME LimitAssumption == /\ MaxAnswerTableSize \in Nat
                          /\ MaxFrameBytes \in Nat \ {0}
                          /\ MaxRetainedInputFrameBytes \in Nat
                          /\ MaxEvictionRetries \in Nat \ {0}   \* 0 would disable the limit
ASSUME FlagAssumption == {EvictionEnabled, WasmHost, AnswerCancellation,
                          EarlyBootstrapFinish, NoFinishReturns, RelayMayFail,
                          SelfPipelining} \subseteq BOOLEAN

VARIABLES
    closed,
    \* the registry of exported capabilities (#dispatchByCapability)
    nextCap, registered, refCount, hold, claimed,
    \* the answer table and the entries it maps question ids to
    answerTable, phase, question, parent, capTable, held, finished,
    pipelineRefCount, timer, attempts,
    \* input bytes charged to dispatches that have not settled
    size, retained,
    \* the caller: its questions, the references it holds, a Finish between
    \* the answer-finished event and its delivery to the bridge
    caller, owner, answeredBy, granted, peerRefs, pregrant, finishing

registry == <<nextCap, registered, refCount, hold, claimed>>
entries  == <<phase, question, parent, capTable, pipelineRefCount, size>>
eviction == <<timer, attempts>>
peer     == <<caller, owner, answeredBy, granted, peerRefs, pregrant>>
vars == <<closed, registry, answerTable, entries, held, finished, eviction,
          retained, peer, finishing>>

Phases == {"unused", "bootstrapping", "waiting", "running", "failing", "done"}
Unsettled == {e \in Entries : phase[e] \in {"bootstrapping", "waiting",
                                             "running", "failing"}}

\* "released" and "kept": Finish went out before any Return came, with and
\* without releaseResultCaps.
CallerStates == {"free", "open", "released", "kept", "answered"}

(***************************************************************************)
(* Type invariant.  It holds for every value of the constants; it says of  *)
(* the registry that only registered capabilities carry counts.            *)
(***************************************************************************)
TypeOK ==
    /\ closed \in BOOLEAN
    /\ nextCap \in Nat
    /\ registered \subseteq Caps
    /\ refCount \in [Caps -> Nat] /\ hold \in [Caps -> Nat]
    /\ claimed \subseteq registered
    /\ answerTable \in [Questions -> Entries \cup {None}]
    /\ phase \in [Entries -> Phases]
    /\ question \in [Entries -> Questions \cup {None}]
    /\ parent \in [Entries -> Entries \cup {None}]
    /\ capTable \in [Entries -> CapTables]
    /\ held \in [Entries -> SUBSET Slots]
    /\ finished \subseteq Entries /\ timer \subseteq Entries
    /\ pipelineRefCount \in [Entries -> Int] /\ attempts \in [Entries -> Nat]
    /\ size \in [Entries -> 0 .. MaxFrameBytes]
    /\ retained \in Int
    /\ caller \in [Questions -> CallerStates]
    /\ owner \in [Questions -> Entries \cup {None}]
    /\ answeredBy \in [Questions -> Entries \cup {None}]
    /\ granted \in [Entries -> SUBSET Slots]
    /\ peerRefs \in [Caps -> Int] /\ pregrant \in [Caps -> Int]
    /\ finishing \in (Questions \X BOOLEAN) \cup {None}

(***************************************************************************)
(* Occurrences of a capability among some slots of an entry's capTable.    *)
(***************************************************************************)
SlotsOf(table, slots, c) == {i \in slots : table[i] = c}
Occurrences(table, slots, c) == Cardinality(SlotsOf(table, slots, c))

\* The occurrences #trackReturnedCapabilities counts: registered capabilities.
Tracked(table) == {i \in Slots : table[i] \in registered}

Live(e) == question[e] \in Questions /\ answerTable[question[e]] = e
Pending(q) == answerTable[q] # None

Init ==
    /\ closed = FALSE
    /\ nextCap = Root + 1
    /\ registered = {Root}
    /\ refCount = [c \in Caps |-> IF c = Root THEN 1 ELSE 0]
    /\ hold = [c \in Caps |-> 0]
    /\ claimed = {}
    /\ answerTable = [q \in Questions |-> None]
    /\ phase = [e \in Entries |-> "unused"]
    /\ question = [e \in Entries |-> None]
    /\ parent = [e \in Entries |-> None]
    /\ capTable = [e \in Entries |-> NoTable]
    /\ held = [e \in Entries |-> {}]
    /\ finished = {} /\ timer = {}
    /\ pipelineRefCount = [e \in Entries |-> 0]
    /\ attempts = [e \in Entries |-> 0]
    /\ size = [e \in Entries |-> 0]
    /\ retained = 0
    /\ caller = [q \in Questions |-> "free"]
    /\ owner = [q \in Questions |-> None]
    /\ answeredBy = [q \in Questions |-> None]
    /\ granted = [e \in Entries |-> {}]
    /\ peerRefs = [c \in Caps |-> 0]
    /\ pregrant = [c \in Caps |-> IF c = Root THEN 1 ELSE 0]
    /\ finishing = None

(***************************************************************************)
(* The caller's side of a Return.                                          *)
(***************************************************************************)
\* A Return for e's question reaches the caller, granting the given slots of
\* table.  The WASM peer refuses a Return for a question that owes none.
Deliver(e, table, slots, noFinishNeeded) ==
    LET q == question[e] IN
    IF caller[q] \in {"free", "answered"}
    THEN UNCHANGED peer
    ELSE LET kept == IF caller[q] = "released" THEN {} ELSE slots IN
         /\ caller' = [caller EXCEPT ![q] =
                IF @ = "open" /\ ~noFinishNeeded THEN "answered" ELSE "free"]
         /\ answeredBy' = [answeredBy EXCEPT ![q] = e]
         /\ granted' = [granted EXCEPT ![e] = kept]
         /\ peerRefs' = [c \in Caps |-> peerRefs[c] + Occurrences(table, kept, c)]
         /\ UNCHANGED <<owner, pregrant>>

\* The references a Finish with releaseResultCaps gives back.
GivenBack(q, c) ==
    IF owner[q] = None THEN 0
    ELSE Occurrences(capTable[owner[q]], granted[owner[q]], c)

\* The caller sends Finish: it gives the answer's references back when it sets
\* releaseResultCaps, which it does only while it still holds them.
SendFinish(q, releaseResultCaps) ==
    /\ caller[q] \in {"open", "answered"}
    /\ caller' = [caller EXCEPT ![q] =
           IF @ = "answered" THEN "free"
           ELSE IF releaseResultCaps THEN "released" ELSE "kept"]
    /\ IF releaseResultCaps
       THEN /\ \A c \in Caps : GivenBack(q, c) <= peerRefs[c]
            /\ peerRefs' = [c \in Caps |-> peerRefs[c] - GivenBack(q, c)]
       ELSE UNCHANGED peerRefs
    /\ granted' = IF owner[q] = None THEN granted
                  ELSE [granted EXCEPT ![owner[q]] = {}]
    /\ UNCHANGED <<owner, answeredBy, pregrant>>

(***************************************************************************)
(* Registering an answer (#registerAnswerEntry) and its rejections.        *)
(***************************************************************************)
\* Broken form: the byte budget is not consulted.
CanRegisterUnbudgeted(q, bytes) ==
    /\ ~closed
    /\ ~Pending(q)
    /\ Cardinality({p \in Questions : Pending(p)}) < MaxAnswerTableSize

CanRegister(q, bytes) ==
    /\ ~closed
    /\ ~Pending(q)
    /\ Cardinality({p \in Questions : Pending(p)}) < MaxAnswerTableSize
    /\ bytes <= MaxRetainedInputFrameBytes - retained

\* The session hands the bridge one inbound frame at a time.
Inbound == ~closed /\ finishing = None

Register(q, e, bytes, newPhase) ==
    /\ phase[e] = "unused"
    /\ CanRegister(q, bytes)
    /\ answerTable' = [answerTable EXCEPT ![q] = e]
    /\ phase' = [phase EXCEPT ![e] = newPhase]
    /\ question' = [question EXCEPT ![e] = q]
    /\ size' = [size EXCEPT ![e] = bytes]
    /\ retained' = retained + bytes

Ask(q, e) ==
    /\ caller[q] = "free"
    /\ caller' = [caller EXCEPT ![q] = "open"]
    /\ owner' = [owner EXCEPT ![q] = e]
    /\ answeredBy' = [answeredBy EXCEPT ![q] = None]
    /\ UNCHANGED <<granted, peerRefs, pregrant>>

\* A duplicate question id, a full table or an exhausted byte budget: the
\* caller gets an exception Return and the bridge keeps nothing.
RejectCall(q, bytes) ==
    /\ Inbound
    /\ ~CanRegister(q, bytes)
    /\ caller[q] = "free"
    /\ caller' = [caller EXCEPT ![q] = "answered"]
    /\ owner' = [owner EXCEPT ![q] = None]
    /\ answeredBy' = [answeredBy EXCEPT ![q] = None]
    /\ UNCHANGED <<closed, registry, answerTable, entries, held, finished,
                   eviction, retained, granted, peerRefs, pregrant, finishing>>

\* Where #dispatchToCapability leads: to the handler, or to an exception when
\* the capability is unknown or implements another interface.
DispatchPhases(c) == IF c \in registered THEN {"running", "failing"}
                                         ELSE {"failing"}

\* Broken form: the eviction timer starts when the call is registered.
ReceiveCallTimed(q, e, c, bytes) ==
    /\ Inbound
    /\ Ask(q, e)
    /\ \E p \in DispatchPhases(c) : Register(q, e, bytes, p)
    /\ timer' = timer \cup {e}
    /\ UNCHANGED <<closed, registry, parent, capTable, pipelineRefCount,
                   held, finished, attempts, finishing>>

ReceiveCall(q, e, c, bytes) ==
    /\ Inbound
    /\ Ask(q, e)
    /\ \E p \in DispatchPhases(c) : Register(q, e, bytes, p)
    /\ UNCHANGED <<closed, registry, parent, capTable, pipelineRefCount,
                   held, finished, eviction, finishing>>

\* The entry is registered before its promisedAnswer target is looked up, so
\* a call that names its own question finds itself.  A settled target is
\* dispatched to at once, position i of its capTable; otherwise the call waits.
ReceivePipelinedCall(q, e, target, i, bytes) ==
    /\ Inbound
    /\ Ask(q, e)
    /\ SelfPipelining \/ target # q
    /\ LET t == IF target = q THEN e ELSE answerTable[target] IN
       \/ /\ t = None
          /\ Register(q, e, bytes, "failing")
          /\ UNCHANGED <<parent, pipelineRefCount>>
       \/ /\ t # None
          /\ IF t # e /\ phase[t] = "done"
             THEN \E p \in DispatchPhases(capTable[t][i]) :
                      Register(q, e, bytes, p)
             ELSE Register(q, e, bytes, "waiting")
          /\ parent' = [parent EXCEPT ![e] = t]
          /\ pipelineRefCount' = [pipelineRefCount EXCEPT ![t] = @ + 1]
    /\ UNCHANGED <<closed, registry, capTable, held, finished, eviction,
                   finishing>>

\* Broken form: the target's pipelineRefCount covers only the wait.
WakeAndUnpin(e, i) ==
    /\ phase[e] = "waiting"
    /\ phase[parent[e]] = "done" \/ e \in finished
    /\ \E p \in DispatchPhases(capTable[parent[e]][i]) :
           phase' = [phase EXCEPT ![e] = p]
    /\ pipelineRefCount' = [pipelineRefCount EXCEPT ![parent[e]] = @ - 1]
    /\ UNCHANGED <<closed, registry, answerTable, question, parent, capTable,
                   size, held, finished, eviction, retained, peer, finishing>>

\* The race between the target's outcome and this call's own abort signal.
WakePipelinedCall(e, i) ==
    /\ phase[e] = "waiting"
    /\ \/ /\ e \in finished
          /\ phase' = [phase EXCEPT ![e] = "failing"]
       \/ /\ e \notin finished
          /\ phase[parent[e]] = "done"
          /\ \E p \in DispatchPhases(capTable[parent[e]][i]) :
                 phase' = [phase EXCEPT ![e] = p]
    /\ UNCHANGED <<closed, registry, answerTable, question, parent, capTable,
                   pipelineRefCount, size, held, finished, eviction, retained,
                   peer, finishing>>

(***************************************************************************)
(* A dispatch settles (#completeCall, #trackReturnedCapabilities).         *)
(***************************************************************************)
\* Each tracked occurrence adds one wire reference and one answer hold.
Track(e, table) ==
    LET n(c) == Occurrences(table, Tracked(table), c) IN
    /\ refCount' = [c \in Caps |-> refCount[c] + n(c)]
    /\ hold' = [c \in Caps |-> hold[c] + n(c)]
    /\ held' = [held EXCEPT ![e] = Tracked(table)]

ScheduleEviction(e) ==
    timer' = IF EvictionEnabled THEN timer \cup {e} ELSE timer

\* Broken form: a result is returned without a look at the answer table.
ReturnAnyway(e, table, noFinishNeeded, relayed) ==
    /\ ScheduleEviction(e)
    /\ Track(e, table)
    /\ Deliver(e, table, Tracked(table), noFinishNeeded)

\* Broken form: nothing follows a prebuilt Return the WASM peer refuses.
ReturnRefusedSilently(e, table, noFinishNeeded, relayed) ==
    /\ Live(e) /\ e \notin finished
    /\ ScheduleEviction(e)
    /\ Track(e, table)
    /\ IF relayed THEN Deliver(e, table, Tracked(table), noFinishNeeded)
                  ELSE UNCHANGED peer

\* The entry is still the one its question maps to and the caller has not
\* finished it: the outcome becomes a Return.  A WASM peer that refuses the
\* prebuilt frame is answered with an exception, which carries no capTable.
ReturnAnswer(e, table, noFinishNeeded, relayed) ==
    /\ Live(e) /\ e \notin finished
    /\ ScheduleEviction(e)
    /\ Track(e, table)
    /\ IF relayed THEN Deliver(e, table, Tracked(table), noFinishNeeded)
                  ELSE Deliver(e, table, {}, FALSE)

\* The outcome is discarded.  A WASM peer still gets a terminal Return for a
\* finished question, an exception with noFinishNeeded.
DiscardAnswer(e) ==
    /\ ~Live(e) \/ e \in finished
    /\ IF WasmHost /\ ~closed /\ e \in finished
       THEN Deliver(e, NoTable, {}, TRUE)
       ELSE UNCHANGED peer
    /\ UNCHANGED <<refCount, hold, held, timer>>

CallSettles(e, table, noFinishNeeded, relayed) ==
    /\ phase[e] \in {"running", "failing"}
    /\ phase[e] = "failing" => table = NoTable /\ ~noFinishNeeded
    /\ phase' = [phase EXCEPT ![e] = "done"]
    /\ capTable' = [capTable EXCEPT ![e] = table]
    /\ pipelineRefCount' =
           IF parent[e] = None THEN pipelineRefCount
           ELSE [pipelineRefCount EXCEPT ![parent[e]] = @ - 1]
    /\ retained' = retained - size[e]
    /\ \/ ReturnAnswer(e, table, noFinishNeeded, relayed)
       \/ DiscardAnswer(e)
    /\ UNCHANGED <<closed, nextCap, registered, claimed, answerTable, question,
                   parent, size, finished, attempts, finishing>>

(***************************************************************************)
(* Bootstrap.                                                              *)
(***************************************************************************)
\* The position the root capability takes in a bootstrap answer's capTable.
RootSlot == CHOOSE i \in Slots : TRUE
RootTable == [NoTable EXCEPT ![RootSlot] = Root]

\* A registration pre-grants the reference of the first bootstrap answer;
\* later answers add one.
TrackBootstrap(e) ==
    IF Root \notin registered THEN UNCHANGED <<refCount, hold, claimed, held>>
    ELSE /\ refCount' = IF Root \in claimed \/ refCount[Root] = 0
                        THEN [refCount EXCEPT ![Root] = @ + 1]
                        ELSE refCount
         /\ claimed' = claimed \cup {Root}
         /\ hold' = [hold EXCEPT ![Root] = @ + 1]
         /\ held' = [held EXCEPT ![e] = {RootSlot}]

\* The caller receives the bootstrap answer; the first grant was pre-granted.
DeliverBootstrap(q, e) ==
    LET slots == IF Root \in registered /\ caller[q] # "released"
                 THEN {RootSlot} ELSE {} IN
    /\ caller' = [caller EXCEPT ![q] = IF @ \in {"free", "open"} THEN "answered"
                                                                 ELSE "free"]
    /\ owner' = [owner EXCEPT ![q] = e]
    /\ answeredBy' = [answeredBy EXCEPT ![q] = e]
    /\ granted' = [granted EXCEPT ![e] = slots]
    /\ peerRefs' = [peerRefs EXCEPT ![Root] = @ + Cardinality(slots)]
    /\ pregrant' = IF slots = {} \/ Root \in claimed THEN pregrant
                   ELSE [pregrant EXCEPT ![Root] = @ - 1]

\* The direct path: onBootstrap is awaited.
ReceiveBootstrap(q, e) ==
    /\ ~WasmHost
    /\ Inbound
    /\ Ask(q, e)
    /\ Register(q, e, 0, "bootstrapping")
    /\ UNCHANGED <<closed, registry, parent, capTable, pipelineRefCount, held,
                   finished, eviction, finishing>>

\* The response is returned to the caller whether or not it was tracked.
BootstrapSettles(e) ==
    /\ phase[e] = "bootstrapping"
    /\ phase' = [phase EXCEPT ![e] = "done"]
    /\ capTable' = [capTable EXCEPT ![e] = RootTable]
    /\ IF Live(e) /\ e \notin finished
       THEN TrackBootstrap(e) /\ ScheduleEviction(e)
       ELSE UNCHANGED <<refCount, hold, claimed, held, timer>>
    /\ DeliverBootstrap(question[e], e)
    /\ UNCHANGED <<closed, nextCap, registered, answerTable, question, parent,
                   pipelineRefCount, size, finished, attempts, retained,
                   finishing>>

\* onBootstrap throws: the question's table entry goes, whichever it is, and
\* no Return is sent.
BootstrapFails(e) ==
    /\ phase[e] = "bootstrapping"
    /\ phase' = [phase EXCEPT ![e] = "done"]
    /\ answerTable' = [answerTable EXCEPT ![question[e]] = None]
    /\ UNCHANGED <<closed, registry, question, parent, capTable,
                   pipelineRefCount, size, held, finished, eviction, retained,
                   peer, finishing>>

\* The WASM path: the peer has answered, and the bridge mirrors the answer.
ObserveBootstrapResponse(q, e) ==
    /\ WasmHost
    /\ Inbound
    /\ caller[q] = "free"
    /\ Register(q, e, 0, "done")
    /\ capTable' = [capTable EXCEPT ![e] = RootTable]
    /\ TrackBootstrap(e)
    /\ ScheduleEviction(e)
    /\ DeliverBootstrap(q, e)
    /\ UNCHANGED <<closed, nextCap, registered, parent, pipelineRefCount,
                   finished, attempts, finishing>>

(***************************************************************************)
(* Exporting, retaining and releasing capabilities.                        *)
(***************************************************************************)
Monus(a, b) == IF a > b THEN a - b ELSE 0

\* exportCapability: by the application with a reference it will hand over,
\* by a running handler with none.  An index that is taken is an error, which
\* still consumes it when it was chosen automatically.  The root keeps the index
\* it was exported under when the bridge was set up.
ExportCapability(c, referenceCount) ==
    /\ ~closed
    /\ c # Root
    /\ referenceCount = 0 => \E e \in Entries : phase[e] = "running"
    /\ \/ c = nextCap /\ nextCap' = nextCap + 1
       \/ UNCHANGED nextCap
    /\ IF c \in registered
       THEN nextCap' # nextCap /\ UNCHANGED <<registered, refCount, pregrant>>
       ELSE /\ registered' = registered \cup {c}
            /\ refCount' = [refCount EXCEPT ![c] = referenceCount]
            /\ pregrant' = [pregrant EXCEPT ![c] = referenceCount]
    /\ UNCHANGED <<closed, hold, claimed, answerTable, entries, held, finished,
                   eviction, retained, caller, owner, answeredBy, granted,
                   peerRefs, finishing>>

RetainCapability(c) ==
    /\ c \in registered
    /\ refCount[c] < MaxReferenceCount
    /\ refCount' = [refCount EXCEPT ![c] = @ + 1]
    /\ pregrant' = [pregrant EXCEPT ![c] = @ + 1]
    /\ UNCHANGED <<closed, nextCap, registered, hold, claimed, answerTable,
                   entries, held, finished, eviction, retained, caller, owner,
                   answeredBy, granted, peerRefs, finishing>>

\* The application hands a reference it exported or retained to the caller by
\* other means (the capability travels in a call of its own).
HandOver(c) ==
    /\ pregrant[c] > 0
    /\ c # Root \/ Root \in claimed
    /\ pregrant' = [pregrant EXCEPT ![c] = @ - 1]
    /\ peerRefs' = [peerRefs EXCEPT ![c] = @ + 1]
    /\ UNCHANGED <<closed, registry, answerTable, entries, held, finished,
                   eviction, retained, caller, owner, answeredBy, granted,
                   finishing>>

\* Broken form: answer holds do not keep a registration.
DropIgnoringHolds(c, n) ==
    /\ c \in registered /\ n <= refCount[c]
    /\ refCount' = [refCount EXCEPT ![c] = @ - n]
    /\ LET released == IF refCount[c] = n THEN {c} ELSE {} IN
       /\ registered' = registered \ released
       /\ claimed' = claimed \ released
    /\ UNCHANGED <<nextCap, hold>>

\* Broken form: a Release also gives up the grant the registration started with.
DropOneMore(c, n) ==
    /\ c \in registered
    /\ refCount' = [refCount EXCEPT ![c] = @ - (n + 1)]
    /\ LET released == IF refCount[c] <= n /\ hold[c] = 0 THEN {c} ELSE {} IN
       /\ registered' = registered \ released
       /\ claimed' = claimed \ released
    /\ UNCHANGED <<nextCap, hold>>

\* releaseCapability: more references than the count is an error, and an
\* unregistered capability is ignored; neither changes anything.
DropReferences(c, n) ==
    /\ c \in registered /\ n <= refCount[c]
    /\ refCount' = [refCount EXCEPT ![c] = @ - n]
    /\ LET released == IF refCount[c] = n /\ hold[c] = 0 THEN {c} ELSE {} IN
       /\ registered' = registered \ released
       /\ claimed' = claimed \ released
    /\ UNCHANGED <<nextCap, hold>>

\* A Release frame gives back n references the caller holds.
ReleaseFrame(c, n) ==
    /\ Inbound
    /\ n \in 1 .. peerRefs[c]
    /\ peerRefs' = [peerRefs EXCEPT ![c] = @ - n]
    /\ \/ DropReferences(c, n)
       \/ c \in registered /\ n > refCount[c] /\ UNCHANGED registry
       \/ c \notin registered /\ UNCHANGED registry
    /\ UNCHANGED <<closed, answerTable, entries, held, finished, eviction,
                   retained, caller, owner, answeredBy, granted, pregrant,
                   finishing>>

\* The application drops a reference it exported or retained itself.
ReleaseOwn(c) ==
    /\ pregrant[c] > 0
    /\ c # Root \/ Root \in claimed
    /\ pregrant' = [pregrant EXCEPT ![c] = @ - 1]
    /\ DropReferences(c, 1)
    /\ UNCHANGED <<closed, answerTable, entries, held, finished, eviction,
                   retained, caller, owner, answeredBy, granted, peerRefs,
                   finishing>>

(***************************************************************************)
(* An answer's holds end (#releaseAnswerHeldCapabilities).                 *)
(***************************************************************************)
ReleaseAnswerHeldCapabilities(e, releaseWireRefs) ==
    LET n(c) == Occurrences(capTable[e], held[e], c)
        refs(c) == IF releaseWireRefs THEN Monus(refCount[c], n(c))
                                      ELSE refCount[c]
        dropped == {c \in registered : /\ n(c) > 0
                                       /\ refs(c) = 0
                                       /\ Monus(hold[c], n(c)) = 0}
    IN /\ refCount' = [c \in Caps |-> refs(c)]
       /\ hold' = [c \in Caps |-> Monus(hold[c], n(c))]
       /\ registered' = registered \ dropped
       /\ claimed' = claimed \ dropped
       /\ held' = [held EXCEPT ![e] = {}]
       /\ UNCHANGED nextCap

\* Broken forms of the handling of a Finish frame: the answer's holds stay; its
\* references stay although releaseResultCaps is set, or go although it is not; a
\* settled entry stays in the table.
FinishKeepsHolds(q, releaseResultCaps) ==
    /\ answerTable' = [answerTable EXCEPT ![q] = None]
    /\ finished' = finished \cup ({answerTable[q]} \ {None})
    /\ timer' = timer \ {answerTable[q]}
    /\ UNCHANGED <<registry, held>>

\* A Finish that treats the references of the result as it is told, whatever the
\* frame says; and two broken forms made of it.
FinishWith(q, releaseWireRefs, marked) ==
    LET e == answerTable[q] IN
    /\ answerTable' = [answerTable EXCEPT ![q] = None]
    /\ IF e = None
       THEN UNCHANGED <<registry, held, finished, timer>>
       ELSE /\ timer' = timer \ {e}
            /\ finished' = finished \cup marked
            /\ ReleaseAnswerHeldCapabilities(e, releaseWireRefs)

FinishKeepsReferences(q, releaseResultCaps) ==
    FinishWith(q, FALSE, {answerTable[q]})
FinishDropsReferences(q, releaseResultCaps) ==
    FinishWith(q, TRUE, {answerTable[q]})

\* The bridge's handling of a Finish frame.
BridgeFinish(q, releaseResultCaps) ==
    LET e == answerTable[q] IN
    /\ answerTable' = [answerTable EXCEPT ![q] = None]
    /\ IF e = None
       THEN UNCHANGED <<registry, held, finished, timer>>
       ELSE /\ timer' = timer \ {e}
            /\ finished' = finished \cup {e}
            /\ ReleaseAnswerHeldCapabilities(e, releaseResultCaps)

\* A host with answer cancellation first reports a Finish for an unanswered
\* call as an event, and hands the frame itself over afterwards.
ReportsFinish(q) ==
    /\ WasmHost /\ AnswerCancellation
    /\ caller[q] = "open" /\ Pending(q) /\ answerTable[q] \notin finished

FinishFrame(q, releaseResultCaps) ==
    /\ Inbound
    /\ ~ReportsFinish(q)
    /\ EarlyBootstrapFinish
         \/ ~(Pending(q) /\ phase[answerTable[q]] = "bootstrapping")
    /\ SendFinish(q, releaseResultCaps)
    /\ BridgeFinish(q, releaseResultCaps)
    /\ UNCHANGED <<closed, entries, attempts, retained, finishing>>

\* The listener marks the call finished and answers Return{canceled} at once.
AnswerFinishedEvent(q, releaseResultCaps) ==
    /\ Inbound
    /\ ReportsFinish(q)
    /\ finished' = finished \cup {answerTable[q]}
    /\ caller' = [caller EXCEPT ![q] = "free"]
    /\ answeredBy' = [answeredBy EXCEPT ![q] = answerTable[q]]
    /\ finishing' = <<q, releaseResultCaps>>
    /\ UNCHANGED <<closed, registry, answerTable, entries, held, eviction,
                   retained, owner, granted, peerRefs, pregrant>>

ForwardFinish ==
    /\ ~closed
    /\ finishing # None
    /\ BridgeFinish(finishing[1], finishing[2])
    /\ finishing' = None
    /\ UNCHANGED <<closed, entries, attempts, retained, peer>>

(***************************************************************************)
(* Eviction of settled answers, and shutdown.                              *)
(***************************************************************************)
\* The timer of a settled answer fires: deferred while pipelined calls are in
\* flight, forced after MaxEvictionRetries deferrals.
EvictionTimer(e) ==
    /\ e \in timer
    /\ \/ /\ ~Live(e)
          /\ timer' = timer \ {e}
          /\ UNCHANGED <<registry, answerTable, held, attempts>>
       \/ /\ Live(e)
          /\ pipelineRefCount[e] > 0 /\ attempts[e] < MaxEvictionRetries
          /\ attempts' = [attempts EXCEPT ![e] = @ + 1]
          /\ UNCHANGED <<registry, answerTable, held, timer>>
       \/ /\ Live(e)
          /\ pipelineRefCount[e] = 0 \/ attempts[e] >= MaxEvictionRetries
          /\ attempts' = IF pipelineRefCount[e] = 0 THEN attempts
                         ELSE [attempts EXCEPT ![e] = @ + 1]
          /\ timer' = timer \ {e}
          /\ answerTable' = [answerTable EXCEPT ![question[e]] = None]
          /\ ReleaseAnswerHeldCapabilities(e, FALSE)
    /\ UNCHANGED <<closed, entries, finished, retained, peer, finishing>>

CloseBridge ==
    /\ closed' = TRUE
    /\ finished' = finished \cup {e \in Entries : Live(e)}
    /\ timer' = {e \in timer : ~Live(e)}
    /\ answerTable' = [q \in Questions |-> None]
    /\ registered' = {} /\ claimed' = {}
    /\ refCount' = [c \in Caps |-> 0] /\ hold' = [c \in Caps |-> 0]
    /\ UNCHANGED <<nextCap, entries, held, attempts, retained, finishing>>

Close ==
    /\ ~closed
    /\ CloseBridge
    /\ UNCHANGED peer

\* The peer answered a Bootstrap the bridge cannot retain: the runtime closes
\* the bridge.
RejectBootstrapResponse(q) ==
    /\ WasmHost
    /\ Inbound
    /\ caller[q] = "free"
    /\ ~CanRegister(q, 0)
    /\ CloseBridge
    /\ UNCHANGED peer

Next ==
    \/ \E q \in Questions, n \in 1 .. MaxFrameBytes :
        \/ RejectCall(q, n)
        \/ \E e \in Entries :
            \/ \E c \in Caps : ReceiveCall(q, e, c, n)
            \/ \E target \in Questions, i \in Slots :
                   ReceivePipelinedCall(q, e, target, i, n)
    \/ \E q \in Questions, e \in Entries :
        ReceiveBootstrap(q, e) \/ ObserveBootstrapResponse(q, e)
    \/ \E q \in Questions : RejectBootstrapResponse(q)
    \/ \E q \in Questions, rel \in BOOLEAN :
        FinishFrame(q, rel) \/ AnswerFinishedEvent(q, rel)
    \/ ForwardFinish
    \/ \E e \in Entries :
        \/ \E i \in Slots : WakePipelinedCall(e, i)
        \/ \E table \in CapTables,
              noFinish \in (IF NoFinishReturns THEN BOOLEAN ELSE {FALSE}),
              relayed \in (IF RelayMayFail /\ WasmHost THEN BOOLEAN ELSE {TRUE}) :
               CallSettles(e, table, noFinish, relayed)
        \/ BootstrapSettles(e)
        \/ BootstrapFails(e)
        \/ EvictionTimer(e)
    \/ \E c \in Caps :
        \/ \E n \in 0 .. 1 : ExportCapability(c, n)
        \/ RetainCapability(c)
        \/ HandOver(c)
        \/ \E n \in 1 .. MaxReferenceCount : ReleaseFrame(c, n)
        \/ ReleaseOwn(c)
    \/ Close

Spec == Init /\ [][Next]_vars

(***************************************************************************)
(* Scheduling.  The event loop runs every continuation that is ready, and  *)
(* the properties of completion assume that handlers settle.               *)
(***************************************************************************)
Settles(e) ==
    \/ \E i \in Slots : WakePipelinedCall(e, i)
    \/ \E table \in CapTables : CallSettles(e, table, FALSE, TRUE)
    \/ BootstrapSettles(e)
    \/ BootstrapFails(e)

Fairness == /\ \A e \in Entries : WF_vars(Settles(e))
            /\ WF_vars(ForwardFinish)
FairSpec == Spec /\ Fairness

(***************************************************************************)
(* Properties of the registry.                                             *)
(***************************************************************************)
\* The occurrences of c that retained answers hold.
HeldOccurrences(c) ==
    {p \in Entries \X Slots : p[2] \in held[p[1]] /\ capTable[p[1]][p[2]] = c}

\* answerHoldCount is the number of capTable occurrences in answers that are
\* still in the answer table: a Finish or an eviction that forgot an occurrence,
\* or took one twice, would pin a capability for ever or drop it early.
HoldsExact ==
    ~closed => /\ \A c \in Caps : hold[c] = Cardinality(HeldOccurrences(c))
               /\ \A e \in Entries : held[e] # {} => Live(e)

\* A capability in the capTable of a retained answer stays registered, whatever
\* Release frames arrive: a pipelined call resolved through the answer finds it.
AnswerHoldsKeepCaps ==
    ~closed => \A e \in Entries : \A i \in held[e] : capTable[e][i] \in registered

\* The registry's reference count of a capability is the number of references
\* the caller can still release plus those granted out of band, so the Release
\* and Finish frames of a caller that follows the protocol drain it exactly.
WireMirror ==
    ~closed => \A c \in Caps : refCount[c] = peerRefs[c] + pregrant[c]

\* The bridge never drops the registration of a capability the caller holds a
\* reference to.
NoPrematureDrop ==
    ~closed => \A c \in Caps : peerRefs[c] > 0 => c \in registered

(***************************************************************************)
(* Properties of the answer table.                                         *)
(***************************************************************************)
\* The calls pipelined on t that have not settled.
Children(t) == {e \in Unsettled : parent[e] = t}

\* An entry's pipelineRefCount is the number of calls pipelined on it that have
\* not settled: the count that defers its eviction is neither lost when a call
\* is canceled while it waits nor dropped twice.
PipelineRefExact ==
    \A t \in Entries : pipelineRefCount[t] = Cardinality(Children(t))

\* The bytes charged are those of the dispatches that have not settled, after
\* Finish and shutdown too, and stay within the budget.
ChargedBytes ==
    {p \in Unsettled \X (1 .. MaxFrameBytes) : p[2] <= size[p[1]]}
RetainedBytesExact ==
    /\ retained = Cardinality(ChargedBytes)
    /\ retained <= MaxRetainedInputFrameBytes

\* A question the caller has retired (Return received, Finish sent or not
\* needed) has no entry: the table does not leak, and the id can be used again
\* without being taken for a duplicate.
RetiredQuestionsLeaveNoEntry ==
    ~closed /\ finishing = None =>
        \A q \in Questions : caller[q] = "free" => answerTable[q] = None

\* What the caller has given back is gone on this side: references and questions.
CallerMirrored == WireMirror /\ RetiredQuestionsLeaveNoEntry

\* The Return that answers a question comes from the dispatch of that question,
\* not from an earlier call that used the same id.
OwnReturn ==
    \A q \in Questions : answeredBy[q] \in {None, owner[q]}

\* No answer is evicted while its dispatch is pending: an entry leaves the table
\* before it settles only when the caller finished it or the bridge closed.
EvictionNeverCancels ==
    [][\A e \in Entries :
        Live(e) /\ phase'[e] # "done" /\ ~Live(e)' => e \in finished']_vars

\* Once the bridge has seen the Finish for a question, its dispatch grants the
\* caller no reference.
NoGrantAfterFinish ==
    [][\A e \in finished : granted'[e] \subseteq granted[e]]_vars

\* Every accepted call settles, pipelined ones and canceled ones included,
\* provided handlers do.
AcceptedCallsSettle ==
    \A e \in Entries : (e \in Unsettled) ~> (phase[e] = "done")

\* A WASM peer gets a terminal Return for every call, canceled ones included,
\* so that the caller can retire the question.
EveryCallReturns ==
    \A q \in Questions :
        (caller[q] \in {"open", "released", "kept"})
            ~> (caller[q] \in {"free", "answered"} \/ closed)

\* Every call ends on both sides: the bridge settles it and the caller hears of it.
CallsEnd == AcceptedCallsSettle /\ EveryCallReturns
=============================================================================
