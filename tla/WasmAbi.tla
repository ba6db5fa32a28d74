-------------------------------- MODULE WasmAbi --------------------------------
(* WasmAbi (src/wasm/abi.ts), with the WasmPeers (src/wasm/peer.ts) and the     *)
(* WasmSerde (src/encoding/serde.ts) that are built on it.                      *)
(*                                                                              *)
(* One module instance, with one heap, is shared by every wrapper around its    *)
(* exports.  A call of the ABI is a row of steps around one export: it          *)
(* allocates its inputs and the cells for its outputs, asks, reads what it was  *)
(* given, gives back what it owns, and frees; each allocation and each answer   *)
(* may fail.  Calls are synchronous, but a listener of L3 events runs between   *)
(* two of them and may push, close and shut down.                               *)
EXTENDS Integers, Sequences, FiniteSets, SequencesExt, FiniteSetsExt

CONSTANTS
    Wrappers,        \* WasmAbi objects around the module
    Handles,         \* peers the module makes, in this order
    Blocks,          \* addresses of its heap
    MaxDrainFrames,  \* maxFrames of drainOutFrames
    MaxDepth,        \* operations inside a listener inside an operation ...
    MaxLost          \* blocks that failures leave behind

ASSUME AbiAssumption ==
    /\ Wrappers \subseteq Nat \ {0} /\ IsFiniteSet(Wrappers)
    /\ Handles \subseteq Nat \ {0} /\ Blocks \subseteq Nat \ {0}
    /\ {MaxDrainFrames, MaxDepth} \subseteq Nat \ {0} /\ MaxLost \in Nat

VARIABLES
    wrapper,         \* per WasmAbi: its life and its scratch blocks
    members,         \* per WasmAbi: #peers
    peer,            \* per handle: its WasmPeer
    alive,           \* the peers of the module
    moduleUp,
    heap,            \* who holds each block
    drives,          \* the operations under way, the innermost last
    call,            \* the ABI call under way
    lost, flaws      \* ghosts: blocks whose pointer was dropped; what went wrong

abiVars == <<wrapper, members, peer, alive, moduleUp, heap, drives,
             call, lost, flaws>>
lifeVars == <<wrapper, members, peer, alive, moduleUp>>

Nil == 0
NoCall == [at |-> "none"]
NoWrapper == [life |-> "none", as |-> "plain", closing |-> FALSE,
              errorTake |-> Nil, hostCall |-> Nil, pair |-> Nil]
NoPeer == [of |-> Nil, owns |-> FALSE, closed |-> TRUE]

Top == Last(drives)
Open(w) == wrapper[w].life = "open"
Opened == {w \in Wrappers : Open(w)}

(***************************************************************************)
(* The calls, each by what it allocates and what it is given.              *)
(***************************************************************************)
Call(ins, cells, gives) == [ins |-> ins, cells |-> cells, gives |-> gives]

PushFrame == Call(1, 0, "nothing")
PopOutFrame == Call(0, 1, "borrowed")
PopHostCall == Call(0, 0, "hostCall")
PopHostCallFallback == Call(0, 5, "hostCall")
RespondHostCallResults == Call(1, 0, "nothing")
RespondHostCallReturnFrame == Call(1, 0, "nothing")
RespondHostCallException == Call(1, 0, "nothing")
SendFinishOrRelease == Call(0, 0, "nothing")
SendProvide == Call(2, 1, "number")
SendAccept == Call(2, 1, "number")
SendThirdPartyAnswer == Call(1, 1, "number")
RegisterPendingThirdPartyAwait == Call(1, 0, "nothing")
PopL3Event == Call(0, 1, "event")
SetBootstrapStubWithId == Call(0, 1, "number")
ProvisionsAndCancellation == Call(0, 0, "nothing")
SchemaManifestJson == Call(0, 1, "text")
CallSerde == Call(1, 0, "bytes")

\* What the bridge, the handoff and the application call on a peer's ABI.
Direct(w) ==
    {RespondHostCallResults, RespondHostCallReturnFrame, RespondHostCallException,
     SendFinishOrRelease, SendProvide, SendAccept, SendThirdPartyAnswer,
     RegisterPendingThirdPartyAwait, SetBootstrapStubWithId,
     ProvisionsAndCancellation, SchemaManifestJson,
     IF wrapper[w].hostCall # Nil THEN PopHostCall ELSE PopHostCallFallback}

\* What can be empty: the export answers 0 without an error.
Pops == {"borrowed", "hostCall", "event"}
\* What comes in a block of the module that the caller has to give back.
Owned == {"hostCall", "event", "text", "bytes"}

(***************************************************************************)
(* Types and initial states.                                               *)
(***************************************************************************)
AbiTypeOK ==
    /\ \A w \in Wrappers :
           /\ wrapper[w].life \in {"none", "open", "closed"}
           /\ {wrapper[w].errorTake, wrapper[w].hostCall, wrapper[w].pair}
                  \subseteq Blocks \cup {Nil}
    /\ members \in [Wrappers -> SUBSET Handles] /\ alive \subseteq Handles
    /\ peer \in [Handles -> [of : Wrappers \cup {Nil}, owns : BOOLEAN, closed : BOOLEAN]]
    /\ moduleUp \in BOOLEAN
    /\ heap \in [Blocks -> {"free", "scratch", "call", "module"}]
    /\ Len(drives) <= MaxDepth
    /\ call.at \in {"none", "alloc", "ask", "take", "free"}
    /\ lost \subseteq Blocks

AbiInit ==
    /\ wrapper = [w \in Wrappers |-> NoWrapper]
    /\ members = [w \in Wrappers |-> {}]
    /\ peer = [p \in Handles |-> NoPeer]
    /\ alive = {} /\ moduleUp = TRUE
    /\ heap = [b \in Blocks |-> "free"]
    /\ drives = <<>> /\ call = NoCall
    /\ lost = {} /\ flaws = {}

(***************************************************************************)
(* The heap.                                                               *)
(***************************************************************************)
FreeBlocks == {b \in Blocks : heap[b] = "free"}
NextBlock == Min(FreeBlocks)

\* A block that is given to capnp_free is in use; if it is not, the module raises an error.
Freed(h, blocks) == [b \in Blocks |-> IF b \in blocks THEN "free" ELSE h[b]]
BadFrees(h, blocks) == {"badFree" : b \in {x \in blocks : h[x] = "free"}}

(***************************************************************************)
(* Wrappers, peers and serdes.                                             *)
(***************************************************************************)
\* Between calls, outside of every operation or in a listener.
MayAct == call = NoCall /\ (drives # <<>> => Top.stage = "listening")

Flaw(name, bad) == IF bad THEN {name} ELSE {}

NewHandle == Min({p \in Handles : peer[p].of = Nil})
HasHandle == \E p \in Handles : peer[p].of = Nil

\* The scratch blocks of a constructor.  A module without the exports that need them,
\* or without room for them, is used without.
Scratch(wanted, taken) ==
    IF wanted /\ FreeBlocks \ taken # {} THEN {Min(FreeBlocks \ taken)} ELSE {}
Pointer(blocks) == IF blocks = {} THEN Nil ELSE Min(blocks)

\* new WasmAbi(exports), by itself, in WasmPeer.fromExports or in new WasmSerde;
\* made says whether the peer, or the serde's pair, could be made.
Construct(w, as, roomy, made) ==
    LET e == Scratch(roomy, {})
        h == Scratch(roomy, e)
        s == Scratch(as = "serde", e \cup h)
    IN /\ MayAct /\ moduleUp
       /\ w = Min({v \in Wrappers : wrapper[v].life = "none"} \cup {w})
       /\ wrapper[w].life = "none"
       /\ as = "factory" /\ made => HasHandle
       /\ as = "serde" /\ made => s # {}
       /\ IF made
          THEN /\ wrapper' = [wrapper EXCEPT ![w] =
                      [NoWrapper EXCEPT !.life = "open", !.as = as, !.errorTake = Pointer(e),
                                        !.hostCall = Pointer(h), !.pair = Pointer(s)]]
               /\ heap' = [b \in Blocks |-> IF b \in e \cup h \cup s THEN "scratch" ELSE heap[b]]
          ELSE /\ wrapper' = [wrapper EXCEPT ![w] = [NoWrapper EXCEPT !.life = "closed"]]
               /\ UNCHANGED heap
       /\ IF made /\ as = "factory"
          THEN /\ members' = [members EXCEPT ![w] = {NewHandle}]
               /\ peer' = [peer EXCEPT ![NewHandle] = [of |-> w, owns |-> TRUE, closed |-> FALSE]]
               /\ alive' = alive \cup {NewHandle}
          ELSE UNCHANGED <<members, peer, alive>>
       /\ UNCHANGED <<moduleUp, drives, call, lost, flaws>>

\* WasmPeer.create(abi) on a wrapper that has another owner.
CreatePeer(w) ==
    /\ MayAct /\ HasHandle
    /\ Open(w) /\ ~wrapper[w].closing
    /\ members' = [members EXCEPT ![w] = @ \cup {NewHandle}]
    /\ peer' = [peer EXCEPT ![NewHandle] = [of |-> w, owns |-> FALSE, closed |-> FALSE]]
    /\ alive' = alive \cup {NewHandle}
    /\ UNCHANGED <<wrapper, moduleUp, heap, drives, call, lost, flaws>>

ScratchOf(w) == {wrapper[w].errorTake, wrapper[w].hostCall} \ {Nil}

\* WasmAbi.close() of a wrapper without peers, also frees blocks of its owner.
Closed(ws, w) == [ws EXCEPT ![w].life = "closed", ![w].errorTake = Nil,
                            ![w].hostCall = Nil]
CloseWith(ws, w, blocks) ==
    /\ wrapper' = Closed(ws, w)
    /\ heap' = Freed(heap, ScratchOf(w) \cup blocks)
    /\ flaws' = flaws \cup BadFrees(heap, ScratchOf(w) \cup blocks)

\* closeWhenUnused(): what it closes now, or when the last peer is freed.
CloseWhenUnused(ws, w, blocks) ==
    IF Open(w) /\ members'[w] = {} THEN CloseWith([ws EXCEPT ![w].closing = TRUE], w, blocks)
    ELSE /\ wrapper' = [ws EXCEPT ![w].closing = @ \/ Open(w)]
         /\ heap' = Freed(heap, blocks)
         /\ flaws' = flaws \cup BadFrees(heap, blocks)

\* WasmPeer.close(): freePeer, and closeWhenUnused for the wrapper it owns.
ClosePeer(p) ==
    LET w == peer[p].of IN
    /\ MayAct /\ ~peer[p].closed
    /\ peer' = [peer EXCEPT ![p].closed = TRUE]
    /\ alive' = alive \ {p} /\ members' = [members EXCEPT ![w] = @ \ {p}]
    /\ IF peer[p].owns \/ wrapper[w].closing
       THEN CloseWhenUnused(wrapper, w, {})
       ELSE UNCHANGED <<wrapper, heap, flaws>>
    /\ UNCHANGED <<moduleUp, drives, call, lost>>

\* WasmSerde.close(): the pair, then its wrapper when its borrowers are done.
SerdeClose(w) ==
    /\ MayAct /\ Open(w) /\ wrapper[w].pair # Nil
    /\ UNCHANGED members
    /\ CloseWhenUnused([wrapper EXCEPT ![w].pair = Nil], w, {wrapper[w].pair})
    /\ UNCHANGED <<peer, alive, moduleUp, drives, call, lost>>

\* close() of a wrapper that nobody owns; it refuses while there are peers.
AbiClose(w) ==
    /\ MayAct /\ Open(w) /\ wrapper[w].as # "serde"
    /\ members[w] = {}
    /\ CloseWith(wrapper, w, {})
    /\ UNCHANGED <<members, peer, alive, moduleUp, drives, call, lost>>

\* shutdown(): refuses while the wrapper has peers or another one shares the module.
Shutdown(w) ==
    /\ MayAct /\ Open(w) /\ wrapper[w].as # "serde"
    /\ Cardinality(Opened) = 1 /\ members[w] = {}
    /\ CloseWith(wrapper, w, {}) /\ moduleUp' = FALSE
    /\ UNCHANGED <<members, peer, alive, drives, call, lost>>

(***************************************************************************)
(* Operations, and what they call in turn.                                 *)
(***************************************************************************)
NewCall(w, p, c) ==
    [at |-> IF c.ins + c.cells = 0 THEN "ask" ELSE "alloc", w |-> w, p |-> p,
     needs |-> c.ins + c.cells, gives |-> c.gives, ptrs |-> <<>>, got |-> Nil,
     result |-> "none"]
Calls(w, p, c) == call' = NewCall(w, p, c)

\* pushFrame, drainL3Events and drainOutgoingFrames of a peer that is not closed.
Starts(p, stage) ==
    /\ MayAct /\ Len(drives) < MaxDepth /\ ~peer[p].closed
    /\ drives' = Append(drives, [p |-> p, stage |-> stage, pushes |-> stage = "push",
                                 drained |-> 0])
    /\ UNCHANGED <<lifeVars, heap, call, lost, flaws>>
PeerOperation(p) == \E stage \in {"push", "events", "frames"} : Starts(p, stage)

\* Anything else that is called on the ABI of a peer, whether or not it is closed.
DirectCall(p) ==
    /\ MayAct /\ Len(drives) < MaxDepth /\ peer[p].of # Nil
    /\ \E c \in Direct(peer[p].of) :
           Calls(peer[p].of, IF c = SchemaManifestJson THEN Nil ELSE p, c)
    /\ drives' = Append(drives, [p |-> p, stage |-> "single", pushes |-> FALSE, drained |-> 0])
    /\ UNCHANGED <<lifeVars, heap, lost, flaws>>

\* encodeFromJson and decodeToJson of a serde that is not closed.
SerdeCall(w) ==
    /\ MayAct /\ Len(drives) < MaxDepth
    /\ Open(w) /\ wrapper[w].pair # Nil
    /\ Calls(w, Nil, CallSerde)
    /\ drives' = Append(drives, [p |-> Nil, stage |-> "single", pushes |-> FALSE, drained |-> 0])
    /\ UNCHANGED <<lifeVars, heap, lost, flaws>>

\* The next call of pushFrame (which drains the events of the push before its frames)
\* or of a drain; the peer is not looked at again.
NextCall ==
    /\ call = NoCall /\ drives # <<>>
    /\ \/ Top.stage = "push" /\ Calls(peer[Top.p].of, Top.p, PushFrame)
       \/ Top.stage = "events" /\ Calls(peer[Top.p].of, Top.p, PopL3Event)
       \/ Top.stage = "frames" /\ Calls(peer[Top.p].of, Top.p, PopOutFrame)
    /\ UNCHANGED <<lifeVars, heap, drives, lost, flaws>>

\* Where an operation is after a call of it has returned or thrown.
After(result) ==
    LET d == Top
        outer == Front(drives)
        Goes(stage) == Append(outer, [d EXCEPT !.stage = stage])
    IN CASE result = "threw" -> outer
         [] d.stage = "push" -> Goes("events")
         [] d.stage = "events" /\ result = "some" -> Goes("listening")
         [] d.stage = "events" /\ d.pushes -> Goes("frames")
         [] d.stage = "frames" /\ result = "some" /\ d.drained + 1 < MaxDrainFrames ->
                Append(outer, [d EXCEPT !.drained = @ + 1])
         [] OTHER -> outer
Ends(result) == call' = NoCall /\ drives' = After(result)

\* The listeners have returned, or one of them throws.
Listened ==
    /\ call = NoCall /\ drives # <<>> /\ Top.stage = "listening"
    /\ drives' \in {Append(Front(drives), [Top EXCEPT !.stage = "events"]), Front(drives)}
    /\ UNCHANGED <<lifeVars, heap, call, lost, flaws>>

(***************************************************************************)
(* One call of the ABI.                                                    *)
(***************************************************************************)
\* assertOpen(), which every clearError() makes.
CallRefused ==
    /\ call.at \in {"alloc", "ask"} /\ ~Open(call.w)
    /\ lost' = lost \cup Range(call.ptrs) /\ Ends("threw")
    /\ UNCHANGED <<lifeVars, heap, flaws>>

AbiAlloc ==
    /\ call.at = "alloc" /\ Open(call.w)
    /\ FreeBlocks # {}
    /\ heap' = [heap EXCEPT ![NextBlock] = "call"]
    /\ call' = [call EXCEPT !.ptrs = Append(@, NextBlock),
                            !.at = IF Len(call.ptrs) + 1 = call.needs THEN "ask" ELSE "alloc"]
    /\ UNCHANGED <<wrapper, members, peer, alive, moduleUp, drives, lost, flaws>>

\* The allocations come before the try: those made before the one that fails are lost.
AbiAllocFails ==
    /\ call.at = "alloc" /\ Open(call.w)
    /\ lost' = lost \cup Range(call.ptrs) /\ Cardinality(lost') <= MaxLost
    /\ Ends("threw")
    /\ UNCHANGED <<lifeVars, heap, flaws>>

\* What the module answers: something, nothing, or that it fails.
Answers ==
    (IF call.p = Nil \/ call.p \in alive THEN {"some"} ELSE {})
        \cup (IF call.gives \in Pops THEN {"none"} ELSE {}) \cup {"threw"}

\* Inputs are written and cells zeroed, then the export runs.  The error of an earlier
\* call is cleared before, and that of this one taken behind it, by every call alike.
Ask ==
    LET w == call.w
        late == call.p # Nil /\ call.p \notin alive /\ peer[call.p].owns /\ members[w] = {}
    IN
    /\ call.at = "ask" /\ Open(w)
    /\ \E a \in Answers :
           /\ a = "none" => call.p = Nil \/ call.p \in alive
           /\ \E got \in IF a = "some" /\ call.gives \in Owned /\ FreeBlocks # {}
                         THEN {Nil, NextBlock} ELSE {Nil} :
                  /\ call' = [call EXCEPT !.at = IF a = "some" THEN "take" ELSE "free",
                                          !.got = got, !.result = a]
                  /\ heap' = IF got = Nil THEN heap ELSE [heap EXCEPT ![got] = "module"]
           /\ flaws' = flaws \cup Flaw("late", late)
    /\ UNCHANGED <<wrapper, members, peer, alive, moduleUp, drives, lost>>

\* What was read lies in the memory, decodes, and is committed without an error.
\* An event is given back whatever happens; a host call's frame and a serde's output
\* only after they were copied, so that one outside of the memory is lost.
Take ==
    LET back == {call.got} \ {Nil}
        dropped(ok) == IF ~ok /\ call.gives \in {"hostCall", "bytes"} THEN back ELSE {}
    IN
    /\ call.at = "take"
    /\ \E ok \in BOOLEAN :
           /\ ~ok => \/ call.gives = "borrowed"
                     \/ call.gives \in {"hostCall", "bytes", "event"} /\ back # {}
           /\ heap' = Freed(heap, back \ dropped(ok))
           /\ lost' = lost \cup dropped(ok)
           /\ call' = [call EXCEPT !.at = "free", !.got = Nil,
                          !.result = CASE ~ok -> "threw"
                                       [] call.gives = "event" /\ back = {} -> "none"
                                       [] OTHER -> "some"]
           /\ flaws' = flaws \cup BadFrees(heap, back \ dropped(ok))
    /\ Cardinality(lost') <= MaxLost
    /\ UNCHANGED <<wrapper, members, peer, alive, moduleUp, drives>>

\* Broken form of the next: a call that throws leaves what it allocated.
FinallySkipped ==
    /\ call.at = "free"
    /\ heap' = IF call.result = "threw" THEN heap ELSE Freed(heap, Range(call.ptrs))
    /\ Ends(call.result)
    /\ UNCHANGED <<lifeVars, lost, flaws>>

\* finally: the inputs and the cells are freed, and the call returns or throws.
Finally ==
    /\ call.at = "free"
    /\ heap' = Freed(heap, Range(call.ptrs))
    /\ flaws' = flaws \cup BadFrees(heap, Range(call.ptrs))
    /\ Ends(call.result)
    /\ UNCHANGED <<lifeVars, lost>>

AbiNext ==
    \/ \E w \in Wrappers :
           \/ \E as \in {"factory", "plain", "serde"}, roomy, made \in BOOLEAN :
                  Construct(w, as, roomy, made)
           \/ CreatePeer(w) \/ SerdeClose(w) \/ AbiClose(w) \/ Shutdown(w) \/ SerdeCall(w)
    \/ \E p \in Handles : ClosePeer(p) \/ PeerOperation(p) \/ DirectCall(p)
    \/ NextCall \/ Listened
    \/ CallRefused \/ AbiAlloc \/ AbiAllocFails \/ Ask \/ Take \/ Finally

AbiSpec == AbiInit /\ [][AbiNext]_abiVars

(***************************************************************************)
(* Properties.                                                             *)
(***************************************************************************)
\* Between calls every block in use is the scratch of a wrapper that is open or the pair
\* of a serde that is not closed, each exactly once, except those whose pointer was
\* dropped by an allocation that failed behind another or by an output out of bounds.
StorageAccounted ==
    LET pointers == {x \in Wrappers \X {"errorTake", "hostCall", "pair"} :
                         wrapper[x[1]][x[2]] # Nil}
    IN /\ {b \in Blocks : heap[b] = "scratch"} = {wrapper[x[1]][x[2]] : x \in pointers}
       /\ \A x, y \in pointers : x # y => wrapper[x[1]][x[2]] # wrapper[y[1]][y[2]]
       /\ \A x \in pointers : Open(x[1])
       /\ call = NoCall => {b \in Blocks : heap[b] \in {"call", "module"}} = lost

\* Nothing is freed twice, and behind the close() of a factory's peer its handle is used
\* no more, unless another peer keeps the wrapper open.
NothingMisused == flaws = {}

\* A wrapper asked to close is open only for its peers, a closed one has none; each
\* peer of the module belongs to one wrapper; and the module is shut down behind them all.
LifetimesNested ==
    /\ alive = UNION {members[w] : w \in Wrappers}
    /\ \A p \in Handles : p \in alive <=> ~peer[p].closed
    /\ \A w \in Wrappers : /\ members[w] # {} => Open(w)
                           /\ Open(w) /\ wrapper[w].closing => members[w] # {}
    /\ ~moduleUp => Opened = {} /\ alive = {}

AbiKept == AbiTypeOK /\ StorageAccounted /\ NothingMisused /\ LifetimesNested
=============================================================================
