----------------------------- MODULE StreamSender -----------------------------
(* createStreamSender (src/rpc/session/streaming.ts).                          *)
(*                                                                             *)
(* Several operations of one stream are under way at once: sends, waits for    *)
(* capacity, flushes and a cancel, each of which may also be made from inside  *)
(* a response callback that another operation is running.  They compete for    *)
(* the drain lock, whose holder waits for the oldest call to settle; a call    *)
(* whose parameters are encoded by the call function competes for it too,      *)
(* until its bytes fit.                                                        *)
EXTENDS Integers, Sequences, FiniteSets, SequencesExt

CONSTANTS
    Ops,             \* operations of a behaviour; a send's call bears its name
    MaxInFlight,
    Streams,         \* what streams are created with, see StreamAssumption
    Sizes,           \* encoded lengths
    MayNest          \* callbacks make operations

\* What is sent: bytes that the call function sends as they are, values that it
\* encodes, reserving the length before it sends them, or bytes that it encodes
\* all the same, as a generated helper does with a parameter of type Data.
ParamKinds == {"bytes", "encoded", "data"}

ASSUME StreamAssumption ==
    /\ Ops \subseteq Nat \ {0} /\ IsFiniteSet(Ops)
    /\ MaxInFlight \in Nat \ {0}
    /\ Streams \subseteq [bytes : Nat, params : ParamKinds, onError : BOOLEAN]
    /\ Sizes \subseteq Nat \ {0}
    /\ MayNest \in BOOLEAN

VARIABLES
    options,         \* what the stream was created with
    kind, at,        \* per operation: which one, and how far it has come
    child,           \* the operation a callback of this one awaits, or NoOp
    failedOnce,      \* flush() keeps the first error and goes on
    phase,           \* per call: how far its call function has come
    byteLength, settled,
    window,          \* inFlightCalls
    taken,           \* calls out of the window, with who took them: it has not
                     \* resumed yet
    ready,           \* readyResponses
    locks,           \* the holder of the drain lock and those who wait for it
    oldest,          \* the call the holder waits for
    tickets,         \* calls whose encoding ticket is not released
    inFlightBytes, pendingEncodedBytes,
    hasError,
    streamClosed,    \* cancel() was called or the signal is aborted
    sent, delivered  \* ghosts: calls in the order of their indices; handed over

callVars == <<phase, byteLength, settled, tickets, inFlightBytes,
              pendingEncodedBytes>>
opVars == <<kind, at, child, failedOnce>>
drainVars == <<window, taken, ready, locks, oldest>>
streamVars == <<options, opVars, callVars, drainVars, hasError, streamClosed,
                sent, delivered>>

NoByteLimit == 0
NoOp == 0
Kinds == {"send", "wait", "flush", "cancel", "abort"}
Over == {"done", "threw"}

\* Who asks for the drain lock: an operation, or the call function of a call.
Op(p) == <<p, "op">>
Call(c) == <<c, "call">>
Agents == {Op(p) : p \in Ops} \cup {Call(c) : c \in Ops}

StreamTypeOK ==
    /\ options \in Streams
    /\ kind \in [Ops -> Kinds]
    /\ at \in [Ops -> Over \cup {"idle", "loop", "lock", "taken", "deliver",
                                 "callback", "admission"}]
    /\ child \in [Ops -> Ops \cup {NoOp}]
    /\ failedOnce \in [Ops -> BOOLEAN]
    /\ phase \in [Ops -> {"none", "prepare", "encode", "reserve", "lock", "taken",
                          "failing", "remote", "over"}]
    /\ byteLength \in [Ops -> Nat]
    /\ settled \in [Ops -> {"no", "ok", "failed"}]
    /\ {window, ready, tickets, sent, delivered} \subseteq Seq(Ops)
    /\ taken \in Seq(Ops \X Agents)
    /\ locks \in Seq(Agents)
    /\ oldest \in Ops \cup {NoOp}
    /\ inFlightBytes \in Nat /\ pendingEncodedBytes \in Nat
    /\ hasError \in BOOLEAN /\ streamClosed \in BOOLEAN

StreamInit ==
    /\ options \in Streams
    /\ kind \in [Ops -> Kinds] /\ at = [p \in Ops |-> "idle"]
    /\ child = [p \in Ops |-> NoOp] /\ failedOnce = [p \in Ops |-> FALSE]
    /\ phase = [p \in Ops |-> "none"]
    /\ byteLength \in [Ops -> Sizes \cup {0}]
    /\ \A p \in Ops : byteLength[p] = 0 <=>
                       options.params = "encoded" \/ kind[p] # "send"
    /\ settled = [p \in Ops |-> "no"]
    /\ window = <<>> /\ taken = <<>> /\ ready = <<>> /\ locks = <<>>
    /\ tickets = <<>> /\ sent = <<>> /\ delivered = <<>>
    /\ oldest = NoOp
    /\ inFlightBytes = 0 /\ pendingEncodedBytes = 0
    /\ hasError = FALSE /\ streamClosed = FALSE

Limited == options.bytes # NoByteLimit
Encodes == Limited /\ options.params = "encoded"
MaySend == ~streamClosed /\ ~hasError

\* Bytes are charged at once for bytes, on reservation for what is encoded.
Reserved(c) == ~Encodes \/ byteLength[c] > 0

HasByteCapacity(n) == Limited => n <= options.bytes - inFlightBytes

HasCapacity(n) == Len(window) < MaxInFlight /\ HasByteCapacity(n)

TooLong(n) == Limited /\ n > options.bytes

\* What an operation asks for before it may end its loop.
Wanted(p) == IF kind[p] = "send" THEN byteLength[p] ELSE IF Limited THEN 1 ELSE 0

(***************************************************************************)
(* The operations.                                                         *)
(***************************************************************************)
\* Operations are called one after the other, by the application or by a response
\* callback that awaits its own; either runs on at once.
Called(p) == at[p] = "idle" /\ \A x \in Ops : x < p => at[x] # "idle"
Looping(p, kinds) ==
    /\ kind[p] \in kinds
    /\ at[p] = "loop" \/ (Called(p) /\ kind[p] \in {"send", "wait", "flush"})

\* The synchronous part of cancel(), and all there is to an abort of the signal
\* the stream was created with.
CloseStream(p) ==
    /\ at' = [at EXCEPT ![p] = IF kind[p] = "cancel" THEN "loop" ELSE "done"]
    /\ streamClosed' = TRUE

Close(p) ==
    /\ kind[p] \in {"cancel", "abort"} /\ Called(p)
    /\ CloseStream(p)
    /\ UNCHANGED <<options, kind, child, failedOnce, callVars, drainVars,
                   hasError, sent, delivered>>

Nest(p, parent) ==
    /\ MayNest /\ at[parent] = "callback" /\ child[parent] = NoOp
    /\ Called(p)
    /\ child' = [child EXCEPT ![parent] = p]
    /\ IF kind[p] \in {"cancel", "abort"}
       THEN CloseStream(p)
       ELSE /\ at' = [at EXCEPT ![p] = "loop"]
            /\ UNCHANGED streamClosed
    /\ UNCHANGED <<options, kind, failedOnce, callVars, drainVars, hasError,
                   sent, delivered>>

\* checkAborted, checkError and validateByteLength.
Refuse(p) ==
    /\ Looping(p, {"send", "wait"})
    /\ ~MaySend \/ TooLong(Wanted(p))
    /\ at' = [at EXCEPT ![p] = "threw"]
    /\ UNCHANGED <<options, kind, child, failedOnce, callVars, drainVars,
                   hasError, streamClosed, sent, delivered>>

\* The last check, the push into the window and the start of the call function
\* are one synchronous segment.
Admit(p) ==
    /\ Looping(p, {"send"})
    /\ MaySend /\ ~TooLong(byteLength[p]) /\ HasCapacity(byteLength[p])
    /\ sent' = Append(sent, p)
    /\ window' = Append(window, p)
    /\ inFlightBytes' = inFlightBytes + byteLength[p]
    /\ phase' = [phase EXCEPT ![p] =
           IF Limited /\ options.params # "bytes" THEN "prepare" ELSE "remote"]
    /\ tickets' = IF Encodes THEN Append(tickets, p) ELSE tickets
    /\ at' = [at EXCEPT ![p] = IF Limited THEN "admission" ELSE "done"]
    /\ UNCHANGED <<options, kind, child, failedOnce, byteLength, settled,
                   pendingEncodedBytes, taken, ready, locks, oldest, hasError,
                   streamClosed, delivered>>

\* The call function throws at once: everything is taken back.
AdmitThrows(p) ==
    /\ Looping(p, {"send"})
    /\ MaySend /\ ~TooLong(byteLength[p]) /\ HasCapacity(byteLength[p])
    /\ sent' = Append(sent, p)
    /\ hasError' = TRUE
    /\ at' = [at EXCEPT ![p] = "threw"]
    /\ UNCHANGED <<options, kind, child, failedOnce, callVars, drainVars,
                   streamClosed, delivered>>

\* send() with a byte limit waits until its call is admitted or rejected.
AdmissionEnds(p) ==
    /\ at[p] = "admission"
    /\ Reserved(p) \/ phase[p] = "over"
    /\ at' = [at EXCEPT ![p] = IF Reserved(p) THEN "deliver" ELSE "threw"]
    /\ UNCHANGED <<options, kind, child, failedOnce, callVars, drainVars,
                   hasError, streamClosed, sent, delivered>>

CapacityFound(p) ==
    /\ Looping(p, {"wait"})
    /\ MaySend /\ HasCapacity(Wanted(p))
    /\ at' = [at EXCEPT ![p] = "done"]
    /\ UNCHANGED <<options, kind, child, failedOnce, callVars, drainVars,
                   hasError, streamClosed, sent, delivered>>

\* flush(), and cancel() after its synchronous part, empty the window and the
\* responses; an error does not end the loop but is thrown in the end.
FlushEnds(p) ==
    /\ Looping(p, {"flush", "cancel"})
    /\ window = <<>> /\ ready = <<>>
    /\ LET quiet == kind[p] = "cancel" /\ options.onError
       IN  at' = [at EXCEPT ![p] = IF (failedOnce[p] \/ hasError) /\ ~quiet
                                   THEN "threw" ELSE "done"]
    /\ UNCHANGED <<options, kind, child, failedOnce, callVars, drainVars,
                   hasError, streamClosed, sent, delivered>>

FlushDelivers(p) ==
    /\ Looping(p, {"flush", "cancel"}) /\ ready # <<>>
    /\ at' = [at EXCEPT ![p] = "deliver"]
    /\ UNCHANGED <<options, kind, child, failedOnce, callVars, drainVars,
                   hasError, streamClosed, sent, delivered>>

\* drainOne(): an operation that cannot end its loop asks for the lock.
AskForLock(p) ==
    /\ Looping(p, Kinds)
    /\ IF kind[p] \in {"flush", "cancel"}
       THEN ready = <<>> /\ window # <<>>
       ELSE MaySend /\ ~TooLong(Wanted(p)) /\ ~HasCapacity(Wanted(p))
    /\ at' = [at EXCEPT ![p] = "lock"]
    /\ locks' = Append(locks, Op(p))
    /\ UNCHANGED <<options, kind, child, failedOnce, callVars, window, taken,
                   ready, oldest, hasError, streamClosed, sent, delivered>>

(***************************************************************************)
(* The drain lock.                                                         *)
(***************************************************************************)
MoveTo(agent, opState, callPhase) ==
    /\ at' = IF agent[2] = "op" THEN [at EXCEPT ![agent[1]] = opState] ELSE at
    /\ phase' = IF agent[2] = "call" THEN [phase EXCEPT ![agent[1]] = callPhase]
                                     ELSE phase

\* releaseEncoding(), which a call may run again when it has no ticket any more.
ReleaseTicket(c) ==
    /\ tickets' = RemoveFirst(tickets, c)
    /\ pendingEncodedBytes' = IF c \in Range(tickets) THEN 0 ELSE pendingEncodedBytes
KeepTickets == UNCHANGED <<tickets, pendingEncodedBytes>>

\* The lock passes on; its new holder looks at the oldest call, if there is one.
Acquire(agent) ==
    /\ locks # <<>> /\ Head(locks) = agent /\ oldest = NoOp
    /\ IF window = <<>>
       THEN /\ locks' = Tail(locks) /\ MoveTo(agent, "deliver", "reserve")
            /\ UNCHANGED oldest
       ELSE /\ oldest' = Head(window)
            /\ UNCHANGED <<locks, at, phase>>
    /\ UNCHANGED <<options, kind, child, failedOnce, byteLength, settled,
                   tickets, inFlightBytes, pendingEncodedBytes, window, taken,
                   ready, hasError, streamClosed, sent, delivered>>

Holds(agent) == oldest # NoOp /\ Head(locks) = agent
ReleaseLock == locks' = Tail(locks) /\ oldest' = NoOp

\* Broken form: the bytes of a call that leaves the window are not given back.
TakeHeadKeepsBytes(agent) ==
    /\ Holds(agent) /\ settled[oldest] # "no"
    /\ ReleaseLock /\ MoveTo(agent, "taken", "taken")
    /\ window' = RemoveFirst(window, oldest)
    /\ taken' = Append(taken, <<oldest, agent>>)
    /\ UNCHANGED <<options, kind, child, failedOnce, byteLength, settled,
                   tickets, pendingEncodedBytes, inFlightBytes, ready, hasError,
                   streamClosed, sent, delivered>>

\* The oldest call has settled.  A call that failed before its bytes were
\* reserved may have left the window by itself.
TakeHead(agent) ==
    /\ Holds(agent) /\ settled[oldest] # "no"
    /\ ReleaseLock /\ MoveTo(agent, "taken", "taken")
    /\ window' = RemoveFirst(window, oldest)
    /\ inFlightBytes' = inFlightBytes - byteLength[oldest]
    /\ taken' = Append(taken, <<oldest, agent>>)
    /\ UNCHANGED <<options, kind, child, failedOnce, byteLength, settled,
                   tickets, pendingEncodedBytes, ready, hasError, streamClosed,
                   sent, delivered>>

\* A holder that may not wait on a closed or failed stream throws, as does a wait
\* for capacity whose own signal is aborted.
HolderThrows(agent) ==
    /\ Holds(agent) /\ settled[oldest] = "no"
    /\ \/ ~MaySend /\ (agent[2] = "call" \/ kind[agent[1]] \in {"send", "wait"})
       \/ agent[2] = "op" /\ kind[agent[1]] = "wait"
    /\ ReleaseLock /\ MoveTo(agent, "threw", "failing")
    /\ IF agent[2] = "call" THEN ReleaseTicket(agent[1]) ELSE KeepTickets
    /\ UNCHANGED <<options, kind, child, failedOnce, byteLength, settled,
                   inFlightBytes, window, taken, ready, hasError, streamClosed,
                   sent, delivered>>

\* The takers resume in the order in which they had the lock, a call function with
\* checkAborted and checkError.
PushReady(agent) ==
    /\ taken # <<>> /\ Head(taken)[2] = agent
    /\ taken' = Tail(taken) /\ ready' = Append(ready, Head(taken)[1])
    /\ MoveTo(agent, "deliver", IF MaySend THEN "reserve" ELSE "failing")
    /\ IF agent[2] = "call" /\ ~MaySend THEN ReleaseTicket(agent[1]) ELSE KeepTickets
    /\ UNCHANGED <<options, kind, child, failedOnce, byteLength, settled,
                   inFlightBytes, window, locks, oldest, hasError, streamClosed,
                   sent, delivered>>

(***************************************************************************)
(* Responses.                                                              *)
(***************************************************************************)
\* flush() catches what a delivery throws and remembers that there was an error.
Throw(p) ==
    /\ at' = [at EXCEPT ![p] =
           IF kind[p] \in {"flush", "cancel"} THEN "loop" ELSE "threw"]
    /\ failedOnce' = [failedOnce EXCEPT ![p] = TRUE]
    /\ hasError' = TRUE

\* deliverReadyResponses(), one response; the callback for a result is awaited.
Deliver(p) ==
    /\ at[p] = "deliver" /\ ready # <<>>
    /\ delivered' = Append(delivered, Head(ready)) /\ ready' = Tail(ready)
    /\ LET call == Head(ready)
       IN  \/ /\ settled[call] = "ok"
              /\ at' = [at EXCEPT ![p] = "callback"]
              /\ UNCHANGED <<failedOnce, hasError>>
           \/ /\ settled[call] = "failed" /\ options.onError
              /\ UNCHANGED <<at, failedOnce, hasError>>
           \/ /\ settled[call] = "failed"
              /\ Throw(p)
    /\ UNCHANGED <<options, kind, child, callVars, window, taken, locks, oldest,
                   streamClosed, sent>>

CallbackEnds(p) ==
    /\ at[p] = "callback"
    /\ child[p] # NoOp => at[child[p]] \in Over
    /\ child' = [child EXCEPT ![p] = NoOp]
    /\ \/ /\ at' = [at EXCEPT ![p] = "deliver"]
          /\ UNCHANGED <<failedOnce, hasError>>
       \/ Throw(p)
    /\ UNCHANGED <<options, kind, callVars, drainVars, streamClosed, sent,
                   delivered>>

DeliveryEnds(p) ==
    /\ at[p] = "deliver" /\ ready = <<>>
    /\ at' = [at EXCEPT ![p] =
           IF kind[p] = "send" /\ p \in Range(sent) THEN "done" ELSE "loop"]
    /\ UNCHANGED <<options, kind, child, failedOnce, callVars, drainVars,
                   hasError, streamClosed, sent, delivered>>

(***************************************************************************)
(* The call function.                                                      *)
(***************************************************************************)
CallMoves(c, to) == phase' = [phase EXCEPT ![c] = to]

\* prepare()
Prepare(c) ==
    /\ phase[c] = "prepare"
    /\ c \in Range(tickets) => Head(tickets) = c
    /\ CallMoves(c, IF MaySend THEN "encode" ELSE "failing")
    /\ UNCHANGED <<options, opVars, byteLength, settled, tickets, inFlightBytes,
                   pendingEncodedBytes, drainVars, hasError, streamClosed, sent,
                   delivered>>

\* Encoding fails, and the ticket stays until the call function has rejected; or
\* reserveBytes() refuses the length, which exceeds the limit, or the call is
\* charged already, for another length.
EncodeFails(c) ==
    /\ phase[c] = "encode"
    /\ CallMoves(c, "failing")
    /\ KeepTickets \/ ReleaseTicket(c)
    /\ UNCHANGED <<options, opVars, byteLength, settled, inFlightBytes,
                   drainVars, hasError, streamClosed, sent, delivered>>

Encode(c, n) ==
    /\ phase[c] = "encode"
    /\ Encodes /\ ~TooLong(n)
    /\ CallMoves(c, "reserve")
    /\ pendingEncodedBytes' = n
    /\ UNCHANGED <<options, opVars, byteLength, settled, tickets, inFlightBytes,
                   drainVars, hasError, streamClosed, sent, delivered>>

\* The loop of reserveBytes(): admitted, refused, or off to drain the oldest call.
Reserve(c) ==
    /\ phase[c] = "reserve"
    /\ \/ /\ MaySend /\ HasByteCapacity(pendingEncodedBytes)
          /\ byteLength' = [byteLength EXCEPT ![c] = pendingEncodedBytes]
          /\ inFlightBytes' = inFlightBytes + pendingEncodedBytes
          /\ CallMoves(c, "remote") /\ ReleaseTicket(c)
          /\ UNCHANGED locks
       \/ /\ ~MaySend /\ HasByteCapacity(pendingEncodedBytes)
          /\ CallMoves(c, "failing") /\ ReleaseTicket(c)
          /\ UNCHANGED <<byteLength, inFlightBytes, locks>>
       \/ /\ ~HasByteCapacity(pendingEncodedBytes)
          /\ CallMoves(c, "lock") /\ locks' = Append(locks, Call(c))
          /\ KeepTickets
          /\ UNCHANGED <<byteLength, inFlightBytes>>
    /\ UNCHANGED <<options, opVars, settled, window, taken, ready, oldest,
                   hasError, streamClosed, sent, delivered>>

\* The remote call returns, or fails: also because its signal was aborted.
Respond(c) ==
    /\ phase[c] = "remote"
    /\ CallMoves(c, "over")
    /\ \E how \in {"ok", "failed"} : settled' = [settled EXCEPT ![c] = how]
    /\ UNCHANGED <<options, opVars, byteLength, tickets, inFlightBytes,
                   pendingEncodedBytes, drainVars, hasError, streamClosed, sent,
                   delivered>>

\* The call function rejects before it has called: a call whose bytes were not
\* reserved leaves the window at once.
SettleFailure(c) ==
    /\ phase[c] = "failing"
    /\ CallMoves(c, "over") /\ settled' = [settled EXCEPT ![c] = "failed"]
    /\ ReleaseTicket(c)
    /\ window' = IF Reserved(c) THEN window ELSE RemoveFirst(window, c)
    /\ UNCHANGED <<options, opVars, byteLength, inFlightBytes, taken, ready,
                   locks, oldest, hasError, streamClosed, sent, delivered>>

AgentStep(agent) ==
    Acquire(agent) \/ TakeHead(agent) \/ HolderThrows(agent) \/ PushReady(agent)

OpStep(p) ==
    \/ Refuse(p) \/ Admit(p) \/ AdmissionEnds(p) \/ CapacityFound(p)
    \/ FlushEnds(p) \/ FlushDelivers(p) \/ AskForLock(p)
    \/ Deliver(p) \/ CallbackEnds(p) \/ DeliveryEnds(p)

StreamCallStep(c) ==
    \/ Prepare(c) \/ EncodeFails(c) \/ (\E n \in Sizes : Encode(c, n))
    \/ Reserve(c) \/ Respond(c) \/ SettleFailure(c)

StreamNext ==
    \/ \E p \in Ops : Close(p) \/ OpStep(p) \/ AdmitThrows(p) \/ StreamCallStep(p)
    \/ \E p, parent \in Ops : Nest(p, parent)
    \/ \E agent \in Agents : AgentStep(agent)

StreamSpec == StreamInit /\ [][StreamNext]_streamVars

\* Continuations run, callbacks end, and the remote answers or the call fails.
StreamFairness ==
    /\ \A p \in Ops : /\ WF_streamVars(at[p] # "idle" /\ OpStep(p))
                      /\ WF_streamVars(StreamCallStep(p))
    /\ \A agent \in Agents : WF_streamVars(AgentStep(agent))
StreamFairSpec == StreamSpec /\ StreamFairness

(***************************************************************************)
(* Properties.                                                             *)
(***************************************************************************)
\* The bytes of the calls in the window, one by one.
WindowBytes ==
    UNION {{<<c, b>> : b \in 1 .. byteLength[c]} : c \in Range(window)}

\* The window never exceeds its limits, and the byte account is what the calls
\* in it were charged, whatever way each of them left; no more than one encoded
\* candidate waits outside the budget.
WindowExact ==
    /\ Len(window) <= MaxInFlight
    /\ inFlightBytes = Cardinality(WindowBytes)
    /\ Limited => inFlightBytes <= options.bytes
    /\ Cardinality({c \in Ops : phase[c] \in {"encode", "reserve", "lock", "taken"}})
           <= IF Encodes THEN 1 ELSE Cardinality(Ops)

\* Responses are handed over in the order of the sends, each at most once,
\* however many operations drain at the same time.
HandedOverInOrder ==
    \A i, j \in DOMAIN delivered :
        i < j => \E m, n \in DOMAIN sent : /\ m < n
                                           /\ sent[m] = delivered[i]
                                           /\ sent[n] = delivered[j]

\* When cancel() has ended, no call is in flight, and none follows: no send that
\* was waiting slips through.
CancelEmpties ==
    \A p \in Ops : kind[p] = "cancel" /\ at[p] \in Over => window = <<>>

\* The call that holds the drain lock waits for its own settlement.
WaitsForItself == oldest # NoOp /\ Head(locks) = Call(oldest)

\* Every operation ends, also those that callbacks make and await, but for
\* those behind a candidate that has become the oldest call itself.
OpsEnd ==
    \A p \in Ops : (at[p] # "idle") ~> (at[p] \in Over \/ WaitsForItself)

\* flush(): "Resolves after every accepted stream call has completed."
EveryOpEnds == \A p \in Ops : (at[p] # "idle") ~> (at[p] \in Over)
=============================================================================
