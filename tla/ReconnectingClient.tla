-------------------------- MODULE ReconnectingClient --------------------------
(* ReconnectingRpcClientTransport                                              *)
(* (src/rpc/transports/resilience/reconnecting_client.ts) over                 *)
(* connectWithReconnect (reconnect.ts).                                        *)
(*                                                                             *)
(* Operations run one at a time in a lane.  A call that fails closes the       *)
(* connection, connects anew with retries, maps its capability to the new      *)
(* connection and is sent once more.  A capability is known to its holder by   *)
(* its index; the connection it was given by is kept beside it as a ghost.     *)
EXTENDS Integers, Sequences, FiniteSets, SequencesExt

CONSTANTS
    Operations,     \* operations that may be started
    MaxConnects,    \* bound on connections made
    MaxAttempts,    \* maxAttempts of the reconnect policy
    CapIndexes      \* capability indexes the peers hand out

ASSUME ReconnectAssumption ==
    /\ IsFiniteSet(Operations) /\ {MaxConnects, MaxAttempts} \subseteq Nat
    /\ CapIndexes \subseteq Nat /\ CapIndexes # {}

VARIABLES
    choice,     \* options: retry and rebootstrap, and what the remap callback does
    operation,  \* per operation: kind, capability and result
    lane,       \* #opChain: started and not ended, the first one runs
    at,         \* where the running operation is
    attempt,    \* connectWithReconnect: attempts that failed
    aborted,    \* its signal
    previous,   \* previousBootstrap of the running call
    current,    \* #client, 0 for none
    made, asked,\* connections made, and those whose close() was called
    bootCap,    \* #bootstrapCapability
    shut,       \* #closed
    sent,       \* ghost: the calls sent, in order
    reconnects, retries   \* counters

connVars == <<current, made, asked, bootCap, shut>>
reconnectVars == <<choice, operation, lane, at, attempt, aborted, previous, connVars,
                   sent, reconnects, retries>>

Caps == [conn : 1 .. MaxConnects, index : CapIndexes]
NoCap == [conn |-> 0, index |-> 0]
Kinds == {"bootstrap", "call", "finish", "close"}
ReconnectChoices == [retry : BOOLEAN, rebootstrap : BOOLEAN, remap : {"absent", "gives", "refuses"}]

ReconnectTypeOK ==
    /\ choice \in ReconnectChoices
    /\ operation \in [Operations -> [kind : Kinds \cup {"none"}, cap : Caps \cup {NoCap},
                                     result : {"none", "running", "done", "failed"}]]
    /\ lane \in Seq(Operations)
    /\ at \in {"gate", "connecting", "waiting", "ready", "answer", "replacing",
               "replaced", "rebooting", "resent", "closing"}
    /\ attempt \in 0 .. MaxAttempts /\ aborted \in BOOLEAN
    /\ {previous, bootCap} \subseteq Caps \cup {NoCap}
    /\ current \in 0 .. made /\ made \in 0 .. MaxConnects
    /\ asked \subseteq 1 .. MaxConnects /\ shut \in BOOLEAN
    /\ sent \in Seq([op : Operations, conn : 1 .. MaxConnects, cap : Caps, mapped : BOOLEAN])
    /\ {reconnects, retries} \subseteq [attempts : Nat, successes : Nat, failures : Nat]

ReconnectInit ==
    /\ choice \in ReconnectChoices
    /\ operation = [o \in Operations |-> [kind |-> "none", cap |-> NoCap, result |-> "none"]]
    /\ lane = <<>> /\ at = "gate" /\ attempt = 0 /\ aborted = FALSE
    /\ previous = NoCap /\ current = 0 /\ made = 0 /\ asked = {}
    /\ bootCap = NoCap /\ shut = FALSE /\ sent = <<>>
    /\ reconnects = [attempts |-> 0, successes |-> 0, failures |-> 0]
    /\ retries = [attempts |-> 0, successes |-> 0, failures |-> 0]

Running == Head(lane)
Kind == operation[Running].kind
Cap == operation[Running].cap

Add(count, field) == [count EXCEPT ![field] = @ + 1]
InProgress(count) == count.attempts > count.successes + count.failures

\* The capabilities that callers got and may hold.
Held == {operation[o].cap : o \in {p \in Operations :
            operation[p].kind = "bootstrap" /\ operation[p].result = "done"}}

\* #enqueue()
Enqueue(o) ==
    /\ operation[o].kind = "none"
    /\ \A p \in Operations : p < o => operation[p].kind # "none"
    /\ \E k \in Kinds : \E c \in IF k = "call" THEN Held ELSE {NoCap} :
           operation' = [operation EXCEPT ![o] =
                             [kind |-> k, cap |-> c, result |-> "running"]]
    /\ lane' = Append(lane, o)
    /\ UNCHANGED <<choice, at, attempt, aborted, previous, connVars, sent, reconnects,
                   retries>>

Goes(to) == at' = to /\ UNCHANGED <<operation, lane, previous>>

\* Broken form: the gate is released on success only.
EndsUnreleased(result, cap) ==
    /\ operation' = [operation EXCEPT ![Running].result = result, ![Running].cap = cap]
    /\ lane' = IF result = "done" THEN Tail(lane) ELSE lane
    /\ at' = IF result = "done" THEN "gate" ELSE "closing"
    /\ previous' = NoCap

\* The finally clause of #enqueue opens the gate of the next operation.
EndsWith(result, cap) ==
    /\ operation' = [operation EXCEPT ![Running].result = result, ![Running].cap = cap]
    /\ lane' = Tail(lane) /\ at' = "gate" /\ previous' = NoCap

Ends(result) == EndsWith(result, Cap)

\* An error ends what is in progress: the reconnect, the retry of a call or both.
Throws ==
    /\ Ends("failed")
    /\ reconnects' = IF InProgress(reconnects) THEN Add(reconnects, "failures") ELSE reconnects
    /\ retries' = IF InProgress(retries) THEN Add(retries, "failures") ELSE retries

\* connectWithReconnect starts unless its signal has been given.
Connects ==
    /\ attempt' = 0
    /\ IF aborted THEN Throws ELSE Goes("connecting") /\ UNCHANGED <<reconnects, retries>>

\* #assertOpen(), then #ensureConnected().
Begin ==
    /\ lane # <<>> /\ at = "gate" /\ Kind # "close"
    /\ IF ~shut /\ current = 0 THEN Connects
       ELSE /\ IF shut THEN Ends("failed") ELSE Goes("ready")
            /\ UNCHANGED <<attempt, reconnects, retries>>
    /\ UNCHANGED <<choice, aborted, connVars, sent>>

(***************************************************************************)
(* connectWithReconnect.                                                   *)
(***************************************************************************)
Connected ==
    /\ at = "connecting" /\ made < MaxConnects
    /\ made' = made + 1 /\ current' = made + 1
    /\ IF InProgress(reconnects)
       THEN Goes("replaced") /\ reconnects' = Add(reconnects, "successes")
       ELSE Goes("ready") /\ UNCHANGED reconnects
    /\ UNCHANGED <<choice, attempt, aborted, asked, bootCap, shut, sent, retries>>

\* The policy gives up after MaxAttempts retries; the signal is looked at before
\* each attempt, not during one, and ends the sleep between two.
ConnectFails ==
    /\ at = "connecting" \/ (at = "waiting" /\ aborted)
    /\ IF ~aborted /\ attempt < MaxAttempts
       THEN /\ Goes("waiting") /\ attempt' = attempt + 1
            /\ UNCHANGED <<reconnects, retries>>
       ELSE Throws /\ UNCHANGED attempt
    /\ UNCHANGED <<choice, aborted, connVars, sent>>

WaitEnds ==
    /\ at = "waiting" /\ ~aborted
    /\ Goes("connecting")
    /\ UNCHANGED <<choice, attempt, aborted, connVars, sent, reconnects, retries>>

AbortConnects ==
    /\ ~aborted /\ aborted' = TRUE
    /\ UNCHANGED <<choice, operation, lane, at, attempt, previous, connVars, sent,
                   reconnects, retries>>

(***************************************************************************)
(* An operation on the connection.                                         *)
(***************************************************************************)
Sends(cap) ==
    sent' = Append(sent, [op |-> Running, conn |-> current, cap |-> cap,
                          mapped |-> previous # NoCap])

\* A call goes out with the capability as its caller holds it.
Ask ==
    /\ at = "ready"
    /\ Goes("answer")
    /\ IF Kind = "call" THEN Sends(Cap) ELSE UNCHANGED sent
    /\ UNCHANGED <<choice, attempt, aborted, connVars, reconnects, retries>>

Answered ==
    /\ at = "answer"
    /\ IF Kind = "bootstrap"
       THEN \E i \in CapIndexes :
                /\ bootCap' = [conn |-> current, index |-> i]
                /\ EndsWith("done", bootCap')
       ELSE Ends("done") /\ UNCHANGED bootCap
    /\ UNCHANGED <<choice, attempt, aborted, current, made, asked, shut, sent,
                   reconnects, retries>>

\* #reconnect() up to its first await.
DropConnection ==
    /\ current' = 0 /\ bootCap' = NoCap
    /\ asked' = asked \cup {current}

\* A call is retried once; finish and release replace the connection and fail.
AnswerFails(reconnectable) ==
    /\ at = "answer"
    /\ IF ~reconnectable \/ Kind = "bootstrap" \/ (Kind = "call" /\ ~choice.retry)
       THEN Ends("failed") /\ UNCHANGED <<current, asked, bootCap, reconnects, retries>>
       ELSE /\ at' = "replacing"
            /\ previous' = IF Kind = "call" THEN bootCap ELSE NoCap
            /\ retries' = IF Kind = "call" THEN Add(retries, "attempts") ELSE retries
            /\ reconnects' = Add(reconnects, "attempts")
            /\ DropConnection
            /\ UNCHANGED <<operation, lane>>
    /\ UNCHANGED <<choice, attempt, aborted, made, shut, sent>>

\* The old connection's close() ends, and when it fails everything does.
OldCloses ==
    /\ at = "replacing"
    /\ \/ Connects
       \/ Throws /\ UNCHANGED attempt
    /\ UNCHANGED <<choice, aborted, connVars, sent>>

Resend(cap) == Sends(cap) /\ Goes("resent") /\ UNCHANGED <<reconnects, retries>>
MapFails == Throws /\ UNCHANGED sent

\* remapCapabilityOnReconnect
Remap ==
    IF choice.remap = "gives"
    THEN \E i \in CapIndexes : Resend([conn |-> current, index |-> i])
    ELSE MapFails

IsBootstrap == Cap.index = previous.index

\* #mapCapabilityAfterReconnect up to its bootstrap.
Map ==
    /\ at = "replaced"
    /\ IF Kind # "call"
       THEN Ends("failed") /\ UNCHANGED <<sent, reconnects, retries>>
       ELSE IF previous = NoCap THEN Resend(Cap)
       ELSE IF choice.rebootstrap
       THEN Goes("rebooting") /\ UNCHANGED <<sent, reconnects, retries>>
       ELSE IF IsBootstrap THEN MapFails
       ELSE Remap
    /\ UNCHANGED <<choice, attempt, aborted, connVars>>

\* Broken form: the capability the call came with is sent again.
RebootedUnmapped ==
    /\ at = "rebooting"
    /\ \E i \in CapIndexes : bootCap' = [conn |-> current, index |-> i]
    /\ IF IsBootstrap THEN Resend(Cap) ELSE Remap
    /\ UNCHANGED <<choice, attempt, aborted, current, made, asked, shut>>

Rebooted ==
    /\ at = "rebooting"
    /\ \E i \in CapIndexes : bootCap' = [conn |-> current, index |-> i]
    /\ IF IsBootstrap THEN Resend(bootCap') ELSE Remap
    /\ UNCHANGED <<choice, attempt, aborted, current, made, asked, shut>>

RebootFails ==
    /\ at = "rebooting"
    /\ MapFails
    /\ UNCHANGED <<choice, attempt, aborted, connVars>>

ResentEnds ==
    /\ at = "resent"
    /\ \/ Throws
       \/ Ends("done") /\ retries' = Add(retries, "successes") /\ UNCHANGED reconnects
    /\ UNCHANGED <<choice, attempt, aborted, connVars, sent>>

\* close() waits for its turn.
CloseClient ==
    /\ lane # <<>> /\ at = "gate" /\ Kind = "close"
    /\ shut' = TRUE
    /\ IF current = 0
       THEN Ends("done") /\ UNCHANGED <<current, asked, bootCap>>
       ELSE Goes("closing") /\ DropConnection
    /\ UNCHANGED <<choice, attempt, aborted, made, sent, reconnects, retries>>

ClientCloses ==
    /\ at = "closing" /\ Kind = "close"
    /\ Ends("done") \/ Ends("failed")
    /\ UNCHANGED <<choice, attempt, aborted, connVars, sent, reconnects, retries>>

LaneStep ==
    \/ Begin \/ Connected \/ ConnectFails \/ WaitEnds \/ Ask \/ Answered
    \/ \E reconnectable \in BOOLEAN : AnswerFails(reconnectable)
    \/ OldCloses \/ Map \/ Rebooted \/ RebootFails \/ ResentEnds
    \/ CloseClient \/ ClientCloses

ReconnectNext == LaneStep \/ AbortConnects \/ \E o \in Operations : Enqueue(o)
ReconnectSpec == ReconnectInit /\ [][ReconnectNext]_reconnectVars

\* Connections, answers and sleeps end, one way or the other.
ReconnectFairSpec == ReconnectSpec /\ WF_reconnectVars(LaneStep)

(***************************************************************************)
(* Properties.                                                             *)
(***************************************************************************)
\* A call goes out at most twice, the second time on a later connection; and then,
\* if the lane knew a bootstrap capability, with one that this connection gave.
RetriesMapped ==
    \A i, j \in DOMAIN sent : i < j /\ sent[i].op = sent[j].op =>
        /\ sent[i].conn < sent[j].conn
        /\ \A k \in DOMAIN sent : sent[k].op = sent[i].op => k \in {i, j}
        /\ sent[j].mapped => sent[j].cap.conn = sent[j].conn

\* Whatever fails while a connection is replaced, each one that was made is the
\* current one or was told to close; and the counters add up: what was attempted
\* has succeeded or failed, but for what the running operation is at.
NoConnectionLost ==
    /\ 1 .. made = asked \cup ({current} \ {0}) /\ current \notin asked
    /\ InProgress(reconnects) => at \in {"replacing", "connecting", "waiting"}
    /\ InProgress(retries) => Kind = "call" /\ at # "gate"

\* close() takes its turn like any other operation: behind it nothing is sent or
\* connected, not even for an operation that was already waiting.
ClosedForGood == [][shut => UNCHANGED <<sent, made>>]_reconnectVars

\* Every operation ends, however often connections fail.
LaneMoves ==
    \A o \in Operations :
        (operation[o].result = "running") ~> (operation[o].result \in {"done", "failed"})

\* The module comment: "callers can hold stable capability references across
\* connection cycles".
ReferencesStable == \A i \in DOMAIN sent : sent[i].cap.conn = sent[i].conn
=============================================================================
