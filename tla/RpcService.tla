------------------------------ MODULE RpcService ------------------------------
(* serve() (src/rpc/server/service.ts): a service handle with its accept loop, *)
(* the queue of accepted transports it reads (internal/accept.ts), and the     *)
(* handle of each connection.                                                  *)
(*                                                                             *)
(* A connection is admitted, its instance is made by a factory that may take   *)
(* for ever, its runtime is created, and it becomes active.  A timeout of the  *)
(* initialization, drain() with or without a deadline and close() may come at  *)
(* any point of that, and the transport may close or report an error.          *)
EXTENDS Integers, Sequences, FiniteSets, SequencesExt

CONSTANTS
    Conns,          \* connections that may arrive
    MaxActive,      \* maxActiveConnections
    InitTimeout,    \* connectionInitTimeoutMs is set
    ForceAfter      \* drain() is given forceAfterMs

ASSUME ServiceAssumption ==
    /\ IsFiniteSet(Conns) /\ MaxActive \in Nat \ {0}
    /\ {InitTimeout, ForceAfter} \subseteq BOOLEAN

VARIABLES
    conn,           \* per connection, see ServiceTypeOK
    accepted,       \* RpcAcceptedTransportQueue: #values, #closed
    loop,           \* #runAcceptLoop
    service,        \* #closed, #draining
    stats,          \* the four counters
    drainer, closer,\* how far drain() and close() have come
    forcer,         \* the forced part of drain()
    awaited         \* handles whose close() the forcer and the closer wait for

serviceVars == <<conn, accepted, loop, service, stats, drainer, closer, forcer, awaited>>
opVars == <<service, drainer, closer, forcer, awaited>>

ServiceTypeOK ==
    /\ conn \in [Conns ->
           [place    : {"away", "queued", "given", "init", "active", "out"},
            open     : BOOLEAN,      \* the transport
            make     : {"none", "binding", "runtime", "made", "taken", "failed"},
            handle   : {"none", "open", "closing", "closed", "broken"},
            instance : {"none", "live", "disposed"},
            lost     : BOOLEAN,      \* closure or an error was reported
            aborted  : BOOLEAN,      \* the abort signal of the factory
            forced   : BOOLEAN,      \* forceClosed, and abandoned with it
            counted  : BOOLEAN,      \* failureCounted
            task     : {"none", "racing", "timing", "timedOut", "closing", "done"}]]
    /\ accepted \in [values : Seq(Conns), closed : BOOLEAN]
    /\ loop \in {"next", "pending", "given", "ending", "ended"}
    /\ service \in [closed : BOOLEAN, draining : BOOLEAN]
    /\ stats \in [accepted : Nat, failed : Nat, refused : Nat, forced : Nat]
    /\ drainer \in {"none", "behindClose", "loop", "active", "done", "failed"}
    /\ closer \in {"none", "initializing", "handles", "loop", "late", "done", "failed"}
    /\ forcer \in {"none", "initializing", "handles", "done"}
    /\ awaited \in [{"forcer", "closer"} -> SUBSET Conns]

ServiceInit ==
    /\ conn = [c \in Conns |->
           [place |-> "away", open |-> FALSE, make |-> "none", handle |-> "none",
            instance |-> "none", lost |-> FALSE, aborted |-> FALSE,
            forced |-> FALSE, counted |-> FALSE, task |-> "none"]]
    /\ accepted = [values |-> <<>>, closed |-> FALSE]
    /\ loop = "next"
    /\ service = [closed |-> FALSE, draining |-> FALSE]
    /\ stats = [accepted |-> 0, failed |-> 0, refused |-> 0, forced |-> 0]
    /\ drainer = "none" /\ closer = "none" /\ forcer = "none"
    /\ awaited = [w \in {"forcer", "closer"} |-> {}]

Initializing == {c \in Conns : conn[c].place = "init"}
Active == {c \in Conns : conn[c].place = "active"}

\* What the callbacks of attachTransportLifecycle do: a handle closes, and a
\* connection without one is found closed when its handle would be made.
Reported(r) ==
    [r EXCEPT !.lost = @ \/ r.make \in {"binding", "runtime", "made", "taken"},
              !.handle = IF @ = "open" THEN "closing" ELSE @]
Dropped(r) == [Reported(r) EXCEPT !.open = FALSE]

CloseHandle(r) == [r EXCEPT !.handle = IF @ = "open" THEN "closing" ELSE @]

(***************************************************************************)
(* Accepting.                                                              *)
(***************************************************************************)
\* push(): a closed queue has the transport closed.
Arrive(c) ==
    /\ conn[c].place = "away"
    /\ IF accepted.closed
       THEN /\ conn' = [conn EXCEPT ![c].place = "out"]
            /\ UNCHANGED <<accepted, loop>>
       ELSE IF loop = "pending"
       THEN /\ conn' = [conn EXCEPT ![c].place = "given", ![c].open = TRUE]
            /\ loop' = "given"
            /\ UNCHANGED accepted
       ELSE /\ conn' = [conn EXCEPT ![c].place = "queued", ![c].open = TRUE]
            /\ accepted' = [accepted EXCEPT !.values = Append(@, c)]
            /\ UNCHANGED loop
    /\ UNCHANGED <<stats, opVars>>

\* #next()
LoopNext ==
    /\ loop = "next"
    /\ IF accepted.values # <<>>
       THEN /\ conn' = [conn EXCEPT ![Head(accepted.values)].place = "given"]
            /\ accepted' = [accepted EXCEPT !.values = Tail(@)]
            /\ loop' = "given"
       ELSE /\ loop' = IF accepted.closed THEN "ending" ELSE "pending"
            /\ UNCHANGED <<conn, accepted>>
    /\ UNCHANGED <<stats, opVars>>

\* The source fails, and the loop ends with it.
SourceFails ==
    /\ loop = "pending"
    /\ loop' = "ending"
    /\ UNCHANGED <<conn, accepted, stats, opVars>>

\* Broken form: initializing connections are not counted.
AtActiveLimit == Cardinality(Active) >= MaxActive

\* #shouldRefuseConnection()
AtLimit == Cardinality(Active) + Cardinality(Initializing) >= MaxActive

Turned(c) == [conn EXCEPT ![c].place = "out", ![c].open = FALSE]

\* The body of the loop.  An admitted connection is registered before the first
\* await; one whose transport has closed learns it by subscribing.
HandleAccepted(c) ==
    /\ conn[c].place = "given"
    /\ loop' = "next"
    /\ IF service.closed
       THEN conn' = Turned(c) /\ UNCHANGED stats
       ELSE IF AtLimit
       THEN conn' = Turned(c) /\ stats' = [stats EXCEPT !.refused = @ + 1]
       ELSE /\ stats' = [stats EXCEPT !.accepted = @ + 1]
            /\ conn' = [conn EXCEPT ![c].place = "init", ![c].make = "binding",
                                    ![c].task = "racing", ![c].lost = ~conn[c].open]
    /\ UNCHANGED <<accepted, opVars>>

Tasks == {c \in Conns : conn[c].task \notin {"none", "done"}}

\* The loop's finally clause waits for the accept tasks.
LoopEnds ==
    /\ loop = "ending" /\ Tasks = {}
    /\ loop' = "ended"
    /\ UNCHANGED <<conn, accepted, stats, opVars>>

(***************************************************************************)
(* createServiceConnectionHandle                                           *)
(***************************************************************************)

\* Its catch clause: what was made is closed and disposed.
Undone(r) ==
    [r EXCEPT !.make = "failed", !.open = FALSE,
              !.handle = IF @ = "none" THEN @ ELSE "closed",
              !.instance = IF @ = "live" THEN "disposed" ELSE @]

Makes(c, r) ==
    /\ conn' = [conn EXCEPT ![c] = r]
    /\ UNCHANGED <<accepted, loop, stats, opVars>>

\* The factory ends, one way or the other, or never.
BindingEnds(c) ==
    /\ conn[c].make = "binding"
    /\ LET bound == [conn[c] EXCEPT !.instance = "live"]
       IN  \/ Makes(c, Undone(conn[c]))
           \/ Makes(c, IF conn[c].aborted \/ conn[c].lost THEN Undone(bound)
                       ELSE [bound EXCEPT !.make = "runtime"])

\* RpcServerRuntime.createWithRoot fails or ends; the abort signal and the
\* transport are looked at once more.
RuntimeCreated(c) ==
    /\ conn[c].make = "runtime"
    /\ \/ Makes(c, Undone(conn[c]))
       \/ Makes(c, IF conn[c].aborted \/ conn[c].lost THEN Undone(conn[c])
                   ELSE [conn[c] EXCEPT !.make = "made", !.handle = "open"])

\* The transport closes, or reports an error and stays open.
TransportReports(c) ==
    /\ conn[c].open
    /\ \/ Makes(c, Dropped(conn[c]))
       \/ /\ conn[c].make \in {"binding", "runtime"} \/ conn[c].handle = "open"
          /\ Makes(c, Reported(conn[c]))

\* RpcServiceConnectionHandleImpl.close(): the runtime closes with its transport,
\* the instance is disposed, which may throw, and the service is told.
HandleCloses(c) ==
    /\ conn[c].handle = "closing"
    /\ \E end \in {"closed", "broken"} :
           Makes(c, [conn[c] EXCEPT !.handle = end, !.open = FALSE,
                                    !.instance = "disposed",
                                    !.place = IF @ = "active" THEN "out" ELSE @])

(***************************************************************************)
(* #acceptConnection behind its race.                                      *)
(***************************************************************************)
\* #finishConnectionInitialization
Finished(r) == [r EXCEPT !.place = IF @ = "init" THEN "out" ELSE @]

Task(c, r, counters) ==
    /\ conn' = [conn EXCEPT ![c] = r]
    /\ stats' = counters
    /\ UNCHANGED <<accepted, loop, opVars>>

\* raceTimeoutValue has decided for the timer; the creation may still end before
\* the signal is aborted.
TimerFires(c) ==
    /\ InitTimeout
    /\ conn[c].task = "racing" /\ conn[c].make \in {"binding", "runtime"}
    /\ Task(c, [conn[c] EXCEPT !.task = "timing"], stats)

TimeoutAborts(c) ==
    /\ conn[c].task = "timing"
    /\ Task(c, [Dropped(conn[c]) EXCEPT !.aborted = TRUE, !.task = "timedOut"], stats)

\* The initialization has failed: by its own error or by the timeout.
InitializationFails(c) ==
    /\ \/ conn[c].task = "racing" /\ conn[c].make = "failed"
       \/ conn[c].task = "timedOut"
    /\ Task(c, [Finished(conn[c]) EXCEPT !.counted = TRUE, !.task = "done"],
            [stats EXCEPT !.failed = @ + (IF conn[c].counted THEN 0 ELSE 1)])

\* A force sweep has abandoned the initialization.
Abandoned(c) ==
    /\ conn[c].forced /\ conn[c].task \in {"racing", "timing", "timedOut"}
    /\ Task(c, [conn[c] EXCEPT !.task = "done"], stats)

\* Broken form: a drain counts as a close.
ForcesNewcomersInDrain == service.closed

\* A service that is draining still takes the connection in.
ForcesNewcomers == service.closed /\ ~service.draining

\* The handle arrives.
HandleArrives(c) ==
    /\ conn[c].task = "racing" /\ conn[c].make = "made"
    /\ LET r == [Finished(conn[c]) EXCEPT !.make = "taken", !.task = "done"]
       IN  IF r.forced
           THEN Task(c, [CloseHandle(r) EXCEPT !.task = "closing"], stats)
           ELSE IF r.handle # "open"
           THEN Task(c, r, stats)
           ELSE IF ForcesNewcomers
           THEN Task(c, [CloseHandle(r) EXCEPT !.place = "active", !.task = "closing"],
                     [stats EXCEPT !.forced = @ + 1])
           ELSE Task(c, [r EXCEPT !.place = "active"], stats)

\* The task has waited for the handle it closed.
TaskEnds(c) ==
    /\ conn[c].task = "closing" /\ conn[c].handle \in {"closed", "broken"}
    /\ Task(c, [conn[c] EXCEPT !.task = "done"], stats)

\* A handle made after a timeout or a sweep had ended the task.
LateHandle(c) ==
    /\ conn[c].task = "done" /\ conn[c].make = "made"
    /\ Task(c, [CloseHandle(conn[c]) EXCEPT !.make = "taken"],
            [stats EXCEPT !.forced = @ + (IF conn[c].forced THEN 0 ELSE 1)])

(***************************************************************************)
(* drain() and close().                                                    *)
(***************************************************************************)
\* RpcAcceptedTransportQueue.close(): a waiting loop is told that this was all,
\* and what nobody has taken is closed.
CloseAcceptor ==
    /\ accepted' = [values |-> <<>>, closed |-> TRUE]
    /\ loop' = IF loop = "pending" THEN "ending" ELSE loop
    /\ conn' = [c \in Conns |-> IF conn[c].place = "queued" THEN Turned(c)[c] ELSE conn[c]]

\* #forceCloseInitializingConnections
SweepInitializing ==
    /\ conn' = [c \in Conns |->
           IF c \in Initializing
           THEN [Dropped(conn[c]) EXCEPT !.forced = TRUE, !.counted = TRUE,
                                         !.aborted = TRUE, !.place = "out"]
           ELSE conn[c]]
    /\ stats' = [stats EXCEPT
           !.forced = @ + Cardinality(Initializing),
           !.failed = @ + Cardinality({c \in Initializing : ~conn[c].counted})]

\* #forceCloseActiveConnections: a handle that is already closing counts again.
SweepActive(who) ==
    /\ conn' = [c \in Conns |-> IF c \in Active THEN CloseHandle(conn[c]) ELSE conn[c]]
    /\ stats' = [stats EXCEPT !.forced = @ + Cardinality(Active)]
    /\ awaited' = [awaited EXCEPT ![who] = Active]

Settled(who) == \A c \in awaited[who] : conn[c].handle \in {"closed", "broken"}
AllClosed(who) == \A c \in awaited[who] : conn[c].handle = "closed"

Drain ==
    /\ drainer = "none"
    /\ IF closer # "none"
       THEN /\ drainer' = "behindClose"
            /\ UNCHANGED <<conn, accepted, loop, service>>
       ELSE /\ service' = [closed |-> TRUE, draining |-> TRUE]
            /\ drainer' = "loop"
            /\ CloseAcceptor
    /\ UNCHANGED <<stats, closer, forcer, awaited>>

DrainEnds(end) ==
    /\ drainer' = end
    /\ service' = [service EXCEPT !.draining = FALSE]
    /\ UNCHANGED <<conn, accepted, loop, stats, closer, forcer, awaited>>

\* #waitForDrainCompletion; once the deadline has passed its sweep is awaited
\* first.
Waiting == drainer \in {"loop", "active"}
Unforced == forcer \in {"none", "done"}

DrainLooks ==
    /\ drainer = "loop" /\ loop = "ended"
    /\ drainer' = "active"
    /\ UNCHANGED <<conn, accepted, loop, service, stats, closer, forcer, awaited>>

DrainCompletes ==
    \/ drainer = "active" /\ Active = {} /\ Unforced /\ DrainEnds("done")
    \/ drainer = "behindClose" /\ closer \in {"done", "failed"} /\ DrainEnds(closer)

DrainTimesOut ==
    /\ ForceAfter /\ Waiting /\ forcer = "none"
    /\ forcer' = "initializing"
    /\ SweepInitializing
    /\ UNCHANGED <<accepted, loop, service, drainer, closer, awaited>>

ForceActive ==
    /\ forcer = "initializing"
    /\ forcer' = "handles"
    /\ SweepActive("forcer")
    /\ UNCHANGED <<accepted, loop, service, drainer, closer>>

\* A handle whose close() failed makes the drain fail.
ForceEnds ==
    /\ forcer = "handles" /\ Settled("forcer")
    /\ forcer' = "done"
    /\ IF AllClosed("forcer") \/ ~Waiting
       THEN UNCHANGED <<drainer, service>>
       ELSE /\ drainer' = "failed"
            /\ service' = [service EXCEPT !.draining = FALSE]
    /\ UNCHANGED <<conn, accepted, loop, stats, closer, awaited>>

CloseService ==
    /\ closer = "none"
    /\ IF service.closed /\ Active = {} /\ Initializing = {}
       THEN closer' = "done" /\ UNCHANGED <<conn, stats, service>>
       ELSE /\ closer' = "initializing"
            /\ service' = [closed |-> TRUE, draining |-> FALSE]
            /\ SweepInitializing
    /\ UNCHANGED <<accepted, loop, drainer, forcer, awaited>>

CloseActive ==
    /\ closer = "initializing"
    /\ closer' = "handles"
    /\ SweepActive("closer")
    /\ UNCHANGED <<accepted, loop, service, drainer, forcer>>

\* A handle whose close() failed ends close() before the acceptor is closed.
CloseListener ==
    /\ closer = "handles" /\ Settled("closer")
    /\ IF AllClosed("closer")
       THEN closer' = "loop" /\ CloseAcceptor
       ELSE closer' = "failed" /\ UNCHANGED <<conn, accepted, loop>>
    /\ UNCHANGED <<service, stats, drainer, forcer, awaited>>

CloseLate ==
    /\ closer = "loop" /\ loop = "ended"
    /\ closer' = "late"
    /\ SweepActive("closer")
    /\ UNCHANGED <<accepted, loop, service, drainer, forcer>>

CloseCompletes ==
    /\ closer = "late" /\ Settled("closer")
    /\ closer' = IF AllClosed("closer") THEN "done" ELSE "failed"
    /\ UNCHANGED <<conn, accepted, loop, service, stats, drainer, forcer, awaited>>

AcceptStep == LoopNext \/ LoopEnds \/ \E c \in Conns : HandleAccepted(c)
TaskStep(c) == \/ TimeoutAborts(c) \/ InitializationFails(c) \/ Abandoned(c)
               \/ HandleArrives(c) \/ TaskEnds(c) \/ LateHandle(c)
OpStep == \/ DrainLooks \/ DrainCompletes \/ ForceActive \/ ForceEnds
          \/ CloseActive \/ CloseListener \/ CloseLate \/ CloseCompletes

ServiceNext ==
    \/ \E c \in Conns :
           \/ Arrive(c) \/ TransportReports(c) \/ TimerFires(c)
           \/ BindingEnds(c) \/ RuntimeCreated(c) \/ HandleCloses(c) \/ TaskStep(c)
    \/ SourceFails \/ AcceptStep
    \/ Drain \/ DrainTimesOut \/ CloseService \/ OpStep

ServiceSpec == ServiceInit /\ [][ServiceNext]_serviceVars

\* Everything the service runs itself goes on, handles close and the deadline of
\* a drain passes.  Nothing is assumed of a factory, a client or the source.
ServiceFairSpec ==
    /\ ServiceSpec
    /\ WF_serviceVars(AcceptStep) /\ WF_serviceVars(OpStep) /\ WF_serviceVars(DrainTimesOut)
    /\ \A c \in Conns : WF_serviceVars(TaskStep(c)) /\ WF_serviceVars(HandleCloses(c))

(***************************************************************************)
(* Properties.                                                             *)
(***************************************************************************)
\* However the creation of a handle, the timeout, the sweeps and the transport
\* fall together: an open transport has an owner that will close it, an open
\* handle is active or about to be taken, and an instance lives no longer than
\* its handle.
NothingLeaks ==
    \A c \in Conns : LET r == conn[c] IN
        /\ r.open => \/ r.place \in {"queued", "given", "init", "active"}
                     \/ r.handle = "closing"
        /\ r.handle = "open" => r.place = "active" \/ r.make = "made"
        /\ r.instance = "live" => r.make = "runtime" \/ r.handle \in {"open", "closing"}

\* Admission is decided before the first await, so concurrent initializations
\* stay within maxActiveConnections; a connection counted as failed is never
\* active; a drain or a close that succeeded has left none behind.
AdmissionHolds ==
    /\ Cardinality(Active \cup Initializing) <= MaxActive
    /\ \A c \in Active : ~conn[c].counted
    /\ "done" \in {drainer, closer} => Active \cup Initializing = {}

\* A drain whose deadline has not passed closes no connection: one that closes
\* has lost its transport or was too slow to begin with.
DrainIsGraceful ==
    [][service.draining /\ service'.draining /\ forcer' = "none"
           => \A c \in Conns : conn[c].handle = "open" /\ conn'[c].handle # "open"
                  => conn'[c].lost \/ conn[c].aborted]_serviceVars

\* close() ends, and drain() with a deadline, even if a factory never does; and
\* then no handle stays open.
ShutdownEnds ==
    /\ (closer # "none") ~> (closer \in {"done", "failed"})
    /\ (ForceAfter /\ drainer # "none") ~> (drainer \in {"done", "failed"})
    /\ \A c \in Conns : (closer # "none" /\ conn[c].handle = "open") ~>
                            (conn[c].handle \in {"closed", "broken"})

\* RpcServiceStats.closed: "Whether the service listener has been closed."
ClosedMeansListenerClosed ==
    closer \in {"done", "failed"} => accepted.closed
=============================================================================
