---------------------------- MODULE ConnectionPool ----------------------------
(* RpcConnectionPool (src/rpc/transports/resilience/connection_pool.ts).       *)
(*                                                                             *)
(* Connections are numbered in the order their attempts begin.  An attempt     *)
(* settles in one step (#connecting goes down) and what waits for it runs in a *)
(* later one; an awaited health check, a connect, an abort and a timeout are   *)
(* the places where other users of the pool come in between.                   *)
(*                                                                             *)
(* The fields of the pool are one record, so that the code's helpers, which    *)
(* several handlers run in one go, are operators from a pool to a pool.  Only  *)
(* waiters that are not settled are in "pending".                              *)
EXTENDS Naturals, Sequences, FiniteSets

CONSTANTS
    Acquirers,       \* calls of acquire(), each followed by a release()
    MaxConns,        \* bound on connect attempts
    MinConnections, MaxConnections,
    HealthChecks,    \* idle connections may be due for a health check
    ConnectMayFail,
    MayAbort,        \* acquirers pass an AbortSignal
    MayTimeOut,      \* acquireTimeoutMs may pass
    MayEvict,        \* idleTimeoutMs may pass
    MayClose,
    NoConn

ASSUME PoolAssumption ==
    /\ {MaxConns, MinConnections, MaxConnections} \subseteq Nat
    /\ MinConnections <= MaxConnections /\ MaxConnections > 0
    /\ MinConnections <= MaxConns
    /\ NoConn \notin 1 .. MaxConns
    /\ \A who \in {"orphan", "drain", "warmup", "detached", "nobody"} :
           who \notin Acquirers
    /\ {HealthChecks, ConnectMayFail, MayAbort, MayTimeOut, MayEvict, MayClose}
           \subseteq BOOLEAN

VARIABLES
    pool,     \* the fields of the pool, its attempts and its waiters
    acq,      \* how far each acquire() has come
    has,      \* the connection each one checks or holds
    open,     \* connections that are connected and were not closed
    aborted   \* signals that fired

poolVars == <<pool, acq, has, open, aborted>>

Conns == 1 .. MaxConns
Owners == Acquirers \cup {"orphan", "drain", "warmup", "detached", "nobody"}

TypeOK ==
    /\ pool \in [idle : Seq(Conns), active : SUBSET Conns,
                 pending : Seq(Acquirers), made : 0 .. MaxConns,
                 attempt : [Conns -> {"unused", "connecting", "connected",
                                      "failed", "done"}],
                 owner : [Conns -> Owners],
                 drain : {"off", "running", "ending"},
                 closed : BOOLEAN, closeDone : BOOLEAN]
    /\ acq \in [Acquirers -> {"idle", "checking", "creating", "waiting",
                              "holding", "failed", "done"}]
    /\ has \in [Acquirers -> Conns \cup {NoConn}]
    /\ open \subseteq Conns /\ aborted \subseteq Acquirers

\* Everything the handlers change together.
World == [pool |-> pool, acq |-> acq, has |-> has, open |-> open]
Becomes(w) == /\ w.pool.made <= MaxConns
              /\ pool' = w.pool /\ acq' = w.acq /\ has' = w.has
              /\ open' = w.open

\* The constructor begins the warm-up attempts.
Init ==
    /\ pool = [idle |-> <<>>, active |-> {}, pending |-> <<>>,
               made |-> MinConnections,
               attempt |-> [c \in Conns |-> IF c <= MinConnections
                                            THEN "connecting" ELSE "unused"],
               owner |-> [c \in Conns |-> IF c <= MinConnections
                                          THEN "warmup" ELSE "nobody"],
               drain |-> "off", closed |-> FALSE, closeDone |-> FALSE]
    /\ acq = [a \in Acquirers |-> "idle"]
    /\ has = [a \in Acquirers |-> NoConn]
    /\ open = {} /\ aborted = {}

(***************************************************************************)
(* The helpers of the pool.                                                *)
(***************************************************************************)
Managed(p) == Len(p.idle) + Cardinality(p.active)
                  + Cardinality({c \in Conns : p.attempt[c] = "connecting"})
CanCreateConnection(p) == Managed(p) < MaxConnections

BeginConnectAttempt(w, who) ==
    [w EXCEPT !.pool.made = @ + 1,
              !.pool.attempt[w.pool.made + 1] = "connecting",
              !.pool.owner[w.pool.made + 1] = who]

CloseConnection(w, c) == [w EXCEPT !.open = @ \ {c}]
Rejected(w, a) == [w EXCEPT !.acq[a] = "failed", !.has[a] = NoConn]
Holds(w, a, c) == [w EXCEPT !.acq[a] = "holding", !.has[a] = c,
                            !.pool.active = @ \cup {c}]

ParkIdleConnection(w, c) == [w EXCEPT !.pool.idle = Append(@, c)]

HandoffPendingAcquire(w, c) ==
    Holds([w EXCEPT !.pool.pending = Tail(@)], Head(w.pool.pending), c)

\* Broken form: an idle place is preferred to a waiter.
ParkAlways(w, c) == ParkIdleConnection(w, c)

HandoffOrPark(w, c) ==
    IF w.pool.pending = <<>> THEN ParkIdleConnection(w, c)
                             ELSE HandoffPendingAcquire(w, c)

\* The first turn of #drainPendingAcquires runs at once.
SchedulePendingCreateDrain(w) ==
    IF /\ w.pool.drain = "off" /\ ~w.pool.closed
       /\ w.pool.pending # <<>> /\ CanCreateConnection(w.pool)
    THEN BeginConnectAttempt([w EXCEPT !.pool.drain = "running"], "drain")
    ELSE w

(***************************************************************************)
(* acquire()                                                               *)
(***************************************************************************)
\* Broken form: an acquire that was aborted drops its connection.
DeliverOrDrop(w, a, c) ==
    IF a \in aborted THEN Rejected(w, a) ELSE Holds(w, a, c)

\* An idle connection that was taken goes to its acquirer, or, when that was
\* aborted meanwhile, back to the pool.
Deliver(w, a, c) ==
    IF a \notin aborted THEN Holds(w, a, c)
    ELSE Rejected(IF w.pool.closed THEN CloseConnection(w, c)
                                   ELSE HandoffOrPark(w, c), a)

\* The loop of acquire() up to its next await.  A connection may be idle long
\* enough for a health check, or not.
Seek(w, a) ==
    IF w.pool.idle # <<>>
    THEN LET c == Head(w.pool.idle)
             taken == [w EXCEPT !.pool.idle = Tail(@)]
         IN {Deliver(taken, a, c)} \cup
            IF HealthChecks
            THEN {[taken EXCEPT !.acq[a] = "checking", !.has[a] = c]} ELSE {}
    ELSE IF a \in aborted THEN {Rejected(w, a)}
    ELSE IF CanCreateConnection(w.pool)
    THEN {[BeginConnectAttempt(w, a) EXCEPT !.acq[a] = "creating",
                                            !.has[a] = NoConn]}
    ELSE {[w EXCEPT !.acq[a] = "waiting", !.has[a] = NoConn,
                    !.pool.pending = Append(@, a)]}

Acquire(a) ==
    /\ acq[a] = "idle"
    /\ \E w \in IF pool.closed THEN {Rejected(World, a)} ELSE Seek(World, a) :
           Becomes(w)
    /\ UNCHANGED aborted

\* The health check says yes, or no (or throws), and the loop goes on.
HealthCheckEnds(a) ==
    /\ acq[a] = "checking"
    /\ \/ Becomes(Deliver(World, a, has[a]))
       \/ \E w \in Seek(CloseConnection(World, has[a]), a) : Becomes(w)
    /\ UNCHANGED aborted

(***************************************************************************)
(* Connect attempts.                                                       *)
(***************************************************************************)
\* The factory settles: #connecting goes down, and nobody has seen it yet.
ConnectSettles(c) ==
    /\ pool.attempt[c] = "connecting"
    /\ \/ /\ open' = open \cup {c}
          /\ pool' = [pool EXCEPT !.attempt[c] = "connected"]
       \/ /\ ConnectMayFail
          /\ pool' = [pool EXCEPT !.attempt[c] = "failed"]
          /\ UNCHANGED open
    /\ UNCHANGED <<acq, has, aborted>>

Connected(c, who) == pool.attempt[c] = "connected" /\ pool.owner[c] = who
ConnectFailed(c, who) == pool.attempt[c] = "failed" /\ pool.owner[c] = who
Seen(c) == [World EXCEPT !.pool.attempt[c] = "done"]

\* #createConnection goes on.
AcquireConnected(a, c) ==
    /\ \/ /\ Connected(c, a)
          /\ Becomes(IF pool.closed
                     THEN Rejected(CloseConnection(Seen(c), c), a)
                     ELSE Holds(Seen(c), a, c))
       \/ /\ ConnectFailed(c, a)
          /\ Becomes(SchedulePendingCreateDrain(Rejected(Seen(c), a)))
    /\ UNCHANGED aborted

\* Broken form: the outcome of an abandoned attempt wakes no waiter.
OrphanForgotten(c) ==
    /\ \/ Connected(c, "orphan") /\ Becomes(CloseConnection(Seen(c), c))
       \/ ConnectFailed(c, "orphan") /\ Becomes(Seen(c))
    /\ UNCHANGED aborted

\* The attempt of an aborted acquire serves the next waiter, or makes room.
OrphanConnected(c) ==
    /\ \/ /\ Connected(c, "orphan")
          /\ Becomes(SchedulePendingCreateDrain(
                 IF pool.closed \/ pool.pending = <<>>
                 THEN CloseConnection(Seen(c), c)
                 ELSE HandoffPendingAcquire(Seen(c), c)))
       \/ /\ ConnectFailed(c, "orphan")
          /\ Becomes(SchedulePendingCreateDrain(Seen(c)))
    /\ UNCHANGED aborted

\* #drainPendingAcquires: the next turn of its loop.
DrainLoop(w) ==
    IF ~w.pool.closed /\ w.pool.pending # <<>> /\ CanCreateConnection(w.pool)
    THEN BeginConnectAttempt(w, "drain")
    ELSE [w EXCEPT !.pool.drain = "ending"]

DrainConnected(c) ==
    /\ \/ /\ Connected(c, "drain")
          /\ Becomes(
                 IF pool.closed
                 THEN [CloseConnection(Seen(c), c) EXCEPT !.pool.drain = "ending"]
                 ELSE IF pool.pending = <<>>
                 THEN [ParkIdleConnection(Seen(c), c) EXCEPT !.pool.drain = "ending"]
                 ELSE DrainLoop(HandoffPendingAcquire(Seen(c), c)))
       \/ /\ ConnectFailed(c, "drain")
          /\ Becomes(
                 IF pool.pending = <<>> THEN DrainLoop(Seen(c))
                 ELSE DrainLoop(Rejected([Seen(c) EXCEPT !.pool.pending = Tail(@)],
                                         Head(pool.pending))))
    /\ UNCHANGED aborted

DrainEnds ==
    /\ pool.drain = "ending"
    /\ Becomes(SchedulePendingCreateDrain([World EXCEPT !.pool.drain = "off"]))
    /\ UNCHANGED aborted

\* Broken form: a connection that comes late is kept by a closed pool.
WarmUpParks(c) ==
    /\ \/ Connected(c, "warmup") /\ Becomes(HandoffOrPark(Seen(c), c))
       \/ Connected(c, "detached") /\ Becomes(HandoffOrPark(Seen(c), c))
       \/ ConnectFailed(c, "detached") /\ Becomes(Seen(c))
       \/ /\ ConnectFailed(c, "warmup")
          /\ Becomes(SchedulePendingCreateDrain(Seen(c)))
    /\ UNCHANGED aborted

\* Warm-up attempts; close() detaches those that are still connecting.
WarmUpConnected(c) ==
    /\ \/ /\ Connected(c, "warmup")
          /\ Becomes(SchedulePendingCreateDrain(
                 IF pool.closed THEN CloseConnection(Seen(c), c)
                                ELSE HandoffOrPark(Seen(c), c)))
       \/ /\ ConnectFailed(c, "warmup")
          /\ Becomes(SchedulePendingCreateDrain(Seen(c)))
       \/ Connected(c, "detached") /\ Becomes(CloseConnection(Seen(c), c))
       \/ ConnectFailed(c, "detached") /\ Becomes(Seen(c))
    /\ UNCHANGED aborted

(***************************************************************************)
(* Timeouts, aborts, evictions.                                            *)
(***************************************************************************)
\* s without its i-th element.
Removed(s, i) == [j \in 1 .. Len(s) - 1 |-> IF j < i THEN s[j] ELSE s[j + 1]]

\* The i-th waiter is rejected.
RejectPendingAcquire(w, i) ==
    Rejected([w EXCEPT !.pool.pending = Removed(@, i)], w.pool.pending[i])

AcquireTimesOut(a) ==
    /\ MayTimeOut
    /\ \E i \in DOMAIN pool.pending :
           pool.pending[i] = a /\ Becomes(RejectPendingAcquire(World, i))
    /\ UNCHANGED aborted

\* A signal fires: a waiter is rejected, an attempt that is connecting is
\* abandoned, a health check goes on.
Abort(a) ==
    /\ MayAbort /\ a \notin aborted
    /\ aborted' = aborted \cup {a}
    /\ \/ \E i \in DOMAIN pool.pending :
              pool.pending[i] = a /\ Becomes(RejectPendingAcquire(World, i))
       \/ /\ acq[a] = "creating"
          /\ \E c \in Conns :
                /\ pool.attempt[c] = "connecting" /\ pool.owner[c] = a
                /\ Becomes(SchedulePendingCreateDrain(
                       [Rejected(World, a) EXCEPT !.pool.owner[c] = "orphan"]))
       \/ acq[a] = "checking" /\ UNCHANGED <<pool, acq, has, open>>

\* The idle timer: below the minimum the connection is parked again.
EvictIdle(c) ==
    /\ MayEvict
    /\ \E i \in DOMAIN pool.idle :
           LET w == [World EXCEPT !.pool.idle = Removed(@, i)]
           IN /\ pool.idle[i] = c
              /\ Becomes(IF Len(w.pool.idle) + Cardinality(w.pool.active)
                                >= MinConnections
                         THEN CloseConnection(w, c) ELSE ParkIdleConnection(w, c))
    /\ UNCHANGED aborted

(***************************************************************************)
(* release() and close()                                                   *)
(***************************************************************************)
Release(a) ==
    /\ acq[a] = "holding"
    /\ LET c == has[a]
           w == [World EXCEPT !.acq[a] = "done", !.has[a] = NoConn,
                              !.pool.active = @ \ {c}]
       IN Becomes(IF c \notin pool.active THEN w
                  ELSE IF pool.closed THEN CloseConnection(w, c)
                  ELSE HandoffOrPark(w, c))
    /\ UNCHANGED aborted

Close ==
    /\ MayClose /\ ~pool.closed
    /\ pool' = [pool EXCEPT !.closed = TRUE,
                   !.owner = [c \in Conns |->
                       IF /\ pool.owner[c] = "warmup"
                          /\ pool.attempt[c] = "connecting"
                       THEN "detached" ELSE pool.owner[c]]]
    /\ UNCHANGED <<acq, has, open, aborted>>

Elements(s) == {s[i] : i \in DOMAIN s}

\* #doClose after the warm-up: waiters are rejected, idle and active
\* connections closed.
DoClose ==
    /\ pool.closed /\ ~pool.closeDone
    /\ \A c \in Conns : pool.owner[c] = "warmup" => pool.attempt[c] = "done"
    /\ pool' = [pool EXCEPT !.pending = <<>>, !.idle = <<>>, !.active = {},
                            !.closeDone = TRUE]
    /\ acq' = [a \in Acquirers |-> IF a \in Elements(pool.pending) THEN "failed"
                                                                  ELSE acq[a]]
    /\ open' = open \ (Elements(pool.idle) \cup pool.active)
    /\ UNCHANGED <<has, aborted>>

AttemptStep(c) ==
    \/ ConnectSettles(c)
    \/ \E a \in Acquirers : AcquireConnected(a, c)
    \/ OrphanConnected(c) \/ DrainConnected(c) \/ WarmUpConnected(c)

AcquirerStep(a) == HealthCheckEnds(a) \/ Release(a)

Next ==
    \/ \E a \in Acquirers :
           Acquire(a) \/ AcquirerStep(a) \/ AcquireTimesOut(a) \/ Abort(a)
    \/ \E c \in Conns : AttemptStep(c) \/ EvictIdle(c)
    \/ DrainEnds \/ Close \/ DoClose

Spec == Init /\ [][Next]_poolVars

\* Attempts and health checks settle, users release what they hold.
FairSpec ==
    /\ Spec
    /\ \A c \in Conns : WF_poolVars(AttemptStep(c))
    /\ \A a \in Acquirers : WF_poolVars(AcquirerStep(a))
    /\ WF_poolVars(DrainEnds) /\ WF_poolVars(DoClose)

(***************************************************************************)
(* Properties.                                                             *)
(***************************************************************************)
Users(c) == {a \in Acquirers : has[a] = c}

\* Every open connection is in exactly one place: idle, with one acquirer that
\* checks or holds it, or fresh from an attempt that is still to be seen; and it
\* counts as active exactly while it is held.  So none is shared, lost or freed
\* twice, whatever is aborted, times out or closes.
OnePlace ==
    /\ TypeOK
    /\ \A c \in open :
        /\ Cardinality({i \in DOMAIN pool.idle : pool.idle[i] = c})
               + Cardinality(Users(c))
               + (IF pool.attempt[c] = "connected" THEN 1 ELSE 0) = 1
        /\ c \in pool.active <=> \E a \in Users(c) : acq[a] = "holding"

\* Nobody waits while a connection is idle.
NoIdleWaiter == pool.pending = <<>> \/ pool.idle = <<>>

\* Every connection has one place, and one that is idle is not waited for.
PlacesKept == OnePlace /\ NoIdleWaiter

\* As long as the pool is open, every acquire() ends without its timeout, provided
\* attempts settle and users release: failed, aborted and abandoned attempts wake
\* the waiters.  (A health check that fails on a closed pool may leave its
\* acquire() in the queue that close() has emptied.)
AcquiresEnd ==
    \A a \in Acquirers :
        (acq[a] \in {"checking", "creating", "waiting"})
            ~> (acq[a] \in {"holding", "failed", "done"} \/ pool.closed)

\* A closed pool ends without connections.
ClosedPoolEmpties == pool.closed ~> (open = {})

\* "Maximum number of connections allowed."
WithinMaximum == Managed(pool) <= MaxConnections

=============================================================================
