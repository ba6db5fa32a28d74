------------------------------- MODULE MCServing -------------------------------
(* What keeps connections, for one run: the listeners they come in by, the      *)
(* service that accepts them, the connect calls that open them, the middleware  *)
(* on them, the client that replaces them, and the circuit breaker.  They share *)
(* no state: in each behaviour one of them runs, the subject, and the others    *)
(* rest in an initial state.                                                    *)
EXTENDS RpcService, TransportListeners, TransportConnects, TransportMiddleware,
        ReconnectingClient, CircuitBreaker

VARIABLE subject

Subjects == {"service", "listener", "connect", "middleware", "reconnect", "breaker"}

vars == <<serviceVars, listenerVars, connectVars, middlewareVars, reconnectVars,
          breakerVars, subject>>

\* The stacks of middleware: counters outside a limit and a filter; an asynchronous
\* one outside a limit for one direction and the counters; a log outside that limit.
MCStacks == {<<"metrics", "limit", "filter">>, <<"async", "sendLimit", "metrics">>,
             <<"observer", "sendLimit">>}

\* Only the subject chooses among its initial states.
MCInit ==
    /\ subject \in Subjects
    /\ ServiceInit /\ ListenersInit /\ ConnectsInit /\ MiddlewareInit
    /\ ReconnectInit /\ Init
    /\ subject # "reconnect" => choice = CHOOSE x \in ReconnectChoices : TRUE
    /\ subject # "listener" => listenerKind = CHOOSE k \in ListenerKinds : TRUE
    /\ subject # "connect" =>
           /\ connectKind = CHOOSE k \in ConnectKinds : TRUE
           /\ layer = "none"
    /\ subject # "middleware" => stack = CHOOSE s \in Stacks : TRUE

ServicesNext ==
    /\ subject = "service" /\ ServiceNext
    /\ UNCHANGED <<listenerVars, connectVars, middlewareVars, reconnectVars, breakerVars>>
ListensNext ==
    /\ subject = "listener" /\ ListenersNext
    /\ UNCHANGED <<serviceVars, connectVars, middlewareVars, reconnectVars, breakerVars>>
DialsNext ==
    /\ subject = "connect" /\ ConnectsNext
    /\ UNCHANGED <<serviceVars, listenerVars, middlewareVars, reconnectVars, breakerVars>>
FiltersNext ==
    /\ subject = "middleware" /\ MiddlewareNext
    /\ UNCHANGED <<serviceVars, listenerVars, connectVars, reconnectVars, breakerVars>>
ReconnectsNext ==
    /\ subject = "reconnect" /\ ReconnectNext
    /\ UNCHANGED <<serviceVars, listenerVars, connectVars, middlewareVars, breakerVars>>
BreakersNext ==
    /\ subject = "breaker" /\ Next
    /\ UNCHANGED <<serviceVars, listenerVars, connectVars, middlewareVars, reconnectVars>>

MCNext ==
    /\ \/ ServicesNext \/ ListensNext \/ DialsNext \/ FiltersNext
       \/ ReconnectsNext \/ BreakersNext
    /\ UNCHANGED subject

\* The fairness of each, of the subject only: a service at rest could accept.
MCFairness ==
    /\ WF_serviceVars(subject = "service" /\ AcceptStep)
    /\ WF_serviceVars(subject = "service" /\ OpStep)
    /\ WF_serviceVars(subject = "service" /\ DrainTimesOut)
    /\ \A c \in Conns : /\ WF_serviceVars(subject = "service" /\ TaskStep(c))
                        /\ WF_serviceVars(subject = "service" /\ HandleCloses(c))
    /\ WF_listenerVars(subject = "listener" /\ CloseStep)
    /\ WF_listenerVars(subject = "listener" /\ (LoopStep \/ (listenerClosed /\ IncomingFails)))
    /\ WF_listenerVars(subject = "listener" /\ listenerClosed /\ TakerStep)
    /\ \A p \in Peers :
           WF_listenerVars(subject = "listener" /\
               (JobStep(p) \/ (endpoint = "closed" /\ JobGetsStream(p))))
    /\ WF_connectVars(subject = "connect" /\ ConnectTimerFires)
    /\ \A s \in Sockets :
           WF_connectVars(subject = "connect" /\ s \in gaveUp /\ (Opens(s) \/ DialFails(s)))
    /\ WF_reconnectVars(subject = "reconnect" /\ LaneStep)
    /\ \A c \in Calls : WF_breakerVars(subject = "breaker" /\ (Success(c) \/ Failure(c)))

MCSpec == MCInit /\ [][MCNext]_vars /\ MCFairness

\* No connection is left open or counted twice by a service, and its limits hold for
\* those that are still being set up; what a listener has accepted has an owner, and
\* a closed listener keeps nothing.
ServiceKept ==
    /\ ServiceTypeOK /\ NothingLeaks /\ AdmissionHolds
    /\ ListenersTypeOK /\ EveryPeerOwned

\* No timeout or failed set-up leaves a socket open; a reconnecting client retries on
\* the capabilities of the new connection and loses none of its connections; and a
\* stack of middleware keeps order, limits and counts.
ConnectionsKept ==
    /\ ConnectsTypeOK /\ NoSocketLost
    /\ ReconnectTypeOK /\ TypeOK /\ RetriesMapped /\ NoConnectionLost
    /\ MiddlewareTypeOK /\ OrderKept /\ LimitsEnforced /\ CountsAddUp

\* A drain is graceful, a closed listener gives nothing out, and behind the close()
\* of a reconnecting client nothing is sent or connected.
NothingAfterShutdown == DrainIsGraceful /\ NothingTakenLate /\ ClosedForGood

\* What was started ends: close() and drain() of a service, and with them every
\* handle; close() of a listener and the iterator behind it; a connect call with its
\* timers; the operations of a reconnecting client; the probe of a breaker.
\* (ShutdownEnds, ListenerEnds, ConnectsSettle, LaneMoves and ProbeEnds, whose cases
\* are numbered here.)
Begun(n) ==
    CASE subject = "service" ->
            CASE n = 1 -> closer # "none"
              [] n = 2 -> ForceAfter /\ drainer # "none"
              [] OTHER -> closer # "none" /\ \E c \in Conns : conn[c].handle = "open"
      [] subject = "listener" -> listenerClosed /\ (n = 1 \/ taker = "pending")
      [] subject = "connect" ->
            CASE n = 1 -> ConnectTimeouts /\ dialing \in {"connecting", "streaming"}
              [] OTHER -> n - 1 \in gaveUp
      [] subject = "middleware" -> FALSE
      [] subject = "reconnect" -> n \in Operations /\ operation[n].result = "running"
      [] OTHER -> halfOpenProbeInFlight
Ended(n) ==
    CASE subject = "service" ->
            CASE n = 1 -> closer \in {"done", "failed"}
              [] n = 2 -> drainer \in {"done", "failed"}
              [] OTHER -> \A c \in Conns : conn[c].handle # "open"
      [] subject = "listener" -> IF n = 1 THEN shutting = "done" ELSE taker # "pending"
      [] subject = "connect" ->
            CASE n = 1 -> dialing \notin {"connecting", "streaming"}
              [] OTHER -> socket[n - 1] = "closed"
      [] subject = "reconnect" ->
            n \in Operations => operation[n].result \in {"done", "failed"}
      [] OTHER -> ~halfOpenProbeInFlight
EverythingEnds == \A n \in 1 .. 3 : Begun(n) ~> Ended(n)
=============================================================================
