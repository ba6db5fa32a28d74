---------------------------- MODULE CircuitBreaker ----------------------------
(* CircuitBreaker (src/rpc/transports/resilience/circuit_breaker.ts).          *)
(*                                                                             *)
(* A call is admitted or refused in one step and settles in a later one, by    *)
(* which time the breaker may be in any state: other calls settle in between,  *)
(* time passes, and the application may reset the breaker.                     *)
EXTENDS Integers

CONSTANTS
    Calls,                   \* the calls of a behaviour
    MaxConsecutiveFailures,
    CooldownMs,
    MayReset,                \* the application calls reset()
    MaxTime                  \* bound on the clock

ASSUME BreakerAssumption == /\ {MaxConsecutiveFailures, CooldownMs}
                                   \subseteq Nat \ {0}
                            /\ MaxTime \in Nat /\ MayReset \in BOOLEAN

VARIABLES
    state,
    consecutiveFailures,
    openedAtMs,             \* NoTime for null
    halfOpenProbeInFlight,
    call,                   \* idle, plain, probe or settled
    now,
    probeForgotten          \* ghost: a reset came while a probe was running

breakerVars == <<state, consecutiveFailures, openedAtMs, halfOpenProbeInFlight,
                 call, now, probeForgotten>>

\* The clock starts above it.
NoTime == 0

TypeOK ==
    /\ state \in {"CLOSED", "OPEN", "HALF_OPEN"}
    /\ consecutiveFailures \in Nat
    /\ openedAtMs \in Nat
    /\ halfOpenProbeInFlight \in BOOLEAN
    /\ call \in [Calls -> {"idle", "plain", "probe", "settled"}]
    /\ now \in Nat \ {NoTime}
    /\ probeForgotten \in BOOLEAN

Probes == {c \in Calls : call[c] = "probe"}

Init ==
    /\ state = "CLOSED" /\ consecutiveFailures = 0 /\ openedAtMs = NoTime
    /\ halfOpenProbeInFlight = FALSE
    /\ call = [c \in Calls |-> "idle"]
    /\ now = 1
    /\ probeForgotten = FALSE

Tick ==
    /\ now < MaxTime
    /\ now' = now + 1
    /\ UNCHANGED <<state, consecutiveFailures, openedAtMs,
                   halfOpenProbeInFlight, call, probeForgotten>>

Cooled == now - openedAtMs >= CooldownMs

\* Broken form: a half-open breaker admits any number of probes.
StartAnyCall(c) ==
    /\ call[c] = "idle"
    /\ state = "OPEN" => Cooled
    /\ state' = IF state = "CLOSED" THEN "CLOSED" ELSE "HALF_OPEN"
    /\ halfOpenProbeInFlight' = (halfOpenProbeInFlight \/ state # "CLOSED")
    /\ call' = [call EXCEPT ![c] = IF state = "CLOSED" THEN "plain" ELSE "probe"]
    /\ UNCHANGED <<consecutiveFailures, openedAtMs, now, probeForgotten>>

\* call() up to its await of the factory.
StartCall(c) ==
    /\ call[c] = "idle"
    /\ state = "OPEN" => Cooled
    /\ state # "CLOSED" => ~halfOpenProbeInFlight
    /\ IF state = "CLOSED"
       THEN /\ call' = [call EXCEPT ![c] = "plain"]
            /\ UNCHANGED <<state, halfOpenProbeInFlight>>
       ELSE /\ call' = [call EXCEPT ![c] = "probe"]
            /\ state' = "HALF_OPEN"
            /\ halfOpenProbeInFlight' = TRUE
    /\ UNCHANGED <<consecutiveFailures, openedAtMs, now, probeForgotten>>

\* A call is refused: the circuit is open, or a probe is in flight.  After the
\* cooldown the latter half-opens the breaker all the same.
RefuseCall(c) ==
    /\ call[c] = "idle" /\ state # "CLOSED"
    /\ \/ /\ state = "OPEN" /\ ~Cooled
          /\ UNCHANGED state
       \/ /\ state = "OPEN" => Cooled
          /\ halfOpenProbeInFlight
          /\ state' = "HALF_OPEN"
    /\ call' = [call EXCEPT ![c] = "settled"]
    /\ UNCHANGED <<consecutiveFailures, openedAtMs, halfOpenProbeInFlight, now,
                   probeForgotten>>

\* The finally clause: only the probe clears the flag.
Settle(c) ==
    /\ call[c] \in {"plain", "probe"}
    /\ call' = [call EXCEPT ![c] = "settled"]
    /\ halfOpenProbeInFlight' = (halfOpenProbeInFlight /\ call[c] # "probe")

\* #onSuccess closes the breaker, whatever state it is in by now.
Success(c) ==
    /\ Settle(c)
    /\ state' = "CLOSED" /\ consecutiveFailures' = 0 /\ openedAtMs' = NoTime
    /\ UNCHANGED <<now, probeForgotten>>

\* Broken form: the breaker trips one failure late.
FailureTripsLate(c) ==
    /\ Settle(c)
    /\ consecutiveFailures' = consecutiveFailures + 1
    /\ IF \/ state = "HALF_OPEN"
          \/ state = "CLOSED" /\ consecutiveFailures' > MaxConsecutiveFailures
       THEN state' = "OPEN" /\ openedAtMs' = now
       ELSE UNCHANGED <<state, openedAtMs>>
    /\ UNCHANGED <<now, probeForgotten>>

\* #onFailure: a half-open breaker opens again, a closed one at the threshold.
Failure(c) ==
    /\ Settle(c)
    /\ consecutiveFailures' = consecutiveFailures + 1
    /\ IF \/ state = "HALF_OPEN"
          \/ state = "CLOSED" /\ consecutiveFailures' >= MaxConsecutiveFailures
       THEN state' = "OPEN" /\ openedAtMs' = now
       ELSE UNCHANGED <<state, openedAtMs>>
    /\ UNCHANGED <<now, probeForgotten>>

Reset ==
    /\ MayReset
    /\ state' = "CLOSED" /\ consecutiveFailures' = 0 /\ openedAtMs' = NoTime
    /\ halfOpenProbeInFlight' = FALSE
    /\ probeForgotten' = (probeForgotten \/ Probes # {})
    /\ UNCHANGED <<call, now>>

Next ==
    \/ Tick \/ Reset
    \/ \E c \in Calls : StartCall(c) \/ RefuseCall(c) \/ Success(c) \/ Failure(c)

Spec == Init /\ [][Next]_breakerVars

\* Every factory settles.
FairSpec == Spec /\ \A c \in Calls : WF_breakerVars(Success(c) \/ Failure(c))

(***************************************************************************)
(* Properties.                                                             *)
(***************************************************************************)
\* A closed breaker is below its threshold: the failure that reaches it opens
\* the breaker, whichever calls fail in whichever order.
TripsAtThreshold ==
    state = "CLOSED" => consecutiveFailures < MaxConsecutiveFailures

\* The cooldown is measured from a time that is there exactly when the breaker
\* is not closed.
OpenedAtKnown == (state = "CLOSED") <=> (openedAtMs = NoTime)

\* "A single probe request is allowed through": no two probes run at once, unless
\* reset() was called in the middle of one.
OneProbe == ~probeForgotten => \A c, d \in Probes : c = d

\* The flag that refuses further probes is set exactly while one runs.
ProbeFlagExact == ~probeForgotten => (halfOpenProbeInFlight <=> Probes # {})

\* A breaker does not refuse for ever: the probe's flag is cleared.
ProbeEnds == halfOpenProbeInFlight ~> ~halfOpenProbeInFlight

=============================================================================
