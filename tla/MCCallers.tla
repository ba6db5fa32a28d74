------------------------------- MODULE MCCallers -------------------------------
(* What carries the calls, for one run: the server's outbound client, a stream  *)
(* of calls, a transport, the wire client and the level-3 handoff.  They share  *)
(* no state: in each behaviour one of them runs, the subject, and the others    *)
(* rest in an initial state.                                                    *)
EXTENDS OutboundClient, MCStream, FrameTransport, WireClient, L3Handoff

VARIABLE subject

Subjects == {"outbound", "stream", "transport", "wire", "handoff"}

vars == <<outboundVars, streamVars, transportVars, wireVars, l3Vars, subject>>

\* Only the subject chooses among its initial states.
MCInit ==
    /\ subject \in Subjects
    /\ Init /\ StreamInit /\ TransportInit /\ WireInit /\ L3Init
    /\ subject # "stream" =>
           /\ options = CHOOSE s \in Streams : s.params # "encoded"
           /\ kind = [p \in Ops |-> "flush"]
           /\ byteLength = [p \in Ops |-> 0]
    /\ subject # "transport" => transport = CHOOSE t \in TransportOptions : TRUE

OutboundNext ==
    /\ subject = "outbound" /\ Next
    /\ UNCHANGED <<streamVars, transportVars, wireVars, l3Vars>>
StreamsNext ==
    /\ subject = "stream" /\ StreamNext
    /\ UNCHANGED <<outboundVars, transportVars, wireVars, l3Vars>>
TransportsNext ==
    /\ subject = "transport" /\ TransportNext
    /\ UNCHANGED <<outboundVars, streamVars, wireVars, l3Vars>>
WiresNext ==
    /\ subject = "wire" /\ WireNext
    /\ UNCHANGED <<outboundVars, streamVars, transportVars, l3Vars>>
HandoffNext ==
    /\ subject = "handoff" /\ L3Next
    /\ UNCHANGED <<outboundVars, streamVars, transportVars, wireVars>>

MCNext ==
    /\ OutboundNext \/ StreamsNext \/ TransportsNext \/ WiresNext \/ HandoffNext
    /\ UNCHANGED subject

MCSpec == /\ MCInit /\ [][MCNext]_vars
          /\ Fairness /\ StreamFairness /\ TransportFairness /\ WireFairness

\* The window of a stream is exactly its calls in flight, parameters go out in the order
\* they were handed over, and cancel() empties it.
StreamKept == StreamTypeOK /\ WindowExact /\ HandedOverInOrder /\ CancelEmpties

\* Whatever ends a call, the references of both sides are accounted for; each handoff is
\* matched with its own return; and every table holds what it is for.
ReferencesKept ==
    /\ TypeOK /\ TransportTypeOK /\ WireTypeOK /\ L3TypeOK
    /\ FinishKeepsWhatIsHeld /\ ReferencesAccounted /\ HandoffsMatched

\* Whatever was started ends: the calls of the outbound client, and with a Finish
\* where one is due; every operation on a stream; every accepted send, the
\* announcement of the end and close() of a transport; every request of the wire
\* client once its transport has ended.  (CallsEnd and AnswersRetired, OpsEnd,
\* SendsSettle, ClosureAnnounced and CloseReturns, and EofRejects, whose cases are
\* numbered here.)
Begun(n) ==
    CASE subject = "outbound" ->
            IF n \in Questions THEN call[n] # "idle"
            ELSE n - 2 \in Questions /\ call[n - 2] = "waiting"
                                     /\ outcome[n - 2] \in {"results", "rejected"}
      [] subject = "stream" -> n \in Ops /\ at[n] # "idle"
      [] subject = "transport" ->
            CASE n \in Sends -> sending[n] = "queued"
              [] n = 4 -> transportClosed \/ remoteClosed
              [] n = 5 -> closer["app"] # "none"
              [] OTHER -> closer["handler"] # "none"
      [] subject = "wire" -> wireClosed /\ n \in WireQuestions /\ asking[n] # "idle"
      [] OTHER -> FALSE
Ended(n) ==
    CASE subject = "outbound" ->
            IF n \in Questions THEN call[n] = "done" ELSE n - 2 \in finished \/ closed
      [] subject = "stream" -> n \in Ops => at[n] \in Over \/ WaitsForItself
      [] subject = "transport" ->
            CASE n \in Sends -> sending[n] \in {"sent", "rejected"}
              [] n = 4 -> notified = 1
              [] n = 5 -> closer["app"] \in {"done", "gaveUp"}
              [] OTHER -> \/ closer["handler"] \in {"done", "gaveUp"}
                          \/ Is(StreamKinds) /\ ~transport.timeouts
      [] OTHER -> n \in WireQuestions => asking[n] \in {"done", "lastSend"}
EverythingEnds == \A n \in 1 .. 6 : Begun(n) ~> Ended(n)
=============================================================================
