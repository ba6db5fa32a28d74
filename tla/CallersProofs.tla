----------------------------- MODULE CallersProofs -----------------------------
(* Theorems about what carries the calls, for every number of calls, sends and *)
(* awaits: the outbound client of a server, a transport, the wire client, the  *)
(* level-3 handoff, and with StreamSenderProofs the composition of all.        *)
EXTENDS MCCallers, StreamSenderProofs

-------------------------------------------------------------------------------
(***************************************************************************)
(* The outbound client of the server.                                      *)
(***************************************************************************)
\* Ids that were not given out yet are untouched.
FreshIds ==
    \A q \in Questions : q >= nextQuestionId =>
        call[q] = "idle" /\ outcome[q] = "none" /\ remote[q] = "none"

\* A Return is on its way, or was forwarded, only after the callee returned,
\* not both; and a call was answered only after that.
ReturnsOnce ==
    /\ \A q \in incoming \cup toPeer : remote[q] \in ReturnKinds
    /\ incoming \cap toPeer = {}
    /\ \A q \in Questions : outcome[q] \in ReturnKinds => remote[q] \in ReturnKinds

\* A Return that was not intercepted did not settle its call.
UntakenReturns ==
    \A q \in incoming \cup toPeer : outcome[q] \in {"none", "rejected"}

\* The parts are tied together: a call that had its answer from a Return leaves
\* no second Return that could be forwarded.
IInv == /\ TypeOK
        /\ RegisteredWhileAwaited
        /\ FreshIds
        /\ ReturnsOnce
        /\ UntakenReturns

LEMMA InitIInv == Init => IInv
<1> SUFFICES ASSUME Init PROVE IInv
  OBVIOUS
<1> USE OutboundAssumption DEF Init
<1>1. TypeOK
  <2>1. /\ nextQuestionId \in 1 .. MaxQuestions + 1
        /\ pending \cup incoming \cup toPeer \cup finished
               \subseteq 1 .. nextQuestionId - 1
    OBVIOUS
  <2>2. call \in [Questions -> {"idle", "sending", "waiting", "finishing", "done"}]
    OBVIOUS
  <2>3. /\ outcome \in [Questions -> ReturnKinds \cup {"none", "rejected"}]
        /\ remote \in [Questions -> ReturnKinds \cup {"none", "asked"}]
    OBVIOUS
  <2>4. closed \in BOOLEAN
    OBVIOUS
  <2> QED BY <2>1, <2>2, <2>3, <2>4 DEF TypeOK
<1>2. RegisteredWhileAwaited
  BY DEF RegisteredWhileAwaited
<1>3. FreshIds /\ ReturnsOnce /\ UntakenReturns
  BY DEF FreshIds, ReturnsOnce, UntakenReturns
<1> QED BY <1>1, <1>2, <1>3 DEF IInv

LEMMA NextTypeOK == ASSUME TypeOK, FreshIds, ReturnsOnce, [Next]_outboundVars
                    PROVE  TypeOK'
<1> USE OutboundAssumption DEF TypeOK, FreshIds, Questions
<1>1. CASE UNCHANGED outboundVars
  BY <1>1 DEF outboundVars
<1>2. CASE MarkClosed
  BY <1>2 DEF MarkClosed
<1>3. ASSUME NEW q \in Questions, CallRaw(q) PROVE TypeOK'
  BY <1>3 DEF CallRaw
<1>4. ASSUME NEW q \in Questions, SendEnds(q) PROVE TypeOK'
  BY <1>4 DEF SendEnds
<1>5. ASSUME NEW q \in Questions, SendFails(q) PROVE TypeOK'
  BY <1>5 DEF SendFails
<1>6. ASSUME NEW q \in Questions, AwaitEnds(q) PROVE TypeOK'
  BY <1>6 DEF AwaitEnds
<1>7. ASSUME NEW q \in Questions, TrySendFinish(q) PROVE TypeOK'
  <2>1. q \in 1 .. nextQuestionId - 1
    BY <1>7 DEF TrySendFinish
  <2>2. finished' \subseteq 1 .. nextQuestionId - 1
    BY <1>7, <2>1 DEF TrySendFinish
  <2> QED BY <1>7, <2>1, <2>2 DEF TrySendFinish
<1>8. ASSUME NEW q \in Questions, CallArrives(q) PROVE TypeOK'
  BY <1>8 DEF CallArrives
<1>9. ASSUME NEW q \in Questions, InterceptReturn(q) PROVE TypeOK'
  <2>1. q \in 1 .. nextQuestionId - 1 /\ remote[q] \in ReturnKinds
    BY <1>9 DEF InterceptReturn, ReturnsOnce
  <2>2. outcome' \in [Questions -> ReturnKinds \cup {"none", "rejected"}]
    BY <1>9, <2>1 DEF InterceptReturn
  <2> QED BY <1>9, <2>1, <2>2 DEF InterceptReturn
<1>10. ASSUME NEW q \in Questions, Timeout(q) PROVE TypeOK'
  BY <1>10 DEF Timeout
<1>11. ASSUME NEW q \in Questions, NEW how \in ReturnKinds, Return(q, how)
      PROVE  TypeOK'
  <2>1. q \in 1 .. nextQuestionId - 1
    BY <1>11 DEF Return
  <2>2. remote' \in [Questions -> ReturnKinds \cup {"none", "asked"}]
    BY <1>11 DEF Return
  <2> QED BY <1>11, <2>1, <2>2 DEF Return
<1> QED
  BY <1>1, <1>2, <1>3, <1>4, <1>5, <1>6, <1>7, <1>8, <1>9, <1>10, <1>11
     DEF Next, CallStep, RemoteStep

LEMMA NextRegistered == ASSUME TypeOK, RegisteredWhileAwaited, FreshIds,
                               ReturnsOnce, [Next]_outboundVars
                        PROVE  RegisteredWhileAwaited'
<1> USE OutboundAssumption DEF TypeOK, RegisteredWhileAwaited, FreshIds, Questions
<1>1. CASE UNCHANGED outboundVars
  BY <1>1 DEF outboundVars
<1>2. CASE MarkClosed
  BY <1>2 DEF MarkClosed
<1>3. ASSUME NEW q \in Questions, CallRaw(q) PROVE RegisteredWhileAwaited'
  BY <1>3 DEF CallRaw
<1>4. ASSUME NEW q \in Questions, SendEnds(q) PROVE RegisteredWhileAwaited'
  BY <1>4 DEF SendEnds
<1>5. ASSUME NEW q \in Questions, SendFails(q) PROVE RegisteredWhileAwaited'
  BY <1>5 DEF SendFails
<1>6. ASSUME NEW q \in Questions, AwaitEnds(q) PROVE RegisteredWhileAwaited'
  BY <1>6 DEF AwaitEnds
<1>7. ASSUME NEW q \in Questions, TrySendFinish(q) PROVE RegisteredWhileAwaited'
  BY <1>7 DEF TrySendFinish
<1>8. ASSUME NEW q \in Questions, CallArrives(q) PROVE RegisteredWhileAwaited'
  BY <1>8 DEF CallArrives
<1>9. ASSUME NEW q \in Questions, InterceptReturn(q) PROVE RegisteredWhileAwaited'
  <2>1. remote[q] # "none"
    BY <1>9 DEF InterceptReturn, ReturnsOnce, ReturnKinds
  <2> QED BY <1>9, <2>1 DEF InterceptReturn
<1>10. ASSUME NEW q \in Questions, Timeout(q) PROVE RegisteredWhileAwaited'
  BY <1>10 DEF Timeout
<1>11. ASSUME NEW q \in Questions, NEW how \in ReturnKinds, Return(q, how)
      PROVE  RegisteredWhileAwaited'
  BY <1>11 DEF Return
<1> QED
  BY <1>1, <1>2, <1>3, <1>4, <1>5, <1>6, <1>7, <1>8, <1>9, <1>10, <1>11
     DEF Next, CallStep, RemoteStep

LEMMA NextFreshIds == ASSUME TypeOK, FreshIds, [Next]_outboundVars
                      PROVE  FreshIds'
<1> USE OutboundAssumption DEF TypeOK, FreshIds, Questions
<1>1. CASE UNCHANGED outboundVars
  BY <1>1 DEF outboundVars
<1>2. CASE MarkClosed
  BY <1>2 DEF MarkClosed
<1>3. ASSUME NEW q \in Questions, CallRaw(q) PROVE FreshIds'
  BY <1>3 DEF CallRaw
<1>4. ASSUME NEW q \in Questions, SendEnds(q) PROVE FreshIds'
  BY <1>4 DEF SendEnds
<1>5. ASSUME NEW q \in Questions, SendFails(q) PROVE FreshIds'
  BY <1>5 DEF SendFails
<1>6. ASSUME NEW q \in Questions, AwaitEnds(q) PROVE FreshIds'
  BY <1>6 DEF AwaitEnds
<1>7. ASSUME NEW q \in Questions, TrySendFinish(q) PROVE FreshIds'
  BY <1>7 DEF TrySendFinish
<1>8. ASSUME NEW q \in Questions, CallArrives(q) PROVE FreshIds'
  BY <1>8 DEF CallArrives
<1>9. ASSUME NEW q \in Questions, InterceptReturn(q) PROVE FreshIds'
  BY <1>9 DEF InterceptReturn
<1>10. ASSUME NEW q \in Questions, Timeout(q) PROVE FreshIds'
  BY <1>10 DEF Timeout
<1>11. ASSUME NEW q \in Questions, NEW how \in ReturnKinds, Return(q, how)
      PROVE  FreshIds'
  BY <1>11 DEF Return
<1> QED
  BY <1>1, <1>2, <1>3, <1>4, <1>5, <1>6, <1>7, <1>8, <1>9, <1>10, <1>11
     DEF Next, CallStep, RemoteStep

LEMMA NextReturnsOnce == ASSUME TypeOK, ReturnsOnce, [Next]_outboundVars
                         PROVE  ReturnsOnce'
<1> USE OutboundAssumption DEF TypeOK, ReturnsOnce, ReturnKinds, Questions
<1>1. CASE UNCHANGED outboundVars
  BY <1>1 DEF outboundVars
<1>2. CASE MarkClosed
  BY <1>2 DEF MarkClosed
<1>3. ASSUME NEW q \in Questions, CallRaw(q) PROVE ReturnsOnce'
  BY <1>3 DEF CallRaw
<1>4. ASSUME NEW q \in Questions, SendEnds(q) PROVE ReturnsOnce'
  BY <1>4 DEF SendEnds
<1>5. ASSUME NEW q \in Questions, SendFails(q) PROVE ReturnsOnce'
  BY <1>5 DEF SendFails
<1>6. ASSUME NEW q \in Questions, AwaitEnds(q) PROVE ReturnsOnce'
  BY <1>6 DEF AwaitEnds
<1>7. ASSUME NEW q \in Questions, TrySendFinish(q) PROVE ReturnsOnce'
  BY <1>7 DEF TrySendFinish
<1>8. ASSUME NEW q \in Questions, CallArrives(q) PROVE ReturnsOnce'
  BY <1>8 DEF CallArrives
<1>9. ASSUME NEW q \in Questions, InterceptReturn(q) PROVE ReturnsOnce'
  BY <1>9 DEF InterceptReturn
<1>10. ASSUME NEW q \in Questions, Timeout(q) PROVE ReturnsOnce'
  BY <1>10 DEF Timeout
<1>11. ASSUME NEW q \in Questions, NEW how \in ReturnKinds, Return(q, how)
      PROVE  ReturnsOnce'
  BY <1>11 DEF Return
<1> QED
  BY <1>1, <1>2, <1>3, <1>4, <1>5, <1>6, <1>7, <1>8, <1>9, <1>10, <1>11
     DEF Next, CallStep, RemoteStep

LEMMA NextUntaken == ASSUME IInv, [Next]_outboundVars
                     PROVE  UntakenReturns'
<1> USE OutboundAssumption
    DEF IInv, TypeOK, UntakenReturns, ReturnsOnce, RegisteredWhileAwaited,
        Questions
<1>1. CASE UNCHANGED outboundVars
  BY <1>1 DEF outboundVars
<1>2. CASE MarkClosed
  BY <1>2 DEF MarkClosed
<1>3. ASSUME NEW q \in Questions, CallRaw(q) PROVE UntakenReturns'
  BY <1>3 DEF CallRaw
<1>4. ASSUME NEW q \in Questions, SendEnds(q) PROVE UntakenReturns'
  BY <1>4 DEF SendEnds
<1>5. ASSUME NEW q \in Questions, SendFails(q) PROVE UntakenReturns'
  BY <1>5 DEF SendFails
<1>6. ASSUME NEW q \in Questions, AwaitEnds(q) PROVE UntakenReturns'
  BY <1>6 DEF AwaitEnds
<1>7. ASSUME NEW q \in Questions, TrySendFinish(q) PROVE UntakenReturns'
  BY <1>7 DEF TrySendFinish
<1>8. ASSUME NEW q \in Questions, CallArrives(q) PROVE UntakenReturns'
  BY <1>8 DEF CallArrives
<1>9. ASSUME NEW q \in Questions, InterceptReturn(q) PROVE UntakenReturns'
  BY <1>9 DEF InterceptReturn
<1>10. ASSUME NEW q \in Questions, Timeout(q) PROVE UntakenReturns'
  BY <1>10 DEF Timeout
<1>11. ASSUME NEW q \in Questions, NEW how \in ReturnKinds, Return(q, how)
      PROVE  UntakenReturns'
  BY <1>11 DEF Return, ReturnKinds
<1> QED
  BY <1>1, <1>2, <1>3, <1>4, <1>5, <1>6, <1>7, <1>8, <1>9, <1>10, <1>11
     DEF Next, CallStep, RemoteStep

LEMMA OutboundInvariant == Spec => []IInv
<1>1. IInv /\ [Next]_outboundVars => IInv'
  BY NextTypeOK, NextRegistered, NextFreshIds, NextReturnsOnce, NextUntaken DEF IInv
<1> QED BY <1>1, InitIInv, PTL DEF Spec

\* In every reachable state a question is registered exactly while its call
\* waits for an answer, and a Return taken off the wire goes to one side only,
\* for every number of calls and whatever fails.
THEOREM QuestionsSettleOnce == Spec => [](RegisteredWhileAwaited /\ TakenOnce)
<1>1. IInv => RegisteredWhileAwaited /\ TakenOnce
  BY DEF IInv, UntakenReturns, TakenOnce
<1> QED BY <1>1, OutboundInvariant, PTL

-------------------------------------------------------------------------------
(***************************************************************************)
(* A transport.                                                            *)
(***************************************************************************)
(***************************************************************************)
(* The invariant of sending.                                               *)
(***************************************************************************)
SendStates == {"idle", "queued", "writing", "sent", "rejected"}

OutType ==
    /\ sending \in [Sends -> SendStates]
    /\ queue \in Seq(Sends) /\ inflight \in Sends \cup {NoFrame}
    /\ drain \in {"none", "loop", "writing", "ending"}
    /\ wire \in Seq([frame : Sends, whole : BOOLEAN])

\* send() is called for one frame after the other, and the queue keeps the order.
InOrder ==
    /\ \A r, s \in Sends : r < s /\ sending[s] # "idle" => sending[r] # "idle"
    /\ \A i, j \in DOMAIN queue : i < j => queue[i] < queue[j]

\* The states of the frames agree with the queue, the frame that is written, and
\* the wire.
Placed ==
    /\ \A s \in Sends : sending[s] = "queued" <=> \E i \in DOMAIN queue : queue[i] = s
    /\ \A s \in Sends : sending[s] = "writing" <=> s = inflight
    /\ drain = "writing" <=> inflight # NoFrame
    /\ \A k \in DOMAIN wire : sending[wire[k].frame] \in {"sent", "rejected"}

\* What is on the wire comes before what is written, and that before the queue.
WireFirst ==
    /\ \A k \in DOMAIN wire, i \in DOMAIN queue : wire[k].frame < queue[i]
    /\ inflight # NoFrame => /\ \A k \in DOMAIN wire : wire[k].frame < inflight
                             /\ \A i \in DOMAIN queue : inflight < queue[i]

OutInv == OutType /\ InOrder /\ Placed /\ WireFirst /\ SentFramesOnWire

(***************************************************************************)
(* Queue and wire.                                                         *)
(***************************************************************************)
LEMMA QueueShrinks ==
    ASSUME queue \in Seq(Sends), queue # <<>>, queue' = Tail(queue),
           \A i, j \in DOMAIN queue : i < j => queue[i] < queue[j]
    PROVE  /\ queue' \in Seq(Sends) /\ Len(queue') = Len(queue) - 1
           /\ Head(queue) \in Sends /\ Head(queue) = queue[1] /\ 1 \in DOMAIN queue
           /\ \A i, j \in DOMAIN queue' : i < j => queue'[i] < queue'[j]
           /\ \A i \in DOMAIN queue' : Head(queue) < queue'[i]
           /\ \A i \in DOMAIN queue' : \E j \in DOMAIN queue : queue'[i] = queue[j]
           /\ \A j \in DOMAIN queue : queue[j] = Head(queue)
                                          \/ \E i \in DOMAIN queue' : queue'[i] = queue[j]
<1>1. /\ queue' \in Seq(Sends) /\ Len(queue') = Len(queue) - 1 /\ Len(queue) \in Nat
      /\ Head(queue) \in Sends /\ Head(queue) = queue[1] /\ 1 \in DOMAIN queue
      /\ DOMAIN queue = 1 .. Len(queue) /\ DOMAIN queue' = 1 .. Len(queue')
      /\ \A i \in DOMAIN queue' : i + 1 \in DOMAIN queue /\ queue'[i] = queue[i + 1]
  OBVIOUS
<1>2. \A i, j \in DOMAIN queue' : i < j => queue'[i] < queue'[j]
  BY <1>1
<1>3. \A i \in DOMAIN queue' : Head(queue) < queue'[i]
  BY <1>1
<1>4. ASSUME NEW j \in DOMAIN queue, j # 1
      PROVE  \E i \in DOMAIN queue' : queue'[i] = queue[j]
  <2>1. j - 1 \in DOMAIN queue' /\ queue'[j - 1] = queue[j]
    BY <1>1, <1>4
  <2>. QED
    BY <2>1
<1>. QED
  BY <1>1, <1>2, <1>3, <1>4

LEMMA QueueGrows ==
    ASSUME queue \in Seq(Sends), NEW s \in Sends, queue' = Append(queue, s)
    PROVE  /\ queue' \in Seq(Sends) /\ Len(queue') = Len(queue) + 1
           /\ \A i \in DOMAIN queue : i \in DOMAIN queue' /\ queue'[i] = queue[i]
           /\ \A i \in DOMAIN queue' : i = Len(queue) + 1 \/ i \in DOMAIN queue
           /\ Len(queue) + 1 \in DOMAIN queue' /\ queue'[Len(queue) + 1] = s
OBVIOUS

LEMMA WireGrows ==
    ASSUME wire \in Seq([frame : Sends, whole : BOOLEAN]),
           NEW w \in [frame : Sends, whole : BOOLEAN], wire' = Append(wire, w)
    PROVE  /\ wire' \in Seq([frame : Sends, whole : BOOLEAN])
           /\ Range(wire') = Range(wire) \cup {w}
           /\ \A k \in DOMAIN wire : k \in DOMAIN wire' /\ wire'[k] = wire[k]
           /\ \A k \in DOMAIN wire' : k = Len(wire) + 1 \/ k \in DOMAIN wire
           /\ Len(wire) + 1 \in DOMAIN wire' /\ wire'[Len(wire) + 1] = w
<1>1. /\ wire' \in Seq([frame : Sends, whole : BOOLEAN])
      /\ \A k \in DOMAIN wire : k \in DOMAIN wire' /\ wire'[k] = wire[k]
      /\ \A k \in DOMAIN wire' : k = Len(wire) + 1 \/ k \in DOMAIN wire
      /\ Len(wire) + 1 \in DOMAIN wire' /\ wire'[Len(wire) + 1] = w
  OBVIOUS
<1>2. Range(wire') = Range(wire) \cup {w}
  BY <1>1 DEF Range
<1>. QED
  BY <1>1, <1>2

\* The frame that goes on the wire is the next one.
LEMMA WireOrder ==
    ASSUME wire \in Seq([frame : Sends, whole : BOOLEAN]), SentFramesOnWire,
           NEW w \in [frame : Sends, whole : BOOLEAN], wire' = Append(wire, w),
           \A k \in DOMAIN wire : wire[k].frame < w.frame
    PROVE  \A i, j \in DOMAIN wire' : i < j => wire'[i].frame < wire'[j].frame
<1>1. DOMAIN wire = 1 .. Len(wire) /\ Len(wire) \in Nat /\ DOMAIN wire' = 1 .. Len(wire) + 1
  OBVIOUS
<1>2. ASSUME NEW i \in DOMAIN wire', NEW j \in DOMAIN wire', i < j
      PROVE  wire'[i].frame < wire'[j].frame
  <2>1. i \in DOMAIN wire /\ wire'[i] = wire[i]
    BY <1>1, <1>2, WireGrows
  <2>2. CASE j = Len(wire) + 1
    BY <2>1, <2>2, WireGrows
  <2>3. CASE j # Len(wire) + 1
    BY <1>2, <2>1, <2>3, WireGrows DEF SentFramesOnWire
  <2>. QED
    BY <2>2, <2>3
<1>. QED
  BY <1>2

LEMMA WireSettled ==
    ASSUME OutInv, NEW k \in DOMAIN wire
    PROVE  wire[k].frame \in Sends /\ sending[wire[k].frame] \in {"sent", "rejected"}
<1>1. wire[k] \in [frame : Sends, whole : BOOLEAN]
  <2>1. wire \in Seq([frame : Sends, whole : BOOLEAN])
    BY DEF OutInv, OutType, SendStates
  <2>2. k \in 1 .. Len(wire)
    BY <2>1
  <2>. QED
    BY <2>1, <2>2, ElementOfSeq
<1>. QED
  BY <1>1 DEF OutInv, Placed

(***************************************************************************)
(* The steps of sending.                                                   *)
(***************************************************************************)
LEMMA OutKept ==
    ASSUME OutInv, UNCHANGED <<sending, queue, inflight, wire>>,
           (drain' \in {"none", "loop", "ending"} /\ drain # "writing") \/ UNCHANGED drain
    PROVE  OutInv'
BY DEF OutInv, OutType, SendStates, InOrder, Placed, WireFirst, SentFramesOnWire

\* What is queued is rejected, with or without the frame that is being written; of
\* that something may have come on the wire.
LEMMA OutRejected ==
    ASSUME OutInv, RejectQueued
    PROVE  OutInv'
<1>1. /\ sending' = [s \in Sends |-> IF s \in Range(queue) THEN "rejected" ELSE sending[s]]
      /\ queue' = <<>> /\ UNCHANGED <<inflight, drain, wire>>
  BY DEF RejectQueued, Reject
<1>2. \A s \in Sends : s \in Range(queue) <=> sending[s] = "queued"
  BY DEF OutInv, SentFramesOnWire
<1>3. \A s \in Sends : sending'[s] = IF sending[s] = "queued" THEN "rejected" ELSE sending[s]
  BY <1>1, <1>2
<1>4. DOMAIN queue' = {} /\ Len(queue') = 0 /\ Range(queue') = {} /\ queue' \in Seq(Sends)
  BY <1>1 DEF Range
<1>5. OutType'
  BY <1>1, <1>4 DEF OutInv, OutType, SendStates
<1>6. InOrder' /\ WireFirst'
  BY <1>1, <1>3, <1>4 DEF OutInv, InOrder, WireFirst
<1>9. Placed'
  <2>1. \A k \in DOMAIN wire : sending'[wire[k].frame] \in {"sent", "rejected"}
    BY <1>3, WireSettled
  <2>. QED
    BY <1>1, <1>3, <1>4, <2>1 DEF OutInv, Placed
<1>7. Len(queue) \in Nat /\ MaxQueuedOutboundFrames \in Nat
  BY TransportAssumption DEF OutInv, OutType, SendStates
<1>8. SentFramesOnWire'
  BY <1>1, <1>3, <1>4, <1>7 DEF OutInv, OutType, SendStates, SentFramesOnWire
<1>. QED
  BY <1>5, <1>6, <1>8, <1>9 DEF OutInv

LEMMA OutSends ==
    ASSUME OutInv, NEW s \in Sends, Send(s)
    PROVE  OutInv'
<1>1. /\ sending[s] = "idle" /\ \A r \in Sends : r < s => sending[r] # "idle"
      /\ UNCHANGED <<inflight, wire>>
  BY DEF Send
<1>2. ASSUME NEW t \in Sends, sending[t] # "idle"
      PROVE  t < s
  BY <1>1, <1>2 DEF OutInv, InOrder, Sends
<1>3. CASE ~(Sendable /\ ~QueueFull)
  <2>1. sending' = [sending EXCEPT ![s] = "rejected"] /\ UNCHANGED <<queue, drain>>
    BY <1>3 DEF Send
  <2>2. OutType' /\ WireFirst'
    BY <1>1, <2>1 DEF OutInv, OutType, SendStates, WireFirst
  <2>3. InOrder' /\ Placed'
    BY <1>1, <2>1 DEF OutInv, OutType, SendStates, InOrder, Placed
  <2>4. SentFramesOnWire'
    <3>1. \A k \in DOMAIN wire : wire[k].frame # s
      BY <1>1 DEF OutInv, Placed
    <3>2. [frame |-> s, whole |-> TRUE] \notin Range(wire)
      BY <3>1 DEF Range
    <3>. QED
      BY <1>1, <2>1, <3>2 DEF OutInv, OutType, SendStates, SentFramesOnWire
  <2>. QED
    BY <2>2, <2>3, <2>4 DEF OutInv
<1>4. CASE Sendable /\ ~QueueFull
  <2>1. /\ sending' = [sending EXCEPT ![s] = "queued"] /\ queue' = Append(queue, s)
        /\ drain' = IF drain = "none" THEN "loop" ELSE drain
    BY <1>4 DEF Send, EnsureDrainLoop
  <2>2. /\ queue' \in Seq(Sends) /\ Len(queue') = Len(queue) + 1
        /\ \A i \in DOMAIN queue : i \in DOMAIN queue' /\ queue'[i] = queue[i]
        /\ \A i \in DOMAIN queue' : i = Len(queue) + 1 \/ i \in DOMAIN queue
        /\ Len(queue) + 1 \in DOMAIN queue' /\ queue'[Len(queue) + 1] = s
    BY <2>1, QueueGrows DEF OutInv, OutType, SendStates
  <2>3. OutType'
    BY <1>1, <2>1, <2>2 DEF OutInv, OutType, SendStates
  <2>4. \A i \in DOMAIN queue : queue[i] < s /\ queue[i] \in Sends
    BY <1>2 DEF OutInv, OutType, SendStates, Placed
  <2>5. /\ \A k \in DOMAIN wire : wire[k].frame < s
        /\ inflight # NoFrame => inflight < s
    <3>1. \A k \in DOMAIN wire : wire[k].frame \in Sends /\ sending[wire[k].frame] # "idle"
      BY WireSettled
    <3>2. inflight # NoFrame => inflight \in Sends /\ sending[inflight] # "idle"
      BY DEF OutInv, OutType, SendStates, Placed
    <3>. QED
      BY <1>2, <3>1, <3>2
  <2>6. InOrder'
    <3>1. \A i \in DOMAIN queue' : i \in 1 .. Len(queue) + 1
      BY <2>2 DEF OutInv, OutType, SendStates
    <3>2. ASSUME NEW i \in DOMAIN queue', NEW j \in DOMAIN queue', i < j
          PROVE  queue'[i] < queue'[j]
      <4>1. i \in DOMAIN queue
        BY <2>2, <3>1, <3>2 DEF OutInv, OutType, SendStates
      <4>2. CASE j \in DOMAIN queue
        BY <2>2, <3>2, <4>1, <4>2 DEF OutInv, InOrder
      <4>3. CASE j = Len(queue) + 1
        BY <2>2, <2>4, <4>1, <4>3
      <4>. QED
        BY <2>2, <4>2, <4>3
    <3>3. \A r, t \in Sends : r < t /\ sending'[t] # "idle" => sending'[r] # "idle"
      BY <1>1, <2>1 DEF OutInv, OutType, SendStates, InOrder
    <3>. QED
      BY <3>2, <3>3 DEF InOrder
  <2>7. \A t \in Sends : sending'[t] = IF t = s THEN "queued" ELSE sending[t]
    BY <2>1 DEF OutInv, OutType, SendStates
  <2>8. Placed'
    <3>1. \A t \in Sends : sending'[t] = "queued" <=> \E i \in DOMAIN queue' : queue'[i] = t
      BY <2>2, <2>7 DEF OutInv, Placed
    <3>2. \A t \in Sends : sending'[t] = "writing" <=> t = inflight'
      BY <1>1, <2>7 DEF OutInv, Placed
    <3>3. drain' = "writing" <=> inflight' # NoFrame
      BY <1>1, <2>1 DEF OutInv, Placed
    <3>4. \A k \in DOMAIN wire : sending'[wire[k].frame] \in {"sent", "rejected"}
      <4>1. \A k \in DOMAIN wire : wire[k].frame \in Sends
                                     /\ sending[wire[k].frame] \in {"sent", "rejected"}
        BY WireSettled
      <4>. QED
        BY <1>1, <2>7, <4>1
    <3>. QED
      BY <1>1, <3>1, <3>2, <3>3, <3>4 DEF Placed
  <2>9. WireFirst'
    BY <1>1, <2>2, <2>5 DEF OutInv, WireFirst
  <2>10. SentFramesOnWire'
    <3>1. \A k \in DOMAIN wire : wire[k].frame # s
      BY <1>1 DEF OutInv, Placed
    <3>2. [frame |-> s, whole |-> TRUE] \notin Range(wire)
      BY <3>1 DEF Range
    <3>3. Range(queue') = {t \in Sends : sending'[t] = "queued"}
      <4>1. \A t \in Sends : sending'[t] = "queued" <=> \E i \in DOMAIN queue' : queue'[i] = t
        BY <2>8 DEF Placed
      <4>2. \A i \in DOMAIN queue' : queue'[i] \in Sends
        BY <2>2
      <4>. QED
        BY <4>1, <4>2 DEF Range
    <3>4. Len(queue') + (IF inflight' = NoFrame THEN 0 ELSE 1) <= MaxQueuedOutboundFrames
      <4>1. Len(queue) \in Nat /\ MaxQueuedOutboundFrames \in Nat
        BY TransportAssumption DEF OutInv, OutType, SendStates
      <4>. QED
        BY <1>1, <1>4, <2>2, <4>1 DEF QueueFull
    <3>. QED
      BY <1>1, <2>7, <3>2, <3>3, <3>4 DEF OutInv, SentFramesOnWire
  <2>. QED
    BY <2>3, <2>6, <2>8, <2>9, <2>10 DEF OutInv
<1>. QED
  BY <1>3, <1>4

LEMMA OutDequeues ==
    ASSUME OutInv, Dequeue
    PROVE  OutInv'
<1>. DEFINE s == Head(queue)
<1>1. /\ drain = "loop" /\ queue # <<>> /\ inflight' = s /\ queue' = Tail(queue)
      /\ sending' = [sending EXCEPT ![s] = "writing"] /\ drain' = "writing"
      /\ UNCHANGED wire /\ inflight = NoFrame
  BY DEF Dequeue, Drains, OutInv, Placed
<1>2. /\ queue' \in Seq(Sends) /\ Len(queue') = Len(queue) - 1
      /\ s \in Sends /\ s = queue[1] /\ 1 \in DOMAIN queue
      /\ \A i, j \in DOMAIN queue' : i < j => queue'[i] < queue'[j]
      /\ \A i \in DOMAIN queue' : s < queue'[i]
      /\ \A i \in DOMAIN queue' : \E j \in DOMAIN queue : queue'[i] = queue[j]
      /\ \A j \in DOMAIN queue : queue[j] = s \/ \E i \in DOMAIN queue' : queue'[i] = queue[j]
  BY <1>1, QueueShrinks DEF OutInv, OutType, SendStates, InOrder
<1>. HIDE DEF s
<1>3. OutType' /\ sending[s] = "queued" /\ s # NoFrame
  BY <1>1, <1>2 DEF OutInv, OutType, SendStates, Placed, Sends, NoFrame
<1>4. \A t \in Sends : sending'[t] = IF t = s THEN "writing" ELSE sending[t]
  BY <1>1 DEF OutInv, OutType, SendStates
<1>5. \A i \in DOMAIN queue' : queue'[i] # s /\ queue'[i] \in Sends
  <2>1. \A i \in DOMAIN queue' : queue'[i] \in Sends
    BY <1>2
  <2>. QED
    BY <1>2, <2>1 DEF Sends
<1>6. InOrder'
  BY <1>2, <1>3, <1>4 DEF OutInv, InOrder
<1>7. Placed'
  <2>1. ASSUME NEW t \in Sends
        PROVE  sending'[t] = "queued" <=> \E i \in DOMAIN queue' : queue'[i] = t
    <3>1. sending[t] = "queued" <=> \E j \in DOMAIN queue : queue[j] = t
      BY DEF OutInv, Placed
    <3>2. CASE t = s
      BY <1>4, <1>5, <3>2
    <3>3. CASE t # s
      BY <1>2, <1>4, <3>1, <3>3
    <3>. QED
      BY <3>2, <3>3
  <2>2. \A t \in Sends : sending'[t] = "writing" <=> t = inflight'
    BY <1>1, <1>4 DEF OutInv, Placed, Sends, NoFrame
  <2>3. \A k \in DOMAIN wire : sending'[wire[k].frame] \in {"sent", "rejected"}
    <3>1. \A k \in DOMAIN wire : wire[k].frame \in Sends
                                   /\ sending[wire[k].frame] \in {"sent", "rejected"}
      BY WireSettled
    <3>. QED
      BY <1>3, <1>4, <3>1
  <2>. QED
    BY <1>1, <1>3, <2>1, <2>2, <2>3 DEF Placed
<1>8. WireFirst'
  BY <1>1, <1>2 DEF OutInv, WireFirst
<1>9. SentFramesOnWire'
  <2>1. Range(queue') = {t \in Sends : sending'[t] = "queued"}
    BY <1>5, <1>7 DEF Placed, Range
  <2>2. Len(queue') + (IF inflight' = NoFrame THEN 0 ELSE 1) <= MaxQueuedOutboundFrames
    <3>1. Len(queue) \in Nat /\ MaxQueuedOutboundFrames \in Nat
          /\ Len(queue) <= MaxQueuedOutboundFrames
      BY <1>1, TransportAssumption DEF OutInv, OutType, SendStates, SentFramesOnWire
    <3>. QED
      BY <1>1, <1>2, <3>1
  <2>3. [frame |-> s, whole |-> TRUE] \notin Range(wire)
    BY <1>3 DEF OutInv, SentFramesOnWire, Placed, Range
  <2>. QED
    BY <1>1, <1>3, <1>4, <2>1, <2>2, <2>3 DEF OutInv, SentFramesOnWire
<1>. QED
  BY <1>3, <1>6, <1>7, <1>8, <1>9 DEF OutInv

\* The next frame goes on the wire, and is sent or rejected.
LEMMA SentOrder ==
    ASSUME OutInv, NEW w \in [frame : Sends, whole : BOOLEAN], NEW s \in Sends, w.frame = s,
           wire' = Append(wire, w), \A k \in DOMAIN wire : wire[k].frame < s,
           sending[s] \in {"queued", "writing"}, sending'[s] \in {"sent", "rejected"},
           sending'[s] = "sent" => w.whole,
           \A t \in Sends \ {s} : \/ sending'[t] = sending[t]
                                  \/ sending[t] = "queued" /\ sending'[t] = "rejected"
    PROVE  /\ \A i, j \in DOMAIN wire' : i < j => wire'[i].frame < wire'[j].frame
           /\ \A t \in Sends :
                  sending'[t] = "sent" <=> [frame |-> t, whole |-> TRUE] \in Range(wire')
                                               /\ sending'[t] # "rejected"
           /\ \A k \in DOMAIN wire' : sending'[wire'[k].frame] \in {"sent", "rejected"}
<1>1. wire \in Seq([frame : Sends, whole : BOOLEAN]) /\ SentFramesOnWire
  BY DEF OutInv, OutType, SendStates
<1>2. \A i, j \in DOMAIN wire' : i < j => wire'[i].frame < wire'[j].frame
  BY <1>1, WireOrder
<1>3. /\ Range(wire') = Range(wire) \cup {w}
      /\ \A k \in DOMAIN wire' : (k \in DOMAIN wire /\ wire'[k] = wire[k]) \/ wire'[k] = w
  BY <1>1, WireGrows
<1>4. ASSUME NEW t \in Sends
      PROVE  sending'[t] = "sent" <=> [frame |-> t, whole |-> TRUE] \in Range(wire')
                                          /\ sending'[t] # "rejected"
  <2>1. CASE t = s
    <3>1. w = [frame |-> s, whole |-> w.whole]
      OBVIOUS
    <3>2. sending'[s] = "sent" => w = [frame |-> s, whole |-> TRUE]
      BY <3>1
    <3>. QED
      BY <1>3, <2>1, <3>2
  <2>2. CASE t # s
    <3>1. [frame |-> t, whole |-> TRUE] # w
      BY <2>2
    <3>2. sending[t] = "sent" <=> [frame |-> t, whole |-> TRUE] \in Range(wire)
                                      /\ sending[t] # "rejected"
      BY <1>1 DEF SentFramesOnWire
    <3>3. [frame |-> t, whole |-> TRUE] \in Range(wire) => sending[t] # "queued"
      BY WireSettled DEF Range
    <3>. QED
      BY <1>3, <2>2, <3>1, <3>2, <3>3
  <2>. QED
    BY <2>1, <2>2
<1>5. ASSUME NEW k \in DOMAIN wire'
      PROVE  sending'[wire'[k].frame] \in {"sent", "rejected"}
  <2>1. CASE wire'[k] = w
    BY <2>1
  <2>2. CASE k \in DOMAIN wire /\ wire'[k] = wire[k]
    <3>1. wire[k].frame \in Sends /\ sending[wire[k].frame] \in {"sent", "rejected"}
      BY <2>2, WireSettled
    <3>. QED
      BY <2>2, <3>1
  <2>. QED
    BY <1>3, <2>1, <2>2
<1>. QED
  BY <1>2, <1>4, <1>5

LEMMA OutPosts ==
    ASSUME OutInv, PostMessage
    PROVE  OutInv'
<1>. DEFINE s == Head(queue)
            w == [frame |-> s, whole |-> TRUE]
<1>1. drain = "loop" /\ queue # <<>> /\ UNCHANGED inflight /\ inflight = NoFrame
  BY DEF PostMessage, Drains, OutInv, Placed
<1>2. CASE Reject(Range(queue)) /\ drain' = "ending" /\ UNCHANGED wire
  <2>1. /\ sending' = [t \in Sends |-> IF t \in Range(queue) THEN "rejected" ELSE sending[t]]
        /\ queue' = <<>>
    BY <1>2 DEF Reject
  <2>2. \A t \in Sends : t \in Range(queue) <=> sending[t] = "queued"
    BY DEF OutInv, SentFramesOnWire
  <2>3. \A t \in Sends : sending'[t] = IF sending[t] = "queued" THEN "rejected" ELSE sending[t]
    BY <2>1, <2>2
  <2>4. DOMAIN queue' = {} /\ Len(queue') = 0 /\ Range(queue') = {} /\ queue' \in Seq(Sends)
    BY <2>1 DEF Range
  <2>5. OutType'
    BY <1>1, <1>2, <2>1, <2>4 DEF OutInv, OutType, SendStates
  <2>6. InOrder' /\ WireFirst'
    BY <1>1, <1>2, <2>3, <2>4 DEF OutInv, InOrder, WireFirst
  <2>7. Placed'
    <3>1. \A k \in DOMAIN wire : sending'[wire[k].frame] \in {"sent", "rejected"}
      BY <2>3, WireSettled
    <3>. QED
      BY <1>1, <1>2, <2>3, <2>4, <3>1 DEF OutInv, Placed
  <2>8. Len(queue) \in Nat /\ MaxQueuedOutboundFrames \in Nat
    BY TransportAssumption DEF OutInv, OutType, SendStates
  <2>9. SentFramesOnWire'
    BY <1>1, <1>2, <2>3, <2>4, <2>8 DEF OutInv, SentFramesOnWire
  <2>. QED
    BY <2>5, <2>6, <2>7, <2>9 DEF OutInv
<1>3. CASE /\ wire' = Append(wire, w) /\ sending' = [sending EXCEPT ![s] = "sent"]
           /\ queue' = Tail(queue) /\ UNCHANGED drain
  <2>1. /\ queue' \in Seq(Sends) /\ Len(queue') = Len(queue) - 1
        /\ s \in Sends /\ s = queue[1] /\ 1 \in DOMAIN queue
        /\ \A i, j \in DOMAIN queue' : i < j => queue'[i] < queue'[j]
        /\ \A i \in DOMAIN queue' : s < queue'[i]
        /\ \A i \in DOMAIN queue' : \E j \in DOMAIN queue : queue'[i] = queue[j]
        /\ \A j \in DOMAIN queue : queue[j] = s \/ \E i \in DOMAIN queue' : queue'[i] = queue[j]
    BY <1>1, <1>3, QueueShrinks DEF OutInv, OutType, SendStates, InOrder
  <2>2. w \in [frame : Sends, whole : BOOLEAN] /\ w.frame = s /\ w.whole
    BY <2>1
  <2>3. /\ wire' \in Seq([frame : Sends, whole : BOOLEAN])
        /\ \A k \in DOMAIN wire' : (k \in DOMAIN wire /\ wire'[k] = wire[k]) \/ wire'[k] = w
    BY <1>3, <2>2, WireGrows DEF OutInv, OutType, SendStates
  <2>4. /\ sending[s] = "queued" /\ \A k \in DOMAIN wire : wire[k].frame < s
    BY <2>1 DEF OutInv, Placed, WireFirst
  <2>5. \A t \in Sends : sending'[t] = IF t = s THEN "sent" ELSE sending[t]
    BY <1>3 DEF OutInv, OutType, SendStates
  <2>. HIDE DEF s, w
  <2>6. /\ \A i, j \in DOMAIN wire' : i < j => wire'[i].frame < wire'[j].frame
        /\ \A t \in Sends :
               sending'[t] = "sent" <=> [frame |-> t, whole |-> TRUE] \in Range(wire')
                                            /\ sending'[t] # "rejected"
        /\ \A k \in DOMAIN wire' : sending'[wire'[k].frame] \in {"sent", "rejected"}
    BY <1>3, <2>1, <2>2, <2>4, <2>5, SentOrder
  <2>7. \A i \in DOMAIN queue' : queue'[i] # s /\ queue'[i] \in Sends
    <3>1. \A i \in DOMAIN queue' : queue'[i] \in Sends
      BY <2>1
    <3>. QED
      BY <2>1, <3>1 DEF Sends
  <2>8. OutType'
    BY <1>1, <1>3, <2>1, <2>3 DEF OutInv, OutType, SendStates
  <2>9. InOrder'
    BY <2>1, <2>4, <2>5 DEF OutInv, InOrder
  <2>10. Placed'
    <3>1. ASSUME NEW t \in Sends
          PROVE  sending'[t] = "queued" <=> \E i \in DOMAIN queue' : queue'[i] = t
      <4>1. sending[t] = "queued" <=> \E j \in DOMAIN queue : queue[j] = t
        BY DEF OutInv, Placed
      <4>2. CASE t = s
        BY <2>5, <2>7, <4>2
      <4>3. CASE t # s
        BY <2>1, <2>5, <4>1, <4>3
      <4>. QED
        BY <4>2, <4>3
    <3>2. \A t \in Sends : sending'[t] = "writing" <=> t = inflight'
      BY <1>1, <2>4, <2>5 DEF OutInv, Placed
    <3>. QED
      BY <1>1, <1>3, <2>6, <3>1, <3>2 DEF Placed
  <2>11. WireFirst'
    <3>1. ASSUME NEW k \in DOMAIN wire', NEW i \in DOMAIN queue'
          PROVE  wire'[k].frame < queue'[i]
      <4>1. CASE wire'[k] = w
        BY <2>1, <2>2, <4>1
      <4>2. CASE k \in DOMAIN wire /\ wire'[k] = wire[k]
        BY <2>1, <4>2 DEF OutInv, WireFirst
      <4>. QED
        BY <2>3, <4>1, <4>2
    <3>. QED
      BY <1>1, <3>1 DEF WireFirst
  <2>12. SentFramesOnWire'
    <3>1. Range(queue') = {t \in Sends : sending'[t] = "queued"}
      BY <2>7, <2>10 DEF Placed, Range
    <3>2. Len(queue') + (IF inflight' = NoFrame THEN 0 ELSE 1) <= MaxQueuedOutboundFrames
      <4>1. Len(queue) \in Nat /\ MaxQueuedOutboundFrames \in Nat
            /\ Len(queue) <= MaxQueuedOutboundFrames
        BY <1>1, TransportAssumption DEF OutInv, OutType, SendStates, SentFramesOnWire
      <4>. QED
        BY <1>1, <2>1, <4>1
    <3>. QED
      BY <2>6, <3>1, <3>2 DEF SentFramesOnWire
  <2>. QED
    BY <2>8, <2>9, <2>10, <2>11, <2>12 DEF OutInv
<1>. QED
  BY <1>2, <1>3 DEF PostMessage

\* The frame that is being written comes on the wire, whole or not or not at all; if
\* it fails the frames behind it are rejected with it.
LEMMA OutWritten ==
    ASSUME OutInv, drain = "writing", inflight' = NoFrame,
           drain' \in {"loop", "ending"}, sending' \in [Sends -> SendStates],
           UNCHANGED wire \/ \E b \in BOOLEAN : /\ wire' = Append(wire, [frame |-> inflight, whole |-> b])
                                                /\ sending'[inflight] = "sent" => b,
           sending'[inflight] = "rejected" \/ (sending'[inflight] = "sent" /\ wire' # wire),
           \/ queue' = queue /\ \A t \in Sends \ {inflight} : sending'[t] = sending[t]
           \/ /\ queue' = <<>>
              /\ \A t \in Sends \ {inflight} :
                     sending'[t] = IF sending[t] = "queued" THEN "rejected" ELSE sending[t]
    PROVE  OutInv'
<1>1. /\ inflight \in Sends /\ inflight # NoFrame /\ sending[inflight] = "writing"
      /\ \A k \in DOMAIN wire : wire[k].frame < inflight
      /\ \A i \in DOMAIN queue : inflight < queue[i]
      /\ queue \in Seq(Sends) /\ wire \in Seq([frame : Sends, whole : BOOLEAN])
  BY DEF OutInv, OutType, SendStates, Placed, WireFirst
<1>2. /\ queue' \in Seq(Sends) /\ Len(queue') <= Len(queue)
      /\ Len(queue) \in Nat /\ Len(queue') \in Nat
      /\ \A i \in DOMAIN queue' : i \in DOMAIN queue /\ queue'[i] = queue[i]
  <2>1. CASE queue' = queue
    BY <1>1, <2>1
  <2>2. CASE queue' = <<>>
    <3>1. Len(queue) \in Nat /\ Len(queue') = 0 /\ queue' \in Seq(Sends) /\ DOMAIN queue' = {}
      BY <1>1, <2>2
    <3>. QED
      BY <3>1
  <2>. QED
    BY <2>1, <2>2
<1>3. /\ wire' \in Seq([frame : Sends, whole : BOOLEAN])
      /\ \A i, j \in DOMAIN wire' : i < j => wire'[i].frame < wire'[j].frame
      /\ \A t \in Sends :
             sending'[t] = "sent" <=> [frame |-> t, whole |-> TRUE] \in Range(wire')
                                          /\ sending'[t] # "rejected"
      /\ \A k \in DOMAIN wire' : sending'[wire'[k].frame] \in {"sent", "rejected"}
      /\ \A k \in DOMAIN wire' : wire'[k].frame <= inflight
  <2>1. CASE UNCHANGED wire
    <3>1. sending'[inflight] = "rejected"
      BY <2>1
    <3>2. \A t \in Sends \ {inflight} :
              \/ sending'[t] = sending[t]
              \/ sending[t] = "queued" /\ sending'[t] = "rejected"
      OBVIOUS
    <3>3. \A k \in DOMAIN wire : wire[k].frame \in Sends
                                   /\ sending[wire[k].frame] \in {"sent", "rejected"}
      BY WireSettled
    <3>4. \A t \in Sends : [frame |-> t, whole |-> TRUE] \in Range(wire)
                               => sending[t] \in {"sent", "rejected"}
      BY <3>3 DEF Range
    <3>5. /\ \A i, j \in DOMAIN wire : i < j => wire[i].frame < wire[j].frame
          /\ \A t \in Sends :
                 sending[t] = "sent" <=> [frame |-> t, whole |-> TRUE] \in Range(wire)
                                             /\ sending[t] # "rejected"
      BY DEF OutInv, SentFramesOnWire
    <3>6. \A t \in Sends :
             sending'[t] = "sent" <=> [frame |-> t, whole |-> TRUE] \in Range(wire)
                                          /\ sending'[t] # "rejected"
      BY <1>1, <3>1, <3>2, <3>4, <3>5
    <3>7. \A k \in DOMAIN wire : sending'[wire[k].frame] \in {"sent", "rejected"}
      BY <3>1, <3>2, <3>3
    <3>8. \A k \in DOMAIN wire : wire[k].frame <= inflight
      BY <1>1, <3>3 DEF Sends
    <3>. QED
      BY <1>1, <2>1, <3>5, <3>6, <3>7, <3>8
  <2>2. CASE wire' # wire
    <3>1. PICK b \in BOOLEAN : /\ wire' = Append(wire, [frame |-> inflight, whole |-> b])
                               /\ sending'[inflight] = "sent" => b
      BY <2>2
    <3>. DEFINE w == [frame |-> inflight, whole |-> b]
    <3>2. w \in [frame : Sends, whole : BOOLEAN] /\ w.frame = inflight /\ w.whole = b
      BY <1>1
    <3>. HIDE DEF w
    <3>3. wire' = Append(wire, w)
      BY <3>1 DEF w
    <3>4. \A t \in Sends \ {inflight} :
              \/ sending'[t] = sending[t]
              \/ sending[t] = "queued" /\ sending'[t] = "rejected"
      OBVIOUS
    <3>5. /\ \A i, j \in DOMAIN wire' : i < j => wire'[i].frame < wire'[j].frame
          /\ \A t \in Sends :
                 sending'[t] = "sent" <=> [frame |-> t, whole |-> TRUE] \in Range(wire')
                                              /\ sending'[t] # "rejected"
          /\ \A k \in DOMAIN wire' : sending'[wire'[k].frame] \in {"sent", "rejected"}
      BY <1>1, <3>1, <3>2, <3>3, <3>4, SentOrder
    <3>6. /\ wire' \in Seq([frame : Sends, whole : BOOLEAN])
          /\ \A k \in DOMAIN wire' : (k \in DOMAIN wire /\ wire'[k] = wire[k]) \/ wire'[k] = w
      BY <1>1, <3>2, <3>3, WireGrows
    <3>7. ASSUME NEW k \in DOMAIN wire'
          PROVE  wire'[k].frame <= inflight
      <4>1. CASE wire'[k] = w
        BY <1>1, <3>2, <4>1 DEF Sends
      <4>2. CASE k \in DOMAIN wire /\ wire'[k] = wire[k]
        <5>1. wire[k].frame \in Sends /\ wire[k].frame < inflight
          BY <1>1, <4>2, WireSettled
        <5>. QED
          BY <1>1, <4>2, <5>1 DEF Sends
      <4>. QED
        BY <3>6, <4>1, <4>2
    <3>. QED
      BY <3>5, <3>6, <3>7
  <2>. QED
    BY <2>1, <2>2
<1>4. \A t \in Sends : sending'[t] \in {"idle", "queued", "sent", "rejected"}
  BY DEF OutInv, OutType, SendStates, Placed
<1>5. OutType'
  BY <1>2, <1>3, <1>4 DEF OutType, SendStates
<1>6. InOrder'
  <2>1. \A t \in Sends : sending'[t] = "idle" <=> sending[t] = "idle"
    BY <1>1
  <2>2. \A i, j \in DOMAIN queue' : i < j => queue'[i] < queue'[j]
    BY <1>2 DEF OutInv, InOrder
  <2>. QED
    BY <2>1, <2>2 DEF OutInv, InOrder
<1>7. \A t \in Sends : sending'[t] = "queued" <=> \E i \in DOMAIN queue' : queue'[i] = t
  <2>1. CASE queue' = queue
    <3>1. \A t \in Sends : sending[t] = "queued" <=> \E i \in DOMAIN queue : queue[i] = t
      BY DEF OutInv, Placed
    <3>2. \A t \in Sends : sending'[t] = "queued" <=> sending[t] = "queued"
      <4>1. queue = <<>> => \A t \in Sends : sending[t] # "queued"
        BY <3>1
      <4>. QED
        BY <1>1, <2>1, <4>1
    <3>. QED
      BY <2>1, <3>1, <3>2
  <2>2. CASE queue' = <<>>
    <3>1. \A t \in Sends : sending'[t] # "queued"
      <4>1. queue = <<>> => \A t \in Sends : sending[t] # "queued"
        BY DEF OutInv, Placed
      <4>. QED
        BY <1>1, <2>2, <4>1
    <3>. QED
      BY <2>2, <3>1
  <2>. QED
    BY <2>1, <2>2
<1>8. Placed'
  <2>1. \A t \in Sends : t # NoFrame
    BY DEF Sends, NoFrame
  <2>. QED
    BY <1>3, <1>4, <1>7, <2>1 DEF Placed
<1>9. WireFirst'
  <2>1. ASSUME NEW k \in DOMAIN wire', NEW i \in DOMAIN queue'
        PROVE  wire'[k].frame < queue'[i]
    <3>1. wire'[k] \in [frame : Sends, whole : BOOLEAN] /\ queue'[i] \in Sends
      <4>1. k \in 1 .. Len(wire') /\ i \in 1 .. Len(queue')
        BY <1>2, <1>3
      <4>. QED
        BY <1>2, <1>3, <4>1, ElementOfSeq
    <3>2. wire'[k].frame <= inflight /\ inflight < queue'[i] /\ wire'[k].frame \in Sends
      BY <1>1, <1>2, <1>3, <3>1
    <3>. QED
      BY <1>1, <3>1, <3>2 DEF Sends
  <2>. QED
    BY <2>1 DEF WireFirst
<1>10. SentFramesOnWire'
  <2>1. Range(queue') = {t \in Sends : sending'[t] = "queued"}
    <3>1. \A i \in DOMAIN queue' : queue'[i] \in Sends
      BY <1>2
    <3>. QED
      BY <1>7, <3>1 DEF Range
  <2>2. Len(queue') + (IF inflight' = NoFrame THEN 0 ELSE 1) <= MaxQueuedOutboundFrames
    <3>1. Len(queue) + 1 <= MaxQueuedOutboundFrames /\ MaxQueuedOutboundFrames \in Nat
      BY <1>1, TransportAssumption DEF OutInv, SentFramesOnWire
    <3>. QED
      BY <1>2, <3>1
  <2>. QED
    BY <1>3, <2>1, <2>2 DEF SentFramesOnWire
<1>. QED
  BY <1>5, <1>6, <1>8, <1>9, <1>10 DEF OutInv

LEMMA OutWrites ==
    ASSUME OutInv, WriteDone \/ WriteFails
    PROVE  OutInv'
<1>1. /\ drain = "writing" /\ inflight \in Sends /\ inflight # NoFrame
      /\ wire \in Seq([frame : Sends, whole : BOOLEAN])
      /\ sending \in [Sends -> SendStates]
  BY DEF WriteDone, WriteFails, OutInv, OutType, SendStates, Placed
<1>2. \A w : Append(wire, w) # wire
  BY <1>1
<1>3. CASE WriteDone
  <2>1. /\ wire' = Append(wire, [frame |-> inflight, whole |-> TRUE])
        /\ sending' = [sending EXCEPT ![inflight] = "sent"]
        /\ inflight' = NoFrame /\ drain' = "loop" /\ queue' = queue
    BY <1>3 DEF WriteDone
  <2>2. /\ sending' \in [Sends -> SendStates] /\ sending'[inflight] = "sent"
        /\ \A t \in Sends \ {inflight} : sending'[t] = sending[t]
    BY <1>1, <2>1 DEF SendStates
  <2>. QED
    BY <1>1, <1>2, <2>1, <2>2, OutWritten DEF SendStates
<1>4. CASE WriteFails
  <2>1. /\ UNCHANGED wire \/ \E b \in BOOLEAN : wire' = Append(wire, [frame |-> inflight, whole |-> b])
        /\ sending' = [t \in Sends |-> IF t \in Range(queue) \cup {inflight} THEN "rejected"
                                                                          ELSE sending[t]]
        /\ queue' = <<>> /\ inflight' = NoFrame /\ drain' = "ending"
    BY <1>4 DEF WriteFails, Reject
  <2>2. \A t \in Sends : t \in Range(queue) <=> sending[t] = "queued"
    BY DEF OutInv, SentFramesOnWire
  <2>3. /\ sending' \in [Sends -> SendStates] /\ sending'[inflight] = "rejected"
        /\ \A t \in Sends \ {inflight} :
               sending'[t] = IF sending[t] = "queued" THEN "rejected" ELSE sending[t]
    BY <1>1, <2>1, <2>2 DEF SendStates
  <2>. QED
    BY <1>1, <2>1, <2>3, OutWritten
<1>. QED
  BY <1>3, <1>4

LEMMA OutStep ==
    ASSUME OutInv, [TransportNext]_transportVars
    PROVE  OutInv'
<1>1. CASE UNCHANGED outVars
  BY <1>1, OutKept DEF outVars
<1>2. CASE DrainLoopExits \/ DrainFinally
  BY <1>2, OutKept DEF DrainLoopExits, DrainFinally
<1>3. CASE ReadEnds \/ LinkCloses \/ \E c \in Callers : CloseTransport(c)
  BY <1>1, <1>3, OutRejected DEF ReadEnds, LinkCloses, RemoteClosed, CloseTransport
<1>4. CASE \/ UNCHANGED transportVars
           \/ StartTransport \/ HandlerFails \/ PeerCloses \/ \E n \in 1 .. 2 : Receive(n)
           \/ \E c \in Callers : CloseAgain(c) \/ CloseStep(c)
           \/ ReadStep
  BY <1>1, <1>4 DEF transportVars, outVars, StartTransport, HandlerFails, PeerCloses, Receive,
     CloseAgain, CloseStep, CloseSession, CloseEnds, CloseTimesOut,
     ReadStep, HandleFrame, HandlerEnds, FramesDone
<1>. QED
  BY <1>2, <1>3, <1>4, OutSends, OutDequeues, OutPosts, OutWrites DEF TransportNext, DrainStep

LEMMA OutInvariant == TransportSpec => []OutInv
<1>1. TransportInit => OutInv
  <2>1. SUFFICES ASSUME TransportInit PROVE OutInv
    OBVIOUS
  <2>2. /\ sending = [s \in Sends |-> "idle"] /\ queue = <<>> /\ inflight = NoFrame
        /\ drain = "none" /\ wire = <<>>
    BY <2>1 DEF TransportInit
  <2>3. DOMAIN queue = {} /\ Len(queue) = 0 /\ Range(queue) = {} /\ DOMAIN wire = {} /\ Range(wire) = {}
    BY <2>2 DEF Range
  <2>4. OutType /\ InOrder /\ Placed /\ WireFirst
    BY <2>2, <2>3 DEF OutType, SendStates, InOrder, Placed, WireFirst, Sends, NoFrame
  <2>5. SentFramesOnWire
    BY <2>2, <2>3, TransportAssumption DEF SentFramesOnWire
  <2>. QED
    BY <2>4, <2>5 DEF OutInv
<1>2. OutInv /\ [TransportNext]_transportVars => OutInv'
  BY OutStep
<1>. QED
  BY <1>1, <1>2, PTL DEF TransportSpec

\* Frames reach the wire in the order of the sends and once at most, those whose
\* send() succeeded as a whole, and the limit counts the one that is being written.
THEOREM SendsOnWire == TransportSpec => []SentFramesOnWire
<1>1. OutInv => SentFramesOnWire
  BY DEF OutInv
<1>. QED
  BY <1>1, OutInvariant, PTL

(***************************************************************************)
(* Types.                                                                  *)
(***************************************************************************)
ReadType ==
    /\ transport \in TransportOptions
    /\ transportStarted \in BOOLEAN /\ transportClosed \in BOOLEAN
    /\ remoteClosed \in BOOLEAN /\ listening \in BOOLEAN
    /\ notified \in 0 .. 1 /\ link \in {"open", "closing", "closed"}
    /\ reader \in {"none", "reading", "frames", "handling", "muted", "ended"}
    /\ inbound \in Seq(1 .. MaxIn) /\ received \in 0 .. MaxIn
    /\ handled \in Seq(1 .. MaxIn)
    /\ closer \in [Callers -> {"none", "aborting", "waiting", "done", "gaveUp"}]

LEMMA InitReadType == TransportInit => ReadType
<1>1. <<>> \in Seq(1 .. MaxIn) /\ 0 \in 0 .. MaxIn
  BY TransportAssumption
<1>2. TransportInit => closer \in [Callers -> {"none", "aborting", "waiting", "done", "gaveUp"}]
  BY DEF TransportInit
<1>3. TransportInit => /\ inbound \in Seq(1 .. MaxIn) /\ handled \in Seq(1 .. MaxIn)
                       /\ received \in 0 .. MaxIn
  BY <1>1 DEF TransportInit
<1>4. TransportInit => /\ transport \in TransportOptions
                       /\ transportStarted \in BOOLEAN /\ transportClosed \in BOOLEAN
                       /\ remoteClosed \in BOOLEAN /\ listening \in BOOLEAN
  BY DEF TransportInit
<1>5. TransportInit => /\ notified \in 0 .. 1 /\ link \in {"open", "closing", "closed"}
                       /\ reader \in {"none", "reading", "frames", "handling", "muted", "ended"}
  BY DEF TransportInit
<1> QED BY <1>2, <1>3, <1>4, <1>5 DEF ReadType

\* Frames are numbered as they are received.
LEMMA ReceiveType ==
    ASSUME ReadType, NEW n \in 1 .. 2, Receive(n)
    PROVE  inbound' \in Seq(1 .. MaxIn) /\ received' \in 0 .. MaxIn
<1>1. /\ received + n <= MaxIn /\ received' = received + n /\ received \in Nat /\ n \in Nat
      /\ inbound' = inbound \o [i \in 1 .. n |-> received + i] /\ MaxIn \in Nat
  BY TransportAssumption DEF Receive, ReadType
<1>2. \A i \in 1 .. n : received + i \in 1 .. MaxIn
  BY <1>1
<1>3. [i \in 1 .. n |-> received + i] \in Seq(1 .. MaxIn)
  BY <1>1, <1>2
<1>4. inbound' \in Seq(1 .. MaxIn)
  BY <1>1, <1>3, ConcatProperties DEF ReadType
<1> QED BY <1>1, <1>4

LEMMA ReadTypeStep ==
    ASSUME ReadType, [TransportNext]_transportVars
    PROVE  ReadType'
<1>1. CASE UNCHANGED transportVars
  BY <1>1 DEF transportVars, lifeVars, inVars, ReadType
<1>2. CASE StartTransport
  BY <1>2 DEF StartTransport, ReadType, Is, outVars
<1>3. ASSUME NEW n \in 1 .. 2, Receive(n) PROVE ReadType'
  <2>1. reader' \in {reader, "frames"} /\ UNCHANGED <<lifeVars, handled, closer>>
    BY <1>3 DEF Receive
  <2>2. reader' \in {"none", "reading", "frames", "handling", "muted", "ended"}
    BY <2>1 DEF ReadType
  <2> QED BY <1>3, <2>1, <2>2, ReceiveType DEF ReadType, lifeVars
<1>4. CASE HandleFrame
  <2>1. /\ inbound # <<>> /\ handled' = Append(handled, Head(inbound)) /\ inbound' = Tail(inbound)
        /\ reader' = "handling" /\ UNCHANGED <<lifeVars, received, closer>>
    BY <1>4 DEF HandleFrame
  <2>2. Head(inbound) \in 1 .. MaxIn /\ inbound' \in Seq(1 .. MaxIn)
    BY <2>1, HeadTailProperties DEF ReadType
  <2>3. handled' \in Seq(1 .. MaxIn)
    BY <2>1, <2>2, AppendProperties DEF ReadType
  <2> QED BY <2>1, <2>2, <2>3 DEF ReadType, lifeVars
<1>5. CASE HandlerEnds \/ FramesDone \/ HandlerFails
  <2>1. /\ reader' \in {"frames", "muted", "ended", "reading"}
        /\ UNCHANGED <<lifeVars, inbound, received, handled, closer>>
    BY <1>5 DEF HandlerEnds, FramesDone, HandlerFails
  <2> QED BY <2>1 DEF ReadType, lifeVars
<1>6. CASE ReadEnds
  <2>1. /\ reader' = "ended" /\ inbound' = <<>> /\ remoteClosed' = TRUE /\ link' = "closed"
        /\ transportClosed' \in BOOLEAN /\ notified' \in {notified, 1}
        /\ UNCHANGED <<transport, transportStarted, listening, received, handled, closer>>
    BY <1>6 DEF ReadEnds, RemoteClosed, NotifyClose
  <2>2. <<>> \in Seq(1 .. MaxIn)
    OBVIOUS
  <2> QED BY <2>1, <2>2 DEF ReadType
<1>7. CASE PeerCloses
  BY <1>7 DEF PeerCloses, ReadType, inVars
<1>8. CASE LinkCloses
  <2>1. /\ link' = "closed" /\ remoteClosed' \in {remoteClosed, TRUE}
        /\ transportClosed' = transportClosed \/ transportClosed' \in BOOLEAN
        /\ notified' \in {notified, 1}
        /\ UNCHANGED <<transport, transportStarted, listening, inVars, closer>>
    BY <1>8 DEF LinkCloses, RemoteClosed, NotifyClose
  <2>2. transportClosed' \in BOOLEAN
    BY <2>1 DEF ReadType
  <2>3. remoteClosed' \in BOOLEAN
    BY <1>8 DEF LinkCloses, RemoteClosed, ReadType
  <2>4. notified' \in 0 .. 1
    BY <2>1 DEF ReadType
  <2> QED BY <2>1, <2>2, <2>3, <2>4 DEF ReadType, inVars
<1>9. ASSUME NEW s \in Sends, Send(s) PROVE ReadType'
  BY <1>9 DEF Send, ReadType, lifeVars, inVars
<1>10. ASSUME NEW c \in Callers, CloseTransport(c) PROVE ReadType'
  <2> DEFINE x == CASE Is({"tcp"}) -> "waiting"
                    [] Is({"webtransport"}) -> "aborting"
                    [] Is({"websocket"}) /\ link = "open" -> "waiting"
                    [] OTHER -> "done"
  <2>0. x \in {"waiting", "aborting", "done"} /\ closer' = [closer EXCEPT ![c] = x]
    BY <1>10 DEF CloseTransport, Is
  <2> HIDE DEF x
  <2>1. closer' \in [Callers -> {"none", "aborting", "waiting", "done", "gaveUp"}]
    BY <2>0 DEF ReadType
  <2>2. /\ transportClosed' = TRUE /\ link' \in {link, "closed", "closing"}
        /\ notified' \in {notified, 1}
        /\ UNCHANGED <<transport, transportStarted, remoteClosed, inVars>>
    BY <1>10 DEF CloseTransport, NotifyClose
  <2>3. listening' \in BOOLEAN
    BY <1>10 DEF CloseTransport
  <2> QED BY <2>1, <2>2, <2>3 DEF ReadType, inVars
<1>11. ASSUME NEW c \in Callers, CloseAgain(c) \/ CloseStep(c) PROVE ReadType'
  <2>1. \E x \in {"waiting", "done", "gaveUp"} : closer' = [closer EXCEPT ![c] = x]
    BY <1>11 DEF CloseAgain, CloseStep, CloseSession, CloseEnds, CloseTimesOut
  <2>2. /\ link' \in {link, "closing"} /\ notified' \in {notified, 1}
        /\ listening' = listening \/ listening' = FALSE
        /\ UNCHANGED <<transport, transportStarted, transportClosed, remoteClosed, inVars>>
    BY <1>11 DEF CloseAgain, CloseStep, CloseSession, CloseEnds, CloseTimesOut, NotifyClose, lifeVars
  <2>3. closer' \in [Callers -> {"none", "aborting", "waiting", "done", "gaveUp"}]
    BY <2>1 DEF ReadType
  <2>4. listening' \in BOOLEAN
    BY <2>2 DEF ReadType
  <2> QED BY <2>2, <2>3, <2>4 DEF ReadType, inVars
<1>12. CASE DrainStep
  BY <1>12 DEF DrainStep, Dequeue, PostMessage, DrainLoopExits, WriteDone, WriteFails, DrainFinally,
     ReadType, lifeVars, inVars
<1> QED
  BY <1>1, <1>2, <1>3, <1>4, <1>5, <1>6, <1>7, <1>8, <1>9, <1>10, <1>11, <1>12
     DEF TransportNext, ReadStep

\* A transport keeps its types, and with them what is sent is in one place.
LEMMA TransportTypes == TransportSpec => []TransportTypeOK
<1>1. TransportInit => ReadType
  BY InitReadType
<1>2. ReadType /\ [TransportNext]_transportVars => ReadType'
  BY ReadTypeStep
<1>3. ReadType /\ OutInv => TransportTypeOK
  BY DEF ReadType, OutInv, OutType, SendStates, TransportTypeOK
<1> QED BY <1>1, <1>2, <1>3, OutInvariant, PTL DEF TransportSpec

(***************************************************************************)
(* Silence.                                                                *)
(***************************************************************************)
\* Who has called close() has found the transport closed or closed it; on a stream
\* it ends when both loops have ended, and none begins again.
SilentInv ==
    /\ closer \in [Callers -> {"none", "aborting", "waiting", "done", "gaveUp"}]
    /\ \A c \in Callers : closer[c] # "none" => transportClosed
    /\ Is(StreamKinds) /\ (\E c \in Callers : closer[c] = "done") => Quiet

LEMMA SilentStep ==
    ASSUME SilentInv, [TransportNext]_transportVars
    PROVE  /\ SilentInv'
           /\ Is(StreamKinds) /\ (\E c \in Callers : closer[c] = "done")
                  => UNCHANGED <<handled, wire>>
<1>1. UNCHANGED transport
  BY DEF TransportNext, transportVars, lifeVars, StartTransport, HandlerFails, ReadEnds, PeerCloses,
     LinkCloses, Receive, Send, CloseTransport, CloseAgain, CloseStep, CloseSession, CloseEnds,
     CloseTimesOut, DrainStep, Dequeue, PostMessage, DrainLoopExits, WriteDone, WriteFails,
     DrainFinally, ReadStep, HandleFrame, HandlerEnds, FramesDone
<1>2. Is(EventKinds) => ~Is(StreamKinds)
  BY DEF Is, EventKinds, StreamKinds
<1>3. CASE UNCHANGED <<closer, transportClosed>>
  <2>1. SUFFICES ASSUME Is(StreamKinds), \E c \in Callers : closer[c] = "done"
                 PROVE  Quiet' /\ UNCHANGED <<handled, wire>>
    BY <1>1, <1>3 DEF SilentInv, Is
  <2>2. Quiet /\ transportClosed
    BY <2>1 DEF SilentInv
  <2>. QED
    BY <1>2, <1>3, <2>1, <2>2
    DEF Quiet, TransportNext, transportVars, lifeVars, inVars, outVars, StartTransport, HandlerFails,
     ReadEnds, PeerCloses, LinkCloses, RemoteClosed, RejectQueued, Receive, Send, Sendable,
     CloseTransport, CloseAgain, CloseStep, CloseSession,
     CloseEnds, CloseTimesOut, DrainStep, Dequeue, PostMessage, DrainLoopExits, WriteDone, WriteFails,
     DrainFinally, ReadStep, HandleFrame, HandlerEnds, FramesDone
<1>4. CASE ReadEnds \/ LinkCloses
  <2>1. /\ UNCHANGED <<closer, handled, wire, drain>> /\ (transportClosed => transportClosed')
        /\ reader' \in {reader, "ended"}
    BY <1>4 DEF ReadEnds, LinkCloses, RemoteClosed, RejectQueued, inVars, outVars
  <2>. QED
    BY <1>1, <2>1 DEF SilentInv, Is, Quiet
<1>5. ASSUME NEW c \in Callers, CloseTransport(c)
      PROVE  /\ SilentInv'
             /\ Is(StreamKinds) /\ (\E x \in Callers : closer[x] = "done")
                    => UNCHANGED <<handled, wire>>
  <2>1. /\ ~transportClosed /\ transportClosed' /\ UNCHANGED <<handled, wire>>
        /\ \E s \in {"waiting", "aborting", "done"} :
               /\ closer' = [closer EXCEPT ![c] = s]
               /\ s = "done" => ~Is(StreamKinds)
    BY <1>5 DEF CloseTransport, RejectQueued, inVars, Is, StreamKinds
  <2>2. \A x \in Callers : closer[x] = "none"
    BY <2>1 DEF SilentInv
  <2>. QED
    BY <1>1, <2>1, <2>2 DEF SilentInv, Is
<1>6. ASSUME NEW c \in Callers, CloseAgain(c) \/ CloseStep(c)
      PROVE  /\ SilentInv'
             /\ Is(StreamKinds) /\ (\E x \in Callers : closer[x] = "done")
                    => UNCHANGED <<handled, wire>>
  <2>1. /\ UNCHANGED <<transportClosed, handled, wire, reader, drain>>
        /\ \E s \in {"waiting", "done", "gaveUp"} :
               /\ closer' = [closer EXCEPT ![c] = s]
               /\ s = "done" => (Is(StreamKinds) => Quiet)
        /\ closer[c] # "none" \/ transportClosed
    BY <1>6 DEF CloseAgain, CloseStep, CloseSession, CloseEnds, CloseTimesOut, lifeVars, inVars, outVars
  <2>. QED
    BY <1>1, <2>1 DEF SilentInv, Is, Quiet
<1>7. \/ UNCHANGED <<closer, transportClosed>>
      \/ ReadEnds \/ LinkCloses
      \/ \E c \in Callers : CloseTransport(c) \/ CloseAgain(c) \/ CloseStep(c)
  BY DEF TransportNext, transportVars, lifeVars, StartTransport, HandlerFails, PeerCloses,
     Receive, Send, DrainStep, Dequeue, PostMessage, DrainLoopExits, WriteDone, WriteFails,
     DrainFinally, ReadStep, HandleFrame, HandlerEnds, FramesDone
<1>. QED
  BY <1>3, <1>4, <1>5, <1>6, <1>7

\* When close() of a stream transport has run to its end, nothing is handed to the
\* application and nothing is written any more.
THEOREM ClosedIsSilent == TransportSpec => SilentWhenClosed
<1>1. TransportInit => SilentInv
  BY DEF TransportInit, SilentInv
<1>2. SilentInv /\ [TransportNext]_transportVars => SilentInv'
  BY SilentStep
<1>3. SilentInv /\ [TransportNext]_transportVars
          => [Is(StreamKinds) /\ (\E c \in Callers : closer[c] = "done")
                  => UNCHANGED <<handled, wire>>]_transportVars
  BY SilentStep
<1>. QED
  BY <1>1, <1>2, <1>3, PTL DEF TransportSpec, SilentWhenClosed

-------------------------------------------------------------------------------
(***************************************************************************)
(* The wire client.                                                        *)
(***************************************************************************)
\* The references that have not been given back.
Held(where) == {q \in CallbackCalls : where[q] \in {"local", "granted", "peer"}}

\* The types, without the count of the references.
WireTypes ==
    /\ started \in {"starting", "up", "failed"} /\ wireClosed \in BOOLEAN
    /\ asking \in [WireQuestions -> {"idle", "ready", "checked", "turn", "sending", "waiting",
                                 "finishing", "lastSend", "done"}]
    /\ wait \in [WireQuestions -> {"none", "pending", "exception", "error"} \cup Given]
    /\ resultCaps \cup reached \subseteq WireQuestions
    /\ paramGrants \subseteq CallbackCalls
    /\ reference \in [CallbackCalls -> {"none", "local", "granted", "peer", "released"}]
    /\ finishSent \in [WireQuestions -> {"none", "keeps", "releases"}]
    /\ returned \in [WireQuestions -> 0 .. 2]

\* A question that has not been asked yet has no waiter, no Finish and no peer; one
\* that is finished waits no more; and a Finish is sent by one that is finished.
StagesKept ==
    \A q \in WireQuestions :
        /\ asking[q] \in {"idle", "ready", "checked"} =>
               wait[q] = "none" /\ finishSent[q] = "none" /\ q \notin reached
        /\ asking[q] \in {"finishing", "lastSend"} => wait[q] # "pending"
        /\ finishSent[q] # "none" => asking[q] \in {"lastSend", "done"} /\ wait[q] # "pending"
        /\ returned[q] > 0 => q \in reached

\* While the client is open, the result capabilities that are noted are those
\* given to a caller and not finished.
CapsNoted ==
    ~wireClosed => \A q \in WireQuestions :
        (q \in resultCaps) = (wait[q] = "caps" /\ finishSent[q] = "none")

\* Where the reference of a callback call is as the call proceeds.
ReferencePlaced ==
    \A q \in CallbackCalls :
        /\ asking[q] = "idle" => reference[q] = "none"
        /\ asking[q] \in {"ready", "checked"} => reference[q] = "local"
        /\ (/\ ~wireClosed /\ returned[q] = 0
            /\ asking[q] \in {"turn", "sending", "waiting"} \/ q \in reached)
           => reference[q] = "granted"
        /\ ~wireClosed => (q \in paramGrants) = (reference[q] = "granted")

\* A closed client holds nothing, an open one as many references as are held.
ReferencesCounted ==
    IF wireClosed THEN Pending = {} /\ resultCaps = {} /\ paramGrants = {} /\ references = 0
                  ELSE references = Cardinality(Held(reference))

WireInv ==
    /\ WireTypes /\ StagesKept /\ CapsNoted /\ ReferencePlaced /\ ReferencesCounted
    /\ FinishKeepsWhatIsHeld

WirePlain == WireTypes /\ StagesKept /\ CapsNoted /\ ReferencePlaced /\ FinishKeepsWhatIsHeld

LEMMA CallbacksFinite == IsFiniteSet(CallbackCalls)
BY WireAssumption, FS_Subset DEF WireQuestions

LEMMA HeldFinite == \A where : IsFiniteSet(Held(where)) /\ Cardinality(Held(where)) \in Nat
<1> TAKE where
<1>1. Held(where) \subseteq CallbackCalls
  BY DEF Held
<1> QED BY <1>1, CallbacksFinite, FS_Subset, FS_CardinalityType

LEMMA InitWireInv == WireInit => WireInv
<1> SUFFICES ASSUME WireInit PROVE WireInv
  OBVIOUS
<1> USE DEF WireInit
<1>1. WireTypes
  <2>1. /\ started \in {"starting", "up", "failed"} /\ wireClosed \in BOOLEAN
        /\ resultCaps \cup reached \subseteq WireQuestions /\ paramGrants \subseteq CallbackCalls
    OBVIOUS
  <2>2. /\ asking \in [WireQuestions -> {"idle", "ready", "checked", "turn", "sending",
                                      "waiting", "finishing", "lastSend", "done"}]
        /\ finishSent \in [WireQuestions -> {"none", "keeps", "releases"}]
        /\ reference \in [CallbackCalls -> {"none", "local", "granted", "peer", "released"}]
    OBVIOUS
  <2>3. wait \in [WireQuestions -> {"none", "pending", "exception", "error"} \cup Given]
    OBVIOUS
  <2>4. returned \in [WireQuestions -> 0 .. 2]
    OBVIOUS
  <2> QED BY <2>1, <2>2, <2>3, <2>4 DEF WireTypes
<1>2. StagesKept /\ CapsNoted /\ ReferencePlaced /\ FinishKeepsWhatIsHeld
  BY DEF StagesKept, CapsNoted, ReferencePlaced, FinishKeepsWhatIsHeld, WireQuestions
<1>3. ReferencesCounted
  <2>1. Held(reference) = {}
    BY DEF Held
  <2> QED BY <2>1, FS_EmptySet DEF ReferencesCounted
<1> QED BY <1>1, <1>2, <1>3 DEF WireInv

LEMMA WirePlainStep == ASSUME WireInv, [WireNext]_wireVars PROVE WirePlain'
<1>0. /\ WireTypes /\ StagesKept /\ CapsNoted /\ ReferencePlaced /\ FinishKeepsWhatIsHeld
      /\ CallbackCalls \subseteq WireQuestions /\ Bootstraps \subseteq WireQuestions
  BY DEF WireInv, WireQuestions
<1> USE <1>0 DEF WirePlain, WireTypes, StagesKept, CapsNoted, ReferencePlaced,
                 FinishKeepsWhatIsHeld
<1>1. CASE UNCHANGED wireVars
  BY <1>1 DEF wireVars, peerSide
<1>2. ASSUME NEW q \in WireQuestions, StubCalls(q) PROVE WirePlain'
  BY <1>2 DEF StubCalls, At, peerSide
<1>3. ASSUME NEW q \in WireQuestions, Ready(q) PROVE WirePlain'
  BY <1>3 DEF Ready, At, peerSide, capSide
<1>4. ASSUME NEW q \in WireQuestions, Ask(q) PROVE WirePlain'
  BY <1>4 DEF Ask, At, Records, peerSide
<1>5. ASSUME NEW q \in WireQuestions, HandOff(q) PROVE WirePlain'
  BY <1>5 DEF HandOff, At, peerSide, capSide
<1>6. ASSUME NEW q \in WireQuestions, StopsWaiting(q) PROVE WirePlain'
  BY <1>6 DEF StopsWaiting, At, peerSide, capSide
<1>7. ASSUME NEW q \in WireQuestions, WaitIsOver(q) PROVE WirePlain'
  BY <1>7 DEF WaitIsOver, At, peerSide, capSide
<1>8. ASSUME NEW q \in WireQuestions, Finish(q) PROVE WirePlain'
  BY <1>8, WireAssumption DEF Finish, At, peerSide, capSide, Given
<1>9. ASSUME NEW q \in WireQuestions, WaitCanceled(q) PROVE WirePlain'
  BY <1>9 DEF WaitCanceled, Pending, peerSide, capSide, Given
<1>10. ASSUME NEW q \in WireQuestions, FrameArrives(q) PROVE WirePlain'
  BY <1>10 DEF FrameArrives, capSide
<1>11. ASSUME NEW q \in WireQuestions, SendCompletes(q) PROVE WirePlain'
  BY <1>11 DEF SendCompletes, At, peerSide, capSide
<1>12. ASSUME NEW q \in WireQuestions, WireSendFails(q) PROVE WirePlain'
  BY <1>12 DEF WireSendFails, At, peerSide, capSide
<1>13. ASSUME NEW q \in WireQuestions, FinishSettles(q) PROVE WirePlain'
  BY <1>13 DEF FinishSettles, At, peerSide, capSide
<1>14. ASSUME NEW q \in WireQuestions, NEW answer \in Given \cup {"exception"},
              NEW release \in BOOLEAN, ReturnArrives(q, answer, release)
       PROVE  WirePlain'
  BY <1>14 DEF ReturnArrives, Settles, Drops, Notes, Given
<1>15. ASSUME NEW q \in WireQuestions, ReleaseArrives(q) PROVE WirePlain'
  BY <1>15 DEF ReleaseArrives, Drops, peerSide
<1>16. CASE StartSettles
  BY <1>16 DEF StartSettles, RejectPending, Pending, peerSide, capSide, Given
<1>17. CASE InboundFails
  BY <1>17 DEF InboundFails, RejectPending, Pending, peerSide, capSide, Given
<1>18. CASE WireMarkClosed
  BY <1>18 DEF WireMarkClosed, RejectPending, Pending, peerSide, Given
<1> HIDE <1>0 DEF WirePlain, WireTypes, StagesKept, CapsNoted, ReferencePlaced,
                 FinishKeepsWhatIsHeld
<1> QED BY <1>1, <1>2, <1>3, <1>4, <1>5, <1>6, <1>7, <1>8, <1>9, <1>10, <1>11, <1>12, <1>13,
           <1>14, <1>15, <1>16, <1>17, <1>18 DEF WireNext, Continues

\* One more reference is held, or one less.
LEMMA HeldMore == ASSUME NEW q \in CallbackCalls, WireTypes, reference' = [reference EXCEPT ![q] = "local"],
                         reference[q] = "none"
                  PROVE  Cardinality(Held(reference')) = Cardinality(Held(reference)) + 1
<1>1. Held(reference') = Held(reference) \cup {q} /\ q \notin Held(reference)
  BY DEF Held, WireTypes
<1> QED BY <1>1, HeldFinite, FS_AddElement

LEMMA HeldLess == ASSUME NEW q \in CallbackCalls, WireTypes,
                         reference' = [reference EXCEPT ![q] = "released"],
                         q \in Held(reference)
                  PROVE  /\ Cardinality(Held(reference)) > 0
                         /\ Cardinality(Held(reference')) = Cardinality(Held(reference)) - 1
<1>1. Held(reference') = Held(reference) \ {q}
  BY DEF Held, WireTypes
<1>2. Cardinality(Held(reference)) # 0
  BY HeldFinite, FS_EmptySet
<1>3. Cardinality(Held(reference)) \in Nat /\ IsFiniteSet(Held(reference))
  BY HeldFinite
<1>4. Cardinality(Held(reference) \ {q}) = Cardinality(Held(reference)) - 1
  BY <1>3, FS_RemoveElement
<1>5. Cardinality(Held(reference)) > 0
  BY <1>2, <1>3
<1>6. Cardinality(Held(reference')) = Cardinality(Held(reference)) - 1
  BY <1>1, <1>4
<1> QED BY <1>5, <1>6

LEMMA WireCountStep == ASSUME WireInv, [WireNext]_wireVars PROVE ReferencesCounted'
<1>0. /\ WireTypes /\ StagesKept /\ CapsNoted /\ ReferencePlaced /\ ReferencesCounted
      /\ CallbackCalls \subseteq WireQuestions
  BY DEF WireInv, WireQuestions
<1> USE <1>0
\* A step that leaves alone what is counted, and lets nobody start to wait.
<1>s. ASSUME wireClosed' = wireClosed, references' = references,
             Held(reference') = Held(reference),
             wireClosed => Pending' = {} /\ resultCaps' = {} /\ paramGrants' = {}
      PROVE  ReferencesCounted'
  BY <1>s DEF ReferencesCounted
<1>1. CASE UNCHANGED wireVars
  BY <1>1 DEF wireVars, peerSide, ReferencesCounted, Held, Pending
<1>2. ASSUME NEW q \in WireQuestions, StubCalls(q) PROVE ReferencesCounted'
  <2>1. CASE wireClosed
    BY <1>2, <2>1 DEF StubCalls, peerSide, ReferencesCounted, Pending
  <2>2. CASE ~wireClosed /\ q \in CallbackCalls /\ ~AdmissionFull
    <3>1. reference' = [reference EXCEPT ![q] = "local"] /\ reference[q] = "none"
      BY <1>2, <2>2 DEF StubCalls, WireTypes, ReferencePlaced
    <3>2. {q} \cap CallbackCalls = {q}
      BY <2>2
    <3>3. references' = references + 1
      BY <1>2, <2>2, <3>2, FS_Singleton DEF StubCalls
    <3> QED BY <1>2, <2>2, <3>1, <3>3, HeldMore DEF StubCalls, ReferencesCounted
  <2>3. CASE ~wireClosed /\ q \in CallbackCalls /\ AdmissionFull
    BY <1>2, <2>3, <1>s DEF StubCalls
  <2>4. CASE ~wireClosed /\ q \notin CallbackCalls
    <3>1. reference' = reference
      BY <1>2, <2>4 DEF StubCalls, WireTypes
    <3>2. {q} \cap CallbackCalls = {}
      BY <2>4
    <3>3. references' = references
      BY <1>2, <2>4, <3>2, FS_EmptySet, HeldFinite DEF StubCalls, ReferencesCounted
    <3> QED BY <1>2, <2>4, <3>1, <3>3, <1>s DEF StubCalls
  <2> QED BY <2>1, <2>2, <2>3, <2>4
<1>3. ASSUME NEW q \in WireQuestions,
             Ready(q) \/ HandOff(q) \/ StopsWaiting(q) \/ WaitIsOver(q) \/ SendCompletes(q)
                 \/ FinishSettles(q)
      PROVE  ReferencesCounted'
  BY <1>3, <1>s DEF Ready, HandOff, StopsWaiting, WaitIsOver, SendCompletes, FinishSettles,
                    capSide, ReferencesCounted, Pending
<1>4. ASSUME NEW q \in WireQuestions, Ask(q) PROVE ReferencesCounted'
  <2>1. Held(reference') = Held(reference)
    BY <1>4 DEF Ask, Records, Held, WireTypes, ReferencePlaced
  <2>2. wireClosed => Pending' = {} /\ resultCaps' = {} /\ paramGrants' = {}
    BY <1>4 DEF Ask, ReferencesCounted, Pending
  <2> QED BY <1>4, <2>1, <2>2, <1>s DEF Ask
<1>5. ASSUME NEW q \in WireQuestions, Finish(q) PROVE ReferencesCounted'
  BY <1>5, <1>s DEF Finish, capSide, ReferencesCounted, Pending
<1>6. ASSUME NEW q \in WireQuestions, WaitCanceled(q) PROVE ReferencesCounted'
  BY <1>6, <1>s DEF WaitCanceled, capSide, ReferencesCounted, Pending
<1>7. ASSUME NEW q \in WireQuestions, FrameArrives(q) PROVE ReferencesCounted'
  BY <1>7, <1>s DEF FrameArrives, capSide, ReferencesCounted, Pending
<1>8. ASSUME NEW q \in WireQuestions, WireSendFails(q) PROVE ReferencesCounted'
  BY <1>8, <1>s DEF WireSendFails, capSide, ReferencesCounted, Pending, WireTypes
<1>9. ASSUME NEW q \in WireQuestions, NEW answer \in Given \cup {"exception"},
             NEW release \in BOOLEAN, ReturnArrives(q, answer, release)
      PROVE  ReferencesCounted'
  <2>1. wireClosed => Pending' = {} /\ resultCaps' = {} /\ paramGrants' = {}
    BY <1>9 DEF ReturnArrives, Settles, Notes, ReferencesCounted, Pending, WireTypes
  <2>2. CASE q \notin paramGrants
    BY <1>9, <2>1, <2>2, <1>s DEF ReturnArrives, Settles
  <2>3. CASE q \in paramGrants /\ ~release
    <3>1. Held(reference') = Held(reference)
      BY <1>9, <2>3 DEF ReturnArrives, Settles, Held, WireTypes, ReferencePlaced, ReferencesCounted
    <3> QED BY <1>9, <2>1, <2>3, <3>1, <1>s DEF ReturnArrives, Settles
  <2>4. CASE q \in paramGrants /\ release
    <3>1. q \in CallbackCalls /\ ~wireClosed
      BY <2>4 DEF WireTypes, ReferencesCounted
    <3>2. q \in Held(reference)
      BY <2>4, <3>1 DEF Held, ReferencePlaced
    <3>3. reference' = [reference EXCEPT ![q] = "released"] /\ wireClosed' = wireClosed
      BY <1>9, <2>4 DEF ReturnArrives, Settles, Drops
    <3>4. references' = IF references > 0 THEN references - 1 ELSE 0
      BY <1>9, <2>4 DEF ReturnArrives, Settles, Drops
    <3> QED BY <3>1, <3>2, <3>3, <3>4, HeldLess DEF ReferencesCounted
  <2> QED BY <2>2, <2>3, <2>4
<1>10. ASSUME NEW q \in WireQuestions, ReleaseArrives(q) PROVE ReferencesCounted'
  <2>1. q \in CallbackCalls /\ ~wireClosed /\ q \in Held(reference)
    BY <1>10 DEF ReleaseArrives, Held
  <2>2. /\ reference' = [reference EXCEPT ![q] = "released"] /\ wireClosed' = wireClosed
        /\ references' = IF references > 0 THEN references - 1 ELSE 0
    BY <1>10 DEF ReleaseArrives, Drops
  <2> QED BY <2>1, <2>2, HeldLess DEF ReferencesCounted
<1>11. CASE StartSettles
  BY <1>11, <1>s DEF StartSettles, RejectPending, capSide, ReferencesCounted, Pending
<1>12. CASE InboundFails
  BY <1>12 DEF InboundFails, RejectPending, capSide, ReferencesCounted, Pending
<1>13. CASE WireMarkClosed
  <2>1. Pending' = {}
    BY <1>13 DEF WireMarkClosed, RejectPending, Pending
  <2> QED BY <1>13, <2>1 DEF WireMarkClosed, ReferencesCounted
<1> HIDE <1>0
<1> QED BY <1>1, <1>2, <1>3, <1>4, <1>5, <1>6, <1>7, <1>8, <1>9, <1>10, <1>11, <1>12, <1>13
        DEF WireNext, Continues

LEMMA WireInvariant == WireSpec => []WireInv
<1>1. WireInv /\ [WireNext]_wireVars => WireInv'
  BY WirePlainStep, WireCountStep DEF WireInv, WirePlain
<1> QED BY <1>1, InitWireInv, PTL DEF WireSpec

LEMMA WireInvSays == WireInv => WireTypeOK /\ FinishKeepsWhatIsHeld /\ ReferencesAccounted
<1> SUFFICES ASSUME WireInv
             PROVE  WireTypeOK /\ FinishKeepsWhatIsHeld /\ ReferencesAccounted
  OBVIOUS
<1>1. /\ WireTypes /\ StagesKept /\ ReferencePlaced /\ ReferencesCounted
      /\ FinishKeepsWhatIsHeld /\ CallbackCalls \subseteq WireQuestions
  BY DEF WireInv, WireQuestions
<1>2. /\ Cardinality(Held(reference)) \in Nat /\ Cardinality(CallbackCalls) \in Nat
      /\ Cardinality(Held(reference)) <= Cardinality(CallbackCalls)
  <2>1. Held(reference) \subseteq CallbackCalls
    BY DEF Held
  <2> QED BY <2>1, CallbacksFinite, FS_Subset, FS_CardinalityType
<1>3. references \in 0 .. Cardinality(CallbackCalls)
  BY <1>1, <1>2 DEF ReferencesCounted
<1>4. WireTypeOK
  BY <1>1, <1>3 DEF WireTypeOK, WireTypes
<1>5. ReferencesAccounted
  <2>1. CASE wireClosed
    BY <1>1, <2>1 DEF ReferencesAccounted, ReferencesCounted
  <2>2. CASE ~wireClosed
    <3>1. references = Cardinality({q \in CallbackCalls :
                           reference[q] \in {"local", "granted", "peer"}})
      BY <1>1, <2>2 DEF ReferencesCounted, Held
    <3>2. paramGrants = {q \in CallbackCalls : reference[q] = "granted"}
      BY <1>1, <2>2 DEF ReferencePlaced, WireTypes
    <3>3. {q \in CallbackCalls : asking[q] \notin {"idle", "ready", "checked", "turn"}
              /\ q \in reached /\ returned[q] = 0} \subseteq paramGrants
      BY <1>1, <2>2 DEF ReferencePlaced
    <3> QED BY <2>2, <3>1, <3>2, <3>3 DEF ReferencesAccounted
  <2> QED BY <2>1, <2>2
<1> QED BY <1>1, <1>4, <1>5

\* The wire client's Finish releases no capability its caller still holds, and its
\* references are exactly those of the calls and callbacks still open, for every
\* number of calls.
THEOREM ReferencesAccountedHolds == WireSpec => [](FinishKeepsWhatIsHeld /\ ReferencesAccounted)
BY WireInvariant, WireInvSays, PTL

-------------------------------------------------------------------------------
(***************************************************************************)
(* The level-3 handoff.                                                    *)
(***************************************************************************)
\* The types, with one await at most where the type invariant counts them.
HandoffTypes ==
    /\ l3Wait \in [Waits -> {"idle", "listening", "resolved", "rejected", "aborted"}]
    /\ inPending \subseteq Awaits /\ \A v, w \in inPending : v = w
    /\ l3Asked \in Seq(Awaits) /\ l3Open \subseteq Waits /\ l3Closed \in BOOLEAN
    /\ settledBy \in [Waits -> SUBSET Waits]

\* What the module has yet to answer was asked and is not settled by its own event.
OpenUnanswered ==
    /\ \A w \in l3Open : l3Wait[w] # "idle" /\ w \notin settledBy[w]
    /\ \A w \in Waits : l3Wait[w] = "idle" => w \notin settledBy[w]

HandoffInv == HandoffTypes /\ OpenUnanswered /\ HandoffsMatched

LEMMA HandoffInvInit == L3Init => HandoffInv
<1> SUFFICES ASSUME L3Init PROVE HandoffInv
  OBVIOUS
<1>1. l3Asked \in Seq(Awaits)
  BY EmptySeq DEF L3Init
<1>2. HandoffTypes
  BY <1>1 DEF L3Init, HandoffTypes
<1>3. OpenUnanswered /\ HandoffsMatched
  BY DEF L3Init, OpenUnanswered, HandoffsMatched, Listeners, Waits
<1> QED BY <1>2, <1>3 DEF HandoffInv

\* What a listener gets of a frame is one event, the answer to something open.
LEMMA GetsOne == ASSUME NEW events \in Seq(Events), Answerable(events), NEW w \in Waits
                 PROVE  /\ w \notin Listeners => Gets(w, events) = {}
                        /\ \A d, e \in Gets(w, events) : d = e
                        /\ \A e \in Gets(w, events) :
                              /\ e.of \in l3Open /\ e.kind \in {"return", "unreadable", "exception"}
                              /\ Takes(w, e)
                              /\ e.of \in {events[i].of : i \in DOMAIN events}
<1>1. w \notin Listeners => Gets(w, events) = {}
  BY DEF Gets
<1>2. \A i \in DOMAIN events : i \in 1 .. Len(events) /\ events[i] \in Events
  OBVIOUS
<1>3. ASSUME NEW d \in Gets(w, events), NEW e \in Gets(w, events) PROVE d = e
  <2>1. PICK i \in DOMAIN events : d = events[i] /\ Takes(w, d)
                                   /\ \A m \in 1 .. (i - 1) : ~Takes(w, events[m])
    BY <1>3 DEF Gets
  <2>2. PICK j \in DOMAIN events : e = events[j] /\ Takes(w, e)
                                   /\ \A m \in 1 .. (j - 1) : ~Takes(w, events[m])
    BY <1>3 DEF Gets
  <2>3. i \in Nat /\ j \in Nat /\ i > 0 /\ j > 0
    BY <1>2
  <2>4. ~(i < j) /\ ~(j < i)
    BY <2>1, <2>2, <2>3
  <2> QED BY <2>1, <2>2, <2>3, <2>4
<1>4. ASSUME NEW e \in Gets(w, events)
      PROVE  /\ e.of \in l3Open /\ e.kind \in {"return", "unreadable", "exception"} /\ Takes(w, e)
             /\ e.of \in {events[i].of : i \in DOMAIN events}
  BY <1>2, <1>4 DEF Gets, Answerable, Events
<1> QED BY <1>1, <1>3, <1>4

LEMMA PushStep == ASSUME HandoffInv, NEW events \in Seq(Events), PushL3Frame(events)
                  PROVE  HandoffInv'
<1>0. /\ HandoffTypes /\ OpenUnanswered /\ HandoffsMatched
      /\ Answerable(events) /\ Dispatch(events)
      /\ l3Open' = l3Open \ {events[i].of : i \in DOMAIN events}
      /\ inPending' = inPending /\ l3Asked' = l3Asked /\ l3Closed' = l3Closed
  BY DEF HandoffInv, PushL3Frame
<1> DEFINE G(w) == Gets(w, events)
<1>1. /\ \A w \in Waits : w \notin Listeners => G(w) = {}
      /\ \A w \in Waits : \A d, e \in G(w) : d = e
      /\ \A w \in Waits : \A e \in G(w) :
            /\ e.of \in l3Open /\ e.kind \in {"return", "unreadable", "exception"} /\ Takes(w, e)
            /\ e.of \in {events[i].of : i \in DOMAIN events}
  BY <1>0, GetsOne
<1>2. /\ l3Wait' = [w \in Waits |-> IF G(w) = {} THEN l3Wait[w]
                       ELSE IF \E e \in G(w) : e.kind = "return" THEN "resolved"
                       ELSE "rejected"]
      /\ settledBy' = [w \in Waits |-> settledBy[w] \cup {e.of : e \in G(w)}]
  BY <1>0 DEF Dispatch
<1> HIDE DEF G
<1>3. HandoffTypes'
  <2>1. \A w \in Waits : settledBy[w] \cup {e.of : e \in G(w)} \subseteq Waits
    BY <1>0, <1>1 DEF HandoffTypes
  <2>2. settledBy' \in [Waits -> SUBSET Waits]
    BY <1>2, <2>1
  <2>3. l3Wait' \in [Waits -> {"idle", "listening", "resolved", "rejected", "aborted"}]
    BY <1>0, <1>2 DEF HandoffTypes
  <2> QED BY <1>0, <2>2, <2>3 DEF HandoffTypes
<1>4. \A w \in Waits : /\ w \notin Listeners => l3Wait'[w] = l3Wait[w] /\ settledBy'[w] = settledBy[w]
                       /\ l3Wait'[w] = "listening" => l3Wait[w] = "listening"
                       /\ l3Wait[w] = "idle" <=> l3Wait'[w] = "idle"
  BY <1>0, <1>1, <1>2 DEF HandoffTypes, Listeners
<1>5. OpenUnanswered'
  <2>0. \A w \in Waits : l3Wait'[w] = "idle" => w \notin settledBy'[w]
    BY <1>0, <1>4 DEF OpenUnanswered, Listeners
  <2> SUFFICES ASSUME NEW w \in l3Open' PROVE l3Wait'[w] # "idle" /\ w \notin settledBy'[w]
    BY <2>0 DEF OpenUnanswered
  <2>1. w \in l3Open /\ w \in Waits /\ w \notin {events[i].of : i \in DOMAIN events}
    BY <1>0 DEF HandoffTypes
  <2>2. w \notin settledBy'[w]
    BY <1>0, <1>1, <1>2, <2>1 DEF OpenUnanswered
  <2> QED BY <1>0, <1>4, <2>1, <2>2 DEF OpenUnanswered
<1>6. \A a \in Accepts : settledBy'[a] \subseteq {a}
  <2> SUFFICES ASSUME NEW a \in Accepts PROVE settledBy'[a] \subseteq {a}
    OBVIOUS
  <2>1. a \in Waits /\ settledBy[a] \subseteq {a}
    BY <1>0 DEF Waits, HandoffsMatched
  <2>2. \A e \in G(a) : e.of = a
    BY <1>1, <2>1 DEF Takes
  <2> QED BY <1>2, <2>1, <2>2
<1>7. (Listeners \cap Awaits)' \subseteq inPending'
  BY <1>0, <1>4 DEF Listeners, HandoffsMatched
<1>8. ASSUME NEW w \in Awaits, NEW x \in settledBy'[w]
      PROVE  \/ x = w
             \/ x \in Accepts /\ l3Wait'[w] = "rejected"
             \/ x \in Awaits /\ l3Wait'[x] \notin {"idle", "listening"} /\ x \notin settledBy'[x]
  <2>0. w \in Waits
    BY DEF Waits
  <2>1. CASE x \in settledBy[w]
    <3>1. \/ x = w
          \/ x \in Accepts /\ l3Wait[w] = "rejected"
          \/ x \in Awaits /\ l3Wait[x] \notin {"idle", "listening"} /\ x \notin settledBy[x]
      BY <1>0, <2>1 DEF HandoffsMatched
    <3>2. x \in Accepts /\ l3Wait[w] = "rejected" => l3Wait'[w] = "rejected"
      BY <1>4, <2>0 DEF Listeners
    <3>3. CASE x \in Awaits /\ l3Wait[x] \notin {"idle", "listening"} /\ x \notin settledBy[x]
      <4>1. x \in Waits /\ x \notin Listeners
        BY <3>3 DEF Waits, Listeners
      <4> QED BY <1>4, <3>3, <4>1
    <3> QED BY <3>1, <3>2, <3>3
  <2>2. CASE x \notin settledBy[w]
    <3>1. PICK e \in G(w) : x = e.of
      BY <1>2, <1>8, <2>0, <2>2
    <3>2. w \in Listeners /\ x \in l3Open /\ x \in Waits /\ Takes(w, e) /\ G(w) # {}
      BY <1>0, <1>1, <2>0, <3>1 DEF HandoffTypes
    <3>3. w \notin Accepts
      BY L3Assumption
    <3>4. CASE x \in Accepts
      <4>1. e.kind = "exception"
        BY <3>1, <3>2, <3>3, <3>4, L3Assumption DEF Takes
      <4>2. ~\E d \in G(w) : d.kind = "return"
        BY <1>1, <2>0, <3>1, <4>1
      <4> QED BY <1>2, <2>0, <3>2, <3>4, <4>2
    <3>5. CASE x \in Awaits /\ x # w
      <4>1. x \notin Listeners
        BY <1>0, <3>2, <3>5 DEF HandoffsMatched, HandoffTypes
      <4>2. l3Wait[x] # "idle" /\ l3Wait[x] # "listening" /\ x \notin settledBy[x]
        BY <1>0, <3>2, <4>1 DEF OpenUnanswered, Listeners
      <4> QED BY <1>4, <3>2, <3>5, <4>1, <4>2
    <3> QED BY <3>2, <3>4, <3>5 DEF Waits
  <2> QED BY <2>1, <2>2
<1>9. HandoffsMatched'
  BY <1>6, <1>7, <1>8 DEF HandoffsMatched
<1> QED BY <1>3, <1>5, <1>9 DEF HandoffInv

LEMMA HandoffStep == ASSUME HandoffInv, [L3Next]_l3Vars PROVE HandoffInv'
<1> USE DEF HandoffInv, HandoffTypes, OpenUnanswered, HandoffsMatched, Listeners, Waits
<1>1. CASE UNCHANGED l3Vars
  BY <1>1 DEF l3Vars
<1>2. ASSUME NEW a \in Accepts, AcceptProvision(a) PROVE HandoffInv'
  <2>1. a \notin Awaits /\ a \in Waits
    BY L3Assumption
  <2>2. PICK state \in {"listening", "aborted"} : l3Wait' = [l3Wait EXCEPT ![a] = state]
    BY <1>2 DEF AcceptProvision, Listens
  <2>3. /\ l3Open' = l3Open \cup {a} /\ inPending' = inPending /\ l3Asked' = l3Asked
        /\ l3Closed' = l3Closed /\ settledBy' = settledBy /\ l3Wait[a] = "idle"
    BY <1>2 DEF AcceptProvision, Listens
  <2>4. HandoffTypes'
    BY <2>1, <2>2, <2>3
  <2>5. a \notin settledBy[a]
    BY <2>1, <2>3
  <2>6. OpenUnanswered'
    BY <2>1, <2>2, <2>3, <2>5
  <2>7. HandoffsMatched'
    BY <2>1, <2>2, <2>3
  <2> QED BY <2>4, <2>6, <2>7
<1>3. ASSUME NEW w \in Awaits, RegisterAwait(w) PROVE HandoffInv'
  <2>1. l3Asked' \in Seq(Awaits)
    BY <1>3, AppendProperties DEF RegisterAwait
  <2>2. PICK state \in {"listening", "aborted"} : l3Wait' = [l3Wait EXCEPT ![w] = state]
    BY <1>3 DEF RegisterAwait, Listens
  <2>3. /\ l3Open' = l3Open \cup {w} /\ inPending' = {w} /\ inPending = {}
        /\ l3Closed' = l3Closed /\ settledBy' = settledBy /\ l3Wait[w] = "idle"
    BY <1>3 DEF RegisterAwait, Listens
  <2>4. HandoffTypes'
    BY <2>1, <2>2, <2>3
  <2>5. w \notin settledBy[w]
    BY <2>3
  <2>6. OpenUnanswered'
    BY <2>2, <2>3, <2>5
  <2>7. HandoffsMatched'
    BY <2>2, <2>3, L3Assumption
  <2> QED BY <2>4, <2>6, <2>7
<1>4. ASSUME NEW w \in Awaits, AwaitBarred(w) PROVE HandoffInv'
  BY <1>4, L3Assumption DEF AwaitBarred
<1>5. ASSUME NEW w \in Awaits, PendingCleared(w) PROVE HandoffInv'
  BY <1>5 DEF PendingCleared
<1>6. ASSUME NEW w \in Waits, AskRefused(w) PROVE HandoffInv'
  BY <1>6 DEF AskRefused
<1>7. ASSUME NEW w \in Waits, L3Abort(w) PROVE HandoffInv'
  BY <1>7 DEF L3Abort
<1>8. CASE ClosePeer
  BY <1>8 DEF ClosePeer
<1>9. ASSUME NEW events \in BoundedSeq(Events, MaxDrained), PushL3Frame(events)
      PROVE  HandoffInv'
  <2>1. events \in Seq(Events)
    <3>1. PICK m \in 0 .. MaxDrained : events \in [1 .. m -> Events]
      BY <1>9 DEF BoundedSeq, SeqOf
    <3> QED BY <3>1, L3Assumption
  <2> QED BY <1>9, <2>1, PushStep
<1> HIDE DEF HandoffInv
<1> QED BY <1>1, <1>2, <1>3, <1>4, <1>5, <1>6, <1>7, <1>8, <1>9 DEF L3Next

LEMMA HandoffInvariant == L3Spec => []HandoffInv
BY HandoffInvInit, HandoffStep, PTL DEF L3Spec

LEMMA HandoffInvSays == HandoffInv => L3TypeOK /\ HandoffsMatched
<1> SUFFICES ASSUME HandoffInv PROVE L3TypeOK
  BY DEF HandoffInv
<1>1. IsFiniteSet(inPending) /\ Cardinality(inPending) <= 1
  <2>1. CASE inPending = {}
    BY <2>1, FS_EmptySet
  <2>2. ASSUME NEW w \in inPending PROVE IsFiniteSet(inPending) /\ Cardinality(inPending) <= 1
    <3>1. inPending = {w}
      BY <2>2 DEF HandoffInv, HandoffTypes
    <3>2. IsFiniteSet({w}) /\ Cardinality({w}) = 1
      BY FS_Singleton
    <3> QED BY <3>1, <3>2
  <2> QED BY <2>1, <2>2
<1> QED BY <1>1 DEF HandoffInv, HandoffTypes, L3TypeOK

\* An accept of the level-3 handoff ends by its own event; an await by its own, by the
\* failure of an accept, or by the answer to an await that ended without it; and only
\* the await that holds the peer listens: for every number of accepts and awaits.
THEOREM HandoffsMatchedHolds == L3Spec => []HandoffsMatched
BY HandoffInvariant, HandoffInvSays, PTL

-------------------------------------------------------------------------------
(***************************************************************************)
(* The composition: the parts take turns and share no state.               *)
(***************************************************************************)
\* Every behaviour of the composition is one of each part.
LEMMA PartsRun == MCSpec => Spec /\ StreamSpec /\ TransportSpec /\ WireSpec /\ L3Spec
<1>1. MCInit => Init /\ StreamInit /\ TransportInit /\ WireInit /\ L3Init
  BY DEF MCInit
<1>2. [MCNext]_vars => /\ [Next]_outboundVars /\ [StreamNext]_streamVars
                       /\ [TransportNext]_transportVars /\ [WireNext]_wireVars
                       /\ [L3Next]_l3Vars
  BY DEF MCNext, vars, OutboundNext, StreamsNext, TransportsNext, WiresNext, HandoffNext
<1> QED BY <1>1, <1>2, PTL DEF MCSpec, Spec, StreamSpec, TransportSpec, WireSpec, L3Spec

\* createStreamSender: the window is exactly the calls in flight and their bytes,
\* responses are handed over in the order of the sends, and cancel() ends with an
\* empty window, however operations, callbacks and the drain lock interleave.
THEOREM StreamsAlwaysKept == MCSpec => []StreamKept
<1>1. StreamInv => StreamKept
  BY StreamInvSays DEF StreamKept
<1> QED BY <1>1, PartsRun, StreamInvariant, PTL

\* The wire client's Finish releases no capability that its caller holds, and its
\* references are those of the calls still open; no event of the level-3 handoff ends
\* a wait it has nothing to do with; and the tables of all the parts hold what they
\* are for.
THEOREM ReferencesAlwaysKept == MCSpec => []ReferencesKept
<1>1. WireInv /\ HandoffInv /\ IInv /\ TransportTypeOK => ReferencesKept
  BY WireInvSays, HandoffInvSays DEF IInv, ReferencesKept
<1> QED BY <1>1, PartsRun, WireInvariant, HandoffInvariant, OutboundInvariant, TransportTypes, PTL
===============================================================================
