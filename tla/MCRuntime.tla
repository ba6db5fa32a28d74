------------------------------- MODULE MCRuntime -------------------------------
(* Three systems side by side for one run: an RpcSession by itself, whose       *)
(* transport delivers ahead and whose sends, pushes and handlers fail; a        *)
(* runtime on which the application pumps host calls too; and a runtime on      *)
(* which nothing fails, for what must happen in the end.  The constants of the  *)
(* configuration are the largest values of the three.                           *)
EXTENDS ServerRuntime

VARIABLE subject

Alone == INSTANCE RpcSession WITH
    AwaitsFrames <- FALSE, ErrorsHandled <- BOOLEAN, PushMayFail <- TRUE,
    SendMayFail <- TRUE, RemoteMayClose <- TRUE, DefersSends <- FALSE, MaxStarts <- 2,
    MaxReplies <- 1, MaxHostReplies <- 1

Pumped == INSTANCE ServerRuntime WITH
    ManualPump <- TRUE, MaxReplies <- 1, MaxHostReplies <- 1, MaxStarts <- 1,
    MaxCallsPerInboundFrame <- 1, MaxCallsTotal <- 2, BridgeMayRefuse <- FALSE, FrameKinds <- {"call"}

Live == INSTANCE ServerRuntime WITH MaxReplies <- 1, MaxStarts <- 1

vars == <<runtimeVars, subject>>

MCInit == Init /\ subject \in {"session", "pumped", "live"}

AloneNext ==
    /\ subject = "session"
    /\ Alone!Next
    /\ UNCHANGED <<hookVars, callVars, flushing, wire>>
PumpedNext ==
    /\ subject = "pumped" /\ Pumped!RuntimeNext
    /\ arrived' < 3 /\ (closed' => arrived' < 2)
LiveNext ==
    /\ subject = "live" /\ Live!RuntimeNext
    /\ arrived' < 3 /\ (closed' => closed \/ hookStage' = "closing")

MCNext == /\ AloneNext \/ PumpedNext \/ LiveNext
          /\ UNCHANGED subject

\* The fairness of the systems that have one.
MCFairness ==
    /\ WF_vars(/\ subject = "session"
               /\ Alone!PumpStep \/ Alone!CloseStep
               /\ UNCHANGED <<hookVars, callVars, flushing, wire, subject>>)
    /\ WF_vars(/\ subject = "pumped"
               /\ \/ Pumped!HookStep
                  \/ \E k \in 0 .. 1 : Pumped!HookBeginPump(k)
                  \/ Pumped!CloseStep /\ UNCHANGED <<hookVars, callVars, flushing, wire>>
               /\ UNCHANGED subject)
    /\ WF_vars(subject = "live" /\ Live!HookStep /\ UNCHANGED subject)
    /\ WF_vars(/\ subject = "live"
               /\ \E k \in 0 .. 1 : Live!HookBeginPump(k)
               /\ UNCHANGED subject)
    /\ WF_vars(/\ subject = "live" /\ Live!CloseStep
               /\ UNCHANGED <<hookVars, callVars, flushing, wire, subject>>)
    /\ \A p \in Pumps : WF_vars(subject = "live" /\ Live!PumpAction(p) /\ UNCHANGED subject)
    /\ \A f \in Flushers :
           WF_vars(subject = "live" /\ (Live!FlushSend(f) \/ Live!FlushFails(f)) /\ UNCHANGED subject)
    /\ \A c \in Frames : WF_vars(subject = "live" /\ Live!HandlerStep(c) /\ UNCHANGED subject)

MCSpec == MCInit /\ [][MCNext]_vars /\ MCFairness

\* When nothing fails and nobody closes, what the peer produced reaches the wire,
\* and a call it handed to the host is dispatched and its answer flushed
\* (FramesReachWire and CallsAnswered of the system that is fair).
AnswersArrive ==
    /\ \A s \in 1 .. 4 :
           (subject = "live" /\ produced >= s) ~> (closed \/ hookError \/ s \in OnWire)
    /\ \A c \in Frames :
           (subject = "live" /\ \E i \in DOMAIN hostCalls : hostCalls[i] = c)
               ~> (handler[c] = "done" \/ closed \/ hookError \/ pumpDisabled)
=============================================================================
