------------------------------- MODULE FramePump -------------------------------
(* What RpcSession promises of the frames it pumps, whatever its transport, its *)
(* peer and its queues do: inbound frames are settled one after the other in    *)
(* the order of their delivery, outbound frames are handed over in the order    *)
(* they were produced and each one while the frame it answers is in turn, and   *)
(* close() lets the frames delivered before it settle, and nothing follows it.  *)
EXTENDS Naturals, Sequences

CONSTANTS MaxDelivered, MaxProduced   \* bounds on frames

VARIABLES
    delivered,  \* inbound frames
    settled,    \* how many of them have their outcome
    out,        \* outbound frames: the frame they answer, their place
    closing,    \* open, asked or shut
    due         \* frames that close() waits for

framePumpVars == <<delivered, settled, out, closing, due>>

PumpInit ==
    /\ delivered = 0 /\ settled = 0 /\ out = <<>>
    /\ closing = "open" /\ due = 0

Deliver ==
    /\ delivered < MaxDelivered
    /\ delivered' = delivered + 1
    /\ UNCHANGED <<settled, out, closing, due>>

HandOver(n, place) ==
    /\ closing # "shut"
    /\ n = 0 \/ n = settled + 1
    /\ n <= delivered
    /\ \A i \in DOMAIN out : out[i].seq < place
    /\ out' = Append(out, [of |-> n, seq |-> place])
    /\ UNCHANGED <<delivered, settled, closing, due>>

SettleNext ==
    /\ settled < delivered
    /\ settled' = settled + 1
    /\ UNCHANGED <<delivered, out, closing, due>>

AskClose ==
    /\ closing = "open"
    /\ closing' = "asked" /\ due' = delivered
    /\ UNCHANGED <<delivered, settled, out>>

Shut ==
    /\ closing = "asked" /\ settled >= due
    /\ closing' = "shut"
    /\ UNCHANGED <<delivered, settled, out, due>>

PumpNext ==
    \/ Deliver \/ SettleNext \/ AskClose \/ Shut
    \/ \E n \in 0 .. MaxDelivered, place \in 1 .. MaxProduced : HandOver(n, place)

PumpSpec == PumpInit /\ [][PumpNext]_framePumpVars
                     /\ WF_framePumpVars(SettleNext) /\ WF_framePumpVars(Shut)
=============================================================================
