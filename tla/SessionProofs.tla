----------------------------- MODULE SessionProofs -----------------------------
(* Proofs about a session, by itself and inside the server runtime, for every  *)
(* number of frames, replies and host answers: what is sent is sent in order,  *)
(* nothing stays behind in a queue, every step of the session is a step of a   *)
(* FramePump or none, and the runtime's wire carries each frame once, bootstrap *)
(* answers after the bridge observed them.                                     *)
EXTENDS ServerRuntime, SequenceTheorems, FiniteSetTheorems, TLAPS

InOrder(s) == \A i, j \in 1 .. Len(s) : i < j => s[i].seq < s[j].seq
Before(s, t) == \A i \in 1 .. Len(s), j \in 1 .. Len(t) : s[i].seq < t[j].seq
Within(s, n) == \A i \in 1 .. Len(s) : s[i].seq \in 1 .. n
Answering(s, ns) == \A i \in 1 .. Len(s) : s[i].of \in ns

\* Frames leave the peer in the order of their production: what was sent comes
\* before what the pump holds, and that before what the peer still has.
OrderInv ==
    /\ InOrder(sent) /\ InOrder(sending) /\ InOrder(queue)
    /\ Before(sent, sending) /\ Before(sent, queue) /\ Before(sending, queue)
    /\ Within(sent, produced) /\ Within(sending, produced)
    /\ Within(queue, produced)
    /\ ~pumping => sending = <<>>

(***************************************************************************)
(* Lemmas about sequences of outbound frames.                              *)
(***************************************************************************)
\* What a push makes the peer produce is numbered from where it was.
LEMMA RepliesMade ==
    ASSUME NEW n \in 0 .. MaxFrames, NEW k \in Nat, produced \in Nat
    PROVE  /\ Replies(n, k) \in Seq(Outbound)
           /\ Len(Replies(n, k)) = k
           /\ \A i \in 1 .. k : Replies(n, k)[i] = [of |-> n, seq |-> produced + i]
<1>1. \A i \in 1 .. k : [of |-> n, seq |-> produced + i] \in Outbound
  BY DEF Outbound
<1>2. Replies(n, k) \in [1 .. k -> Outbound]
  BY <1>1 DEF Replies
<1>3. Replies(n, k) \in Seq(Outbound)
  BY <1>2, SeqDef
<1>4. DOMAIN Replies(n, k) = 1 .. k
  BY DEF Replies
<1>5. Len(Replies(n, k)) = k
  BY <1>3, <1>4, LenProperties
<1> QED BY <1>3, <1>5 DEF Replies

\* A push appends to a queue in order a queue in order.
LEMMA MadeInOrder ==
    ASSUME NEW n \in 0 .. MaxFrames, NEW k \in Nat, TypeOK, OrderInv
    PROVE  LET made == queue \o Replies(n, k)
           IN /\ made \in Seq(Outbound)
              /\ Len(made) = Len(queue) + k
              /\ InOrder(made) /\ Before(sent, made)
              /\ Within(made, produced + k)
              /\ Answering(queue, {0}) => Answering(made, {0, n})
<1> DEFINE new == Replies(n, k)
           made == queue \o new
<1>1. /\ new \in Seq(Outbound) /\ Len(new) = k
      /\ \A i \in 1 .. k : new[i] = [of |-> n, seq |-> produced + i]
  BY RepliesMade DEF TypeOK
<1>2. /\ made \in Seq(Outbound)
      /\ Len(made) = Len(queue) + k
      /\ \A i \in 1 .. Len(queue) + k :
             made[i] = IF i <= Len(queue) THEN queue[i] ELSE new[i - Len(queue)]
  <2> HIDE DEF new
  <2>1. queue \in Seq(Outbound) /\ new \in Seq(Outbound) /\ Len(new) = k
    BY <1>1 DEF TypeOK
  <2> QED BY ONLY <2>1, ConcatProperties, Zenon
<1>3. Len(queue) \in Nat /\ Len(sent) \in Nat /\ produced \in Nat
  BY LenProperties DEF TypeOK
<1>4. \A i \in 1 .. Len(made) :
          \/ i \in 1 .. Len(queue) /\ made[i] = queue[i]
          \/ i \notin 1 .. Len(queue) /\ i - Len(queue) \in 1 .. k
             /\ made[i].of = n /\ made[i].seq = produced + i - Len(queue)
  <2> TAKE i \in 1 .. Len(made)
  <2>1. CASE i <= Len(queue)
    BY <2>1, <1>2, <1>3
  <2>2. CASE ~(i <= Len(queue))
    <3>1. i - Len(queue) \in 1 .. k
      BY <2>2, <1>2, <1>3
    <3>2. made[i] = new[i - Len(queue)]
      BY <2>2, <1>2, <1>3
    <3>3. made[i] = [of |-> n, seq |-> produced + (i - Len(queue))]
      BY <3>1, <3>2, <1>1
    <3> QED BY <3>1, <3>3, <2>2, <1>3
  <2> QED BY <2>1, <2>2
<1> HIDE DEF made, new
<1>5. InOrder(made)
  <2> SUFFICES ASSUME NEW i \in 1 .. Len(made), NEW j \in 1 .. Len(made), i < j
               PROVE  made[i].seq < made[j].seq
    BY DEF InOrder
  <2>1. Len(made) \in Nat
    BY <1>2, <1>3 DEF made
  <2>2. CASE j \in 1 .. Len(queue)
    <3>1. i \in 1 .. Len(queue)
      BY <2>1, <2>2, <1>3
    <3>2. made[i] = queue[i] /\ made[j] = queue[j]
      BY <3>1, <2>2, <1>4
    <3> QED BY <3>1, <3>2, <2>2 DEF OrderInv, InOrder
  <2>3. CASE j \notin 1 .. Len(queue)
    <3>1. made[j].seq = produced + j - Len(queue) /\ j - Len(queue) \in 1 .. k
      BY <2>3, <1>4
    <3>2. CASE i \in 1 .. Len(queue)
      <4>1. made[i].seq \in 1 .. produced
        BY <3>2, <1>4 DEF OrderInv, Within
      <4> QED BY <4>1, <3>1, <2>1, <1>3
    <3>3. CASE i \notin 1 .. Len(queue)
      <4>1. made[i].seq = produced + i - Len(queue)
        BY <3>3, <1>4
      <4> QED BY <4>1, <3>1, <2>1, <1>3
    <3> QED BY <3>2, <3>3
  <2> QED BY <2>2, <2>3
<1>6. Before(sent, made)
  <2> SUFFICES ASSUME NEW i \in 1 .. Len(sent), NEW j \in 1 .. Len(made)
               PROVE  sent[i].seq < made[j].seq
    BY DEF Before
  <2>1. CASE j \in 1 .. Len(queue)
    BY <2>1, <1>4 DEF OrderInv, Before
  <2>2. CASE j \notin 1 .. Len(queue)
    <3>1. sent[i].seq \in 1 .. produced
      BY DEF OrderInv, Within
    <3>2. made[j].seq = produced + j - Len(queue) /\ j - Len(queue) \in 1 .. k
      BY <2>2, <1>4
    <3> QED BY <3>1, <3>2, <1>3
  <2> QED BY <2>1, <2>2
<1>7. Within(made, produced + k)
  <2> SUFFICES ASSUME NEW j \in 1 .. Len(made)
               PROVE  made[j].seq \in 1 .. produced + k
    BY DEF Within
  <2>1. CASE j \in 1 .. Len(queue)
    <3>1. made[j].seq \in 1 .. produced
      BY <2>1, <1>4 DEF OrderInv, Within
    <3> QED BY <3>1, <1>3
  <2>2. CASE j \notin 1 .. Len(queue)
    <3>1. made[j].seq = produced + j - Len(queue) /\ j - Len(queue) \in 1 .. k
      BY <2>2, <1>4
    <3> QED BY <3>1, <1>3
  <2> QED BY <2>1, <2>2
<1>8. Answering(queue, {0}) => Answering(made, {0, n})
  BY <1>4 DEF Answering
<1> QED BY <1>2, <1>5, <1>6, <1>7, <1>8 DEF made, new

\* A sequence in order, cut in two, gives two sequences in order, the first
\* before the second.
LEMMA CutInOrder ==
    ASSUME NEW s \in Seq(Outbound), NEW t \in Seq(Outbound), NEW n \in Nat,
           NEW d \in 0 .. Len(s), NEW ns,
           InOrder(s), Before(t, s), Within(s, n)
    PROVE  LET a == SubSeq(s, 1, d)
               b == SubSeq(s, d + 1, Len(s))
           IN /\ a \in Seq(Outbound) /\ b \in Seq(Outbound)
              /\ Len(a) = d /\ Len(b) = Len(s) - d
              /\ InOrder(a) /\ InOrder(b)
              /\ Before(a, b) /\ Before(t, a) /\ Before(t, b)
              /\ Within(a, n) /\ Within(b, n)
              /\ Answering(s, ns) => Answering(a, ns)
<1> DEFINE a == SubSeq(s, 1, d)
           b == SubSeq(s, d + 1, Len(s))
<1>0. Len(s) \in Nat /\ Len(t) \in Nat
  BY LenProperties
<1>1. /\ a \in Seq(Outbound) /\ Len(a) = d
      /\ \A i \in 1 .. d : a[i] = s[i]
  <2>1. \A i \in 1 .. d : s[i] \in Outbound
    BY <1>0, ElementOfSeq
  <2> QED BY <1>0, <2>1, SubSeqProperties, Z3
<1>2. /\ b \in Seq(Outbound) /\ Len(b) = Len(s) - d
      /\ \A i \in 1 .. Len(s) - d : b[i] = s[d + i]
  <2>1. \A i \in d + 1 .. Len(s) : s[i] \in Outbound
    BY <1>0, ElementOfSeq
  <2> QED BY <1>0, <2>1, SubSeqProperties, Z3
<1> HIDE DEF a, b
<1>3. \A i \in 1 .. Len(a) : i \in 1 .. Len(s) /\ a[i] = s[i] /\ i <= d
  BY <1>0, <1>1
<1>4. \A i \in 1 .. Len(b) : d + i \in 1 .. Len(s) /\ b[i] = s[d + i] /\ i > 0
  BY <1>0, <1>2
<1>5. InOrder(a) /\ InOrder(b)
  <2>1. ASSUME NEW i \in 1 .. Len(a), NEW j \in 1 .. Len(a), i < j
        PROVE  a[i].seq < a[j].seq
    BY <2>1, <1>3 DEF InOrder
  <2>2. ASSUME NEW i \in 1 .. Len(b), NEW j \in 1 .. Len(b), i < j
        PROVE  b[i].seq < b[j].seq
    <3>1. d + i < d + j
      BY <2>2, <1>0, <1>2
    <3> QED BY <3>1, <1>4 DEF InOrder
  <2> QED BY <2>1, <2>2 DEF InOrder
<1>6. Before(a, b)
  <2> SUFFICES ASSUME NEW i \in 1 .. Len(a), NEW j \in 1 .. Len(b)
               PROVE  a[i].seq < b[j].seq
    BY DEF Before
  <2>1. i < d + j
    BY <1>0, <1>1, <1>2
  <2> QED BY <2>1, <1>3, <1>4 DEF InOrder
<1>7. Before(t, a) /\ Before(t, b)
  BY <1>0, <1>1, <1>2, <1>3, <1>4 DEF Before
<1>8. Within(a, n) /\ Within(b, n)
  BY <1>3, <1>4 DEF Within
<1>9. Answering(s, ns) => Answering(a, ns)
  BY <1>3 DEF Answering
<1> QED BY <1>1, <1>2, <1>5, <1>6, <1>7, <1>8, <1>9 DEF a, b

(***************************************************************************)
(* What each step does to the sequences.                                   *)
(***************************************************************************)
\* A push hands the front of the peer's queue to the pump: both stay in order.
LEMMA PushKeepsOrder ==
    ASSUME TypeOK, OrderInv, NEW n \in 0 .. MaxFrames, NEW k \in Nat,
           ~pumping, PushFrame(n, k), pumping' = TRUE, UNCHANGED sent
    PROVE  /\ OrderInv'
           /\ queue' \in Seq(Outbound) /\ sending' \in Seq(Outbound)
           /\ produced' \in Nat
<1> DEFINE made == queue \o Replies(n, k)
           d == IF Len(made) < DrainLimit THEN Len(made) ELSE DrainLimit
<1>1. /\ made \in Seq(Outbound) /\ InOrder(made) /\ Before(sent, made)
      /\ Within(made, produced + k)
  BY MadeInOrder
<1>2. /\ sending' = SubSeq(made, 1, d)
      /\ queue' = SubSeq(made, d + 1, Len(made))
      /\ produced' = produced + k
  BY DEF PushFrame
<1> HIDE DEF made
<1>3. d \in 0 .. Len(made)
  BY <1>1, LenProperties, BoundsAssumption
<1>4. sent \in Seq(Outbound) /\ produced \in Nat /\ produced + k \in Nat
  BY DEF TypeOK
<1> HIDE DEF d
<1>5. /\ sending' \in Seq(Outbound) /\ queue' \in Seq(Outbound)
      /\ InOrder(sending') /\ InOrder(queue')
      /\ Before(sending', queue') /\ Before(sent, sending') /\ Before(sent, queue')
      /\ Within(sending', produced + k) /\ Within(queue', produced + k)
  BY <1>1, <1>2, <1>3, <1>4, CutInOrder
<1>6. Within(sent, produced + k)
  <2> SUFFICES ASSUME NEW i \in 1 .. Len(sent)
               PROVE  sent[i].seq \in 1 .. produced + k
    BY DEF Within
  <2>1. sent[i].seq \in 1 .. produced
    BY DEF OrderInv, Within
  <2> QED BY <2>1, <1>4
<1> QED BY <1>2, <1>4, <1>5, <1>6 DEF OrderInv

\* When everything fits in one drain, the queue is emptied.
LEMMA PushDrains ==
    ASSUME TypeOK, OrderInv, NEW n \in 0 .. MaxFrames, NEW k \in Nat,
           PushFrame(n, k), Answering(queue, {0}), Len(queue) + k <= DrainLimit
    PROVE  queue' = <<>> /\ Answering(sending', {0, n})
<1> DEFINE made == queue \o Replies(n, k)
<1>1. /\ made \in Seq(Outbound) /\ Len(made) = Len(queue) + k
      /\ InOrder(made) /\ Before(sent, made) /\ Within(made, produced + k)
      /\ Answering(made, {0, n})
  BY MadeInOrder
<1>2. Len(made) \in Nat /\ Len(made) <= DrainLimit
  BY <1>1, LenProperties
<1>3. (IF Len(made) < DrainLimit THEN Len(made) ELSE DrainLimit) = Len(made)
  BY <1>2, BoundsAssumption
<1>4. /\ sending' = SubSeq(made, 1, Len(made))
      /\ queue' = SubSeq(made, Len(made) + 1, Len(made))
  BY <1>3 DEF PushFrame
<1> HIDE DEF made
<1>5. queue' = <<>>
  BY <1>2, <1>4, SubSeqEmpty
<1>6. sent \in Seq(Outbound) /\ produced + k \in Nat /\ Len(made) \in 0 .. Len(made)
  BY <1>2 DEF TypeOK
<1>7. Answering(sending', {0, n})
  BY <1>1, <1>4, <1>6, CutInOrder
<1> QED BY <1>5, <1>7

\* Handing over the head of what the pump holds keeps everything in order.
LEMMA HandOverKeepsOrder ==
    ASSUME TypeOK, OrderInv, pumping, sending # <<>>,
           sent' = Append(sent, Head(sending)), sending' = Tail(sending),
           UNCHANGED <<queue, produced, pumping>>
    PROVE  /\ OrderInv'
           /\ sent' \in Seq(Outbound) /\ sending' \in Seq(Outbound)
           /\ \A ns : Answering(sending, ns) => Answering(sending', ns)
<1>1. /\ Head(sending) \in Outbound /\ Head(sending) = sending[1]
      /\ sending' \in Seq(Outbound) /\ Len(sending') = Len(sending) - 1
      /\ \A i \in 1 .. Len(sending') : sending'[i] = sending[i + 1]
  <2>1. sending \in Seq(Outbound)
    BY DEF TypeOK
  <2>2. Head(sending) = sending[1]
    BY <2>1
  <2> QED BY <2>1, <2>2, HeadTailProperties
<1>2. /\ sent' \in Seq(Outbound) /\ Len(sent') = Len(sent) + 1
      /\ \A i \in 1 .. Len(sent) : sent'[i] = sent[i]
      /\ sent'[Len(sent) + 1] = sending[1]
  <2>1. sent \in Seq(Outbound) /\ sending[1] \in Outbound
    BY <1>1 DEF TypeOK
  <2> QED BY <2>1, <1>1, AppendProperties
<1>3. Len(sent) \in Nat /\ Len(sending) \in Nat /\ Len(queue) \in Nat
      /\ Len(sending) >= 1 /\ produced \in Nat
  BY EmptySeq, LenProperties DEF TypeOK
<1>4. \A i \in 1 .. Len(sending') :
          i + 1 \in 1 .. Len(sending) /\ sending'[i] = sending[i + 1]
  BY <1>1, <1>3
<1>5. \A i \in 1 .. Len(sent') :
          \/ i \in 1 .. Len(sent) /\ sent'[i] = sent[i]
          \/ i = Len(sent) + 1 /\ sent'[i] = sending[1]
  BY <1>2, <1>3
<1>6. 1 \in 1 .. Len(sending)
  BY <1>3
<1>7. InOrder(sent')
  <2> SUFFICES ASSUME NEW i \in 1 .. Len(sent'), NEW j \in 1 .. Len(sent'), i < j
               PROVE  sent'[i].seq < sent'[j].seq
    BY DEF InOrder
  <2>1. i \in 1 .. Len(sent) /\ sent'[i] = sent[i]
    BY <1>2, <1>3, <1>5
  <2>2. CASE j \in 1 .. Len(sent)
    BY <2>1, <2>2, <1>5, <1>2 DEF OrderInv, InOrder
  <2>3. CASE j = Len(sent) + 1
    BY <2>1, <2>3, <1>2, <1>6 DEF OrderInv, Before
  <2> QED BY <1>5, <2>2, <2>3
<1>8. InOrder(sending')
  <2> SUFFICES ASSUME NEW i \in 1 .. Len(sending'), NEW j \in 1 .. Len(sending'),
                      i < j
               PROVE  sending'[i].seq < sending'[j].seq
    BY DEF InOrder
  <2>1. i + 1 < j + 1
    OBVIOUS
  <2> QED BY <2>1, <1>4 DEF OrderInv, InOrder
<1>9. Before(sent', sending')
  <2> SUFFICES ASSUME NEW i \in 1 .. Len(sent'), NEW j \in 1 .. Len(sending')
               PROVE  sent'[i].seq < sending'[j].seq
    BY DEF Before
  <2>1. CASE i \in 1 .. Len(sent) /\ sent'[i] = sent[i]
    BY <2>1, <1>4 DEF OrderInv, Before
  <2>2. CASE i = Len(sent) + 1 /\ sent'[i] = sending[1]
    <3>1. 1 < j + 1
      OBVIOUS
    <3> QED BY <3>1, <2>2, <1>4, <1>6 DEF OrderInv, InOrder
  <2> QED BY <1>5, <2>1, <2>2
<1>10. Before(sent', queue) /\ Within(sent', produced)
  BY <1>5, <1>6 DEF OrderInv, Before, Within
<1>11. Before(sending', queue) /\ Within(sending', produced)
  BY <1>4 DEF OrderInv, Before, Within
<1>12. \A ns : Answering(sending, ns) => Answering(sending', ns)
  BY <1>4 DEF Answering
<1> QED BY <1>1, <1>2, <1>7, <1>8, <1>9, <1>10, <1>11, <1>12 DEF OrderInv

\* A host's answer joins the peer's queue behind all there is.
LEMMA HostReplyKeepsOrder ==
    ASSUME TypeOK, OrderInv, HostReply
    PROVE  /\ OrderInv'
           /\ queue' \in Seq(Outbound) /\ Len(queue') = Len(queue) + 1
           /\ Answering(queue, {0}) => Answering(queue', {0})
<1> DEFINE e == [of |-> 0, seq |-> produced + 1]
<1>1. e \in Outbound /\ queue \in Seq(Outbound) /\ produced \in Nat
  BY BoundsAssumption DEF TypeOK, Outbound
<1>2. /\ queue' = Append(queue, e) /\ produced' = produced + 1
      /\ UNCHANGED <<sent, sending, pumping>>
  BY DEF HostReply, pumpVars
<1>3. e.of = 0 /\ e.seq = produced + 1
  OBVIOUS
<1> HIDE DEF e
<1>4. /\ queue' \in Seq(Outbound) /\ Len(queue') = Len(queue) + 1
      /\ \A i \in 1 .. Len(queue) : queue'[i] = queue[i]
      /\ queue'[Len(queue) + 1] = e
  BY <1>1, <1>2, AppendProperties
<1>5. Len(queue) \in Nat
  BY <1>1, LenProperties
<1>6. \A i \in 1 .. Len(queue') :
          \/ i \in 1 .. Len(queue) /\ queue'[i] = queue[i]
          \/ i = Len(queue) + 1 /\ queue'[i] = e
  BY <1>4, <1>5
<1>7. \A s : Within(s, produced) =>
          Within(s, produced + 1) /\ \A i \in 1 .. Len(s) : s[i].seq < produced + 1
  BY <1>1 DEF Within
<1>8. Within(sent, produced + 1) /\ Within(sending, produced + 1)
  BY <1>7 DEF OrderInv
<1>9. Within(queue', produced + 1)
  <2>1. \A i \in 1 .. Len(queue) : queue[i].seq \in 1 .. produced + 1
    BY <1>7 DEF OrderInv, Within
  <2>2. produced + 1 \in 1 .. produced + 1
    BY <1>1
  <2> QED BY <2>1, <2>2, <1>6, <1>3 DEF Within
<1>10. Before(sent, queue') /\ Before(sending, queue')
  <2>1. ASSUME NEW s, Within(s, produced), Before(s, queue) PROVE Before(s, queue')
    <3> SUFFICES ASSUME NEW i \in 1 .. Len(s), NEW j \in 1 .. Len(queue')
                 PROVE  s[i].seq < queue'[j].seq
      BY DEF Before
    <3>1. CASE j \in 1 .. Len(queue) /\ queue'[j] = queue[j]
      BY <2>1, <3>1 DEF Before
    <3>2. CASE j = Len(queue) + 1 /\ queue'[j] = e
      BY <2>1, <3>2, <1>3, <1>7
    <3> QED BY <3>1, <3>2, <1>6
  <2> QED BY <2>1 DEF OrderInv
<1>11. InOrder(queue')
  <2> SUFFICES ASSUME NEW i \in 1 .. Len(queue'), NEW j \in 1 .. Len(queue'), i < j
               PROVE  queue'[i].seq < queue'[j].seq
    BY DEF InOrder
  <2>1. i \in 1 .. Len(queue) /\ queue'[i] = queue[i]
    BY <1>4, <1>5, <1>6
  <2>2. CASE j \in 1 .. Len(queue)
    BY <2>1, <2>2, <1>4 DEF OrderInv, InOrder
  <2>3. CASE j = Len(queue) + 1
    BY <2>1, <2>3, <1>3, <1>4, <1>7 DEF OrderInv
  <2> QED BY <1>6, <2>2, <2>3
<1>12. Answering(queue, {0}) => Answering(queue', {0})
  BY <1>6, <1>3 DEF Answering
<1> QED BY <1>2, <1>4, <1>8, <1>9, <1>10, <1>11, <1>12 DEF OrderInv

(***************************************************************************)
(* Types and order, for every drain limit.                                 *)
(***************************************************************************)
LEMMA InitTyped == SessionInit => TypeOK /\ OrderInv
<1> SUFFICES ASSUME SessionInit PROVE TypeOK /\ OrderInv
  OBVIOUS
<1>1. queue \in Seq(Outbound) /\ sending \in Seq(Outbound) /\ sent \in Seq(Outbound)
      /\ Len(queue) = 0 /\ Len(sending) = 0 /\ Len(sent) = 0
  BY EmptySeq DEF SessionInit
<1>2. TypeOK
  <2>1. outcome \in [Frames -> Outcomes]
    BY DEF SessionInit, Outcomes
  <2>2. flushUpTo \in 0 .. MaxFrames /\ starts \in 0 .. MaxStarts
        /\ arrived \in 0 .. MaxFrames /\ begun \in 0 .. arrived
        /\ produced \in Nat /\ hostReplies \in 0 .. MaxHostReplies
    BY BoundsAssumption DEF SessionInit
  <2> QED BY <1>1, <2>1, <2>2 DEF SessionInit, TypeOK, Stages
<1>3. OrderInv
  BY <1>1 DEF SessionInit, OrderInv, InOrder, Before, Within
<1> QED BY <1>2, <1>3

\* A frame's failure is one of the outcomes.
LEMMA FailTyped ==
    ASSUME TypeOK, NEW n \in Nat, NEW result \in Outcomes, Fail(n, result)
    PROVE  outcome' \in [Frames -> Outcomes] /\ rejected' \in BOOLEAN
BY ModeAssumption DEF TypeOK, Fail, Outcomes

LEMMA StepTyped == ASSUME TypeOK, OrderInv, [Next]_sessionVars
                   PROVE  TypeOK' /\ OrderInv'
<1> USE DEF sessionVars, lifeVars, pumpVars, peerVars
<1> DEFINE Seqs == <<queue, sending, sent, produced, pumping>>
<1>0. UNCHANGED Seqs => OrderInv'
  BY DEF OrderInv, InOrder, Before, Within
<1>1. CASE UNCHANGED sessionVars
  BY <1>1, <1>0 DEF TypeOK
<1>2. CASE StartBegin
  BY <1>2, <1>0, BoundsAssumption DEF TypeOK, StartBegin
<1>3. CASE StartEnd
  BY <1>3, <1>0 DEF TypeOK, StartEnd
<1>4. CASE Arrive
  BY <1>4, <1>0, BoundsAssumption DEF TypeOK, Arrive
<1>5. CASE SkipFrame
  <2>1. begun + 1 \in Nat /\ "refused" \in Outcomes
    BY BoundsAssumption DEF TypeOK, Outcomes
  <2>2. outcome' \in [Frames -> Outcomes] /\ rejected' \in BOOLEAN
    BY <1>5, <2>1, FailTyped DEF TypeOK, SkipFrame
  <2> QED BY <1>5, <1>0, <2>2, BoundsAssumption DEF TypeOK, SkipFrame
<1>6. ASSUME NEW k \in 0 .. MaxReplies, BeginPump(k)
      PROVE  TypeOK' /\ OrderInv'
  <2>1. begun + 1 \in 0 .. MaxFrames /\ begun + 1 \in 0 .. arrived /\ k \in Nat
    BY <1>6, BoundsAssumption DEF TypeOK, BeginPump
  <2>2. CASE /\ PushFrame(begun + 1, k) /\ pumping' = TRUE
             /\ UNCHANGED <<outcome, rejected>>
    <3>1. /\ OrderInv'
          /\ queue' \in Seq(Outbound) /\ sending' \in Seq(Outbound)
          /\ produced' \in Nat
      BY <1>6, <2>1, <2>2, PushKeepsOrder DEF BeginPump
    <3>2. UNCHANGED hostReplies
      BY <2>2 DEF PushFrame
    <3> QED BY <1>6, <2>1, <2>2, <3>1, <3>2 DEF TypeOK, BeginPump
  <2>3. CASE Fail(begun + 1, "failed") /\ UNCHANGED <<pumping, sending, peerVars>>
    <3>1. outcome' \in [Frames -> Outcomes] /\ rejected' \in BOOLEAN
      BY <2>1, <2>3, FailTyped DEF Outcomes
    <3> QED BY <1>6, <1>0, <2>1, <2>3, <3>1 DEF TypeOK, BeginPump
  <2> QED BY <1>6, <2>2, <2>3 DEF BeginPump
<1>7. CASE PumpSend
  BY <1>7, HandOverKeepsOrder DEF TypeOK, PumpSend
<1>8. CASE PumpSendFails
  <2>1. outcome' \in [Frames -> Outcomes] /\ rejected' \in BOOLEAN
    <3>1. begun \in Nat /\ "failed" \in Outcomes
      BY BoundsAssumption DEF TypeOK, Outcomes
    <3> QED BY <1>8, <3>1, FailTyped DEF PumpSendFails
  <2>2. sending' = <<>> /\ Len(sending') = 0 /\ sending' \in Seq(Outbound)
    BY <1>8, EmptySeq DEF PumpSendFails
  <2>3. OrderInv'
    BY <1>8, <2>2 DEF OrderInv, InOrder, Before, Within, PumpSendFails
  <2> QED BY <1>8, <2>1, <2>2, <2>3 DEF TypeOK, PumpSendFails
<1>9. CASE PumpEnd
  <2>1. OrderInv'
    BY <1>9 DEF OrderInv, InOrder, Before, Within, PumpEnd
  <2> QED BY <1>9, <2>1 DEF TypeOK, PumpEnd, Outcomes
<1>10. CASE Close
  BY <1>10, <1>0, BoundsAssumption DEF TypeOK, Close, Stages
<1>11. CASE CloseTransport
  BY <1>11, <1>0 DEF TypeOK, CloseTransport, Stages
<1>12. CASE ClosePeer
  BY <1>12, <1>0 DEF TypeOK, ClosePeer, Stages
<1>13. CASE RemoteClose
  BY <1>13, <1>0 DEF TypeOK, RemoteClose
<1>14. CASE HostReply
  <2>1. OrderInv' /\ queue' \in Seq(Outbound)
    BY <1>14, HostReplyKeepsOrder
  <2> QED BY <1>14, <2>1, BoundsAssumption DEF TypeOK, HostReply
<1> QED
  BY <1>1, <1>2, <1>3, <1>4, <1>5, <1>6, <1>7, <1>8, <1>9, <1>10, <1>11, <1>12,
     <1>13, <1>14 DEF Next, PumpStep, CloseStep

\* Every value the session keeps is of its type, in every state.
THEOREM SessionTypeCorrect == Spec => []TypeOK
<1>1. TypeOK /\ OrderInv /\ [Next]_sessionVars => (TypeOK /\ OrderInv)'
  BY StepTyped
<1>2. SessionInit => TypeOK /\ OrderInv
  BY InitTyped
<1> QED BY <1>1, <1>2, PTL DEF Spec

\* Outbound frames reach the transport in the order the peer produced them, answers
\* of the host included, however much one drain may take.
THEOREM SendsInOrder == Spec => []SentInOrder
<1>1. TypeOK /\ OrderInv /\ [Next]_sessionVars => (TypeOK /\ OrderInv)'
  BY StepTyped
<1>2. SessionInit => TypeOK /\ OrderInv
  BY InitTyped
<1>3. TypeOK /\ OrderInv => SentInOrder
  <2> SUFFICES ASSUME TypeOK, OrderInv PROVE SentInOrder
    OBVIOUS
  <2>1. DOMAIN sent = 1 .. Len(sent)
    BY LenProperties DEF TypeOK
  <2> QED BY <2>1 DEF OrderInv, InOrder, SentInOrder
<1> QED BY <1>1, <1>2, <1>3, PTL DEF Spec

(***************************************************************************)
(* One frame at a time.                                                    *)
(***************************************************************************)
SettledCount == IF pumping THEN begun - 1 ELSE begun

\* The frames with an outcome are those whose turn is over, a frame in turn was
\* delivered before close(), which waits for it, and a transport that close() has
\* closed stays closed.
TurnInv ==
    /\ pumping => begun >= 1
    /\ \A n \in Frames : Settled(n) <=> n <= SettledCount
    /\ flushUpTo <= arrived
    /\ stage \in {"transport", "done"} => ~transportOpen
    /\ pumping /\ closed => stage = "flushing" /\ begun <= flushUpTo

\* No more is produced than the frames pushed and the host's answers allow.
CountInv == produced <= begun * MaxReplies + hostReplies

\* Every drain takes all there is.
DrainsAll == MaxReplies + MaxHostReplies <= DrainLimit

\* What the pump holds answers the frame in turn; the peer's queue holds only what
\* the host put there.
DrainedInv ==
    /\ Answering(queue, {0}) /\ Answering(sending, {0, begun})
    /\ Len(queue) <= hostReplies

LEMMA FailSettles ==
    ASSUME TypeOK, NEW n \in Frames, NEW result \in Outcomes \ {"none"},
           Fail(n, result)
    PROVE  \A m \in Frames : Settled(m)' <=> (Settled(m) \/ m = n)
BY DEF TypeOK, Fail, Settled

LEMMA InitTurn == SessionInit => TurnInv /\ CountInv /\ DrainedInv
<1> SUFFICES ASSUME SessionInit PROVE TurnInv /\ CountInv /\ DrainedInv
  OBVIOUS
<1>1. TurnInv
  BY BoundsAssumption DEF SessionInit, TurnInv, SettledCount, Settled, Frames
<1>2. CountInv
  BY BoundsAssumption DEF SessionInit, CountInv
<1>3. Len(queue) = 0 /\ Len(sending) = 0
  BY EmptySeq DEF SessionInit
<1>4. DrainedInv
  BY <1>3 DEF SessionInit, DrainedInv, Answering
<1> QED BY <1>1, <1>2, <1>4

LEMMA StepTurn == ASSUME TypeOK, TurnInv, [Next]_sessionVars
                  PROVE  TurnInv'
<1> USE DEF sessionVars, lifeVars, pumpVars, peerVars
<1>a. /\ MaxFrames \in Nat /\ arrived \in 0 .. MaxFrames /\ begun \in 0 .. arrived
      /\ flushUpTo \in 0 .. MaxFrames /\ pumping \in BOOLEAN
      /\ outcome \in [Frames -> Outcomes]
  BY BoundsAssumption DEF TypeOK
<1>0. UNCHANGED <<pumping, begun, arrived, outcome, stage, flushUpTo, transportOpen>>
          => TurnInv'
  BY DEF TurnInv, SettledCount, closed, Settled
<1>1. CASE \/ UNCHANGED sessionVars \/ StartBegin \/ StartEnd \/ PumpSend
           \/ HostReply
  BY <1>1, <1>0 DEF StartBegin, StartEnd, PumpSend, HostReply
<1>2. CASE Arrive
  BY <1>2, <1>a DEF Arrive, TurnInv, SettledCount, closed, Settled
<1>3. CASE SkipFrame
  <2>1. begun + 1 \in Frames /\ ~pumping /\ pumping' = pumping /\ begun' = begun + 1
        /\ UNCHANGED <<arrived, stage, flushUpTo, transportOpen>>
    BY <1>3, <1>a DEF SkipFrame, Frames
  <2>2. \A m \in Frames : Settled(m)' <=> (Settled(m) \/ m = begun + 1)
    BY <1>3, <2>1, FailSettles DEF SkipFrame, Outcomes
  <2> QED BY <2>1, <2>2, <1>a DEF TurnInv, SettledCount, closed, Frames
<1>4. ASSUME NEW k \in 0 .. MaxReplies, BeginPump(k) PROVE TurnInv'
  <2>1. begun + 1 \in Frames /\ ~pumping /\ begun' = begun + 1
        /\ UNCHANGED <<arrived, stage, flushUpTo, transportOpen>> /\ ~closed
    BY <1>4, <1>a DEF BeginPump, Frames
  <2>2. CASE pumping' = TRUE /\ UNCHANGED outcome
    BY <2>1, <2>2, <1>a DEF TurnInv, SettledCount, closed, Settled
  <2>3. CASE Fail(begun + 1, "failed") /\ UNCHANGED pumping
    <3>1. \A m \in Frames : Settled(m)' <=> (Settled(m) \/ m = begun + 1)
      BY <2>1, <2>3, FailSettles DEF Outcomes
    <3> QED BY <3>1, <2>1, <2>3, <1>a DEF TurnInv, SettledCount, closed, Frames
  <2> QED BY <1>4, <2>2, <2>3 DEF BeginPump
<1>5. CASE PumpSendFails \/ PumpEnd
  <2>1. begun \in Frames /\ pumping /\ pumping' = FALSE /\ begun' = begun
        /\ UNCHANGED <<arrived, stage, flushUpTo, transportOpen>>
    BY <1>5, <1>a DEF PumpSendFails, PumpEnd, TurnInv, Frames
  <2>2. \A m \in Frames : Settled(m)' <=> (Settled(m) \/ m = begun)
    <3>1. CASE PumpSendFails
      BY <2>1, <3>1, FailSettles DEF PumpSendFails, Outcomes
    <3>2. CASE PumpEnd
      BY <2>1, <3>2, <1>a DEF PumpEnd, Settled
    <3> QED BY <1>5, <3>1, <3>2
  <2> QED BY <2>1, <2>2, <1>a DEF TurnInv, SettledCount, closed, Frames
<1>6. CASE Close
  BY <1>6, <1>a DEF Close, TurnInv, SettledCount, closed, Settled
<1>7. CASE ClosePeer \/ RemoteClose
  BY <1>7, <1>a DEF ClosePeer, RemoteClose, TurnInv, SettledCount, closed, Settled
<1>8. CASE CloseTransport
  <2>1. ~pumping
    <3>1. pumping => begun \in 1 .. flushUpTo /\ begun \in Frames /\ ~Settled(begun)
      BY <1>8, <1>a DEF CloseTransport, TurnInv, SettledCount, closed, Frames
    <3> QED BY <1>8, <3>1 DEF CloseTransport
  <2> QED BY <1>8, <2>1, <1>a DEF CloseTransport, TurnInv, SettledCount, closed, Settled
<1> QED
  BY <1>1, <1>2, <1>3, <1>4, <1>5, <1>6, <1>7, <1>8
     DEF Next, PumpStep, CloseStep

LEMMA OneMoreTimes == ASSUME NEW a \in Nat, NEW b \in Nat
                      PROVE  (a + 1) * b = a * b + b /\ a * b \in Nat
OBVIOUS

LEMMA StepCount == ASSUME TypeOK, CountInv, [Next]_sessionVars
                   PROVE  CountInv'
<1> USE DEF sessionVars, lifeVars, pumpVars, peerVars
<1>a. begun \in Nat /\ MaxReplies \in Nat /\ produced \in Nat /\ hostReplies \in Nat
  BY BoundsAssumption DEF TypeOK
<1>1. CASE UNCHANGED <<begun, produced, hostReplies>>
  BY <1>1 DEF CountInv
<1>2. CASE HostReply
  BY <1>2, <1>a, OneMoreTimes DEF HostReply, CountInv
<1>3. CASE begun' = begun + 1 /\ UNCHANGED <<produced, hostReplies>>
  BY <1>3, <1>a, OneMoreTimes DEF CountInv
<1>4. ASSUME NEW k \in 0 .. MaxReplies, PushFrame(begun + 1, k), begun' = begun + 1
      PROVE  CountInv'
  BY <1>4, <1>a, OneMoreTimes DEF PushFrame, CountInv
<1> QED
  BY <1>1, <1>2, <1>3, <1>4
     DEF Next, PumpStep, CloseStep, StartBegin, StartEnd, Arrive, SkipFrame,
         BeginPump, PumpSend, PumpSendFails, PumpEnd, Close, CloseTransport,
         ClosePeer, RemoteClose

LEMMA StepDrained ==
    ASSUME TypeOK, OrderInv, DrainedInv, DrainsAll, [Next]_sessionVars
    PROVE  DrainedInv'
<1> USE DEF sessionVars, lifeVars, pumpVars, peerVars
<1>a. /\ MaxReplies \in Nat /\ MaxHostReplies \in Nat
      /\ hostReplies \in 0 .. MaxHostReplies /\ Len(queue) \in Nat
      /\ begun \in Nat /\ DrainLimit \in Nat
  BY BoundsAssumption, LenProperties DEF TypeOK
<1>1. CASE UNCHANGED <<begun, queue, sending, hostReplies>>
  BY <1>1 DEF DrainedInv, Answering
<1>2. CASE HostReply
  <2>1. Answering(queue', {0}) /\ Len(queue') = Len(queue) + 1
    BY <1>2, HostReplyKeepsOrder DEF DrainedInv
  <2> QED BY <1>2, <1>a, <2>1 DEF HostReply, DrainedInv, Answering
<1>3. CASE /\ ~pumping /\ begun' = begun + 1
           /\ UNCHANGED <<queue, sending, hostReplies>>
  <2>1. sending' = <<>> /\ Len(sending') = 0
    BY <1>3, EmptySeq DEF OrderInv
  <2> QED BY <1>3, <2>1 DEF DrainedInv, Answering
<1>4. ASSUME NEW k \in 0 .. MaxReplies, PushFrame(begun + 1, k), BeginPump(k)
      PROVE  DrainedInv'
  <2>1. begun + 1 \in 0 .. MaxFrames /\ k \in Nat /\ begun' = begun + 1
    BY <1>4, BoundsAssumption DEF TypeOK, BeginPump
  <2>2. Len(queue) + k <= DrainLimit
    BY <1>a DEF DrainedInv, DrainsAll
  <2>3. queue' = <<>> /\ Answering(sending', {0, begun'})
    BY <1>4, <2>1, <2>2, PushDrains DEF DrainedInv
  <2>4. Len(queue') = 0 /\ hostReplies' = hostReplies
    BY <1>4, <2>3, EmptySeq DEF PushFrame
  <2> QED BY <1>a, <2>3, <2>4 DEF DrainedInv, Answering
<1>5. CASE PumpSend
  <2>1. Answering(sending', {0, begun})
    BY <1>5, HandOverKeepsOrder DEF PumpSend, DrainedInv
  <2> QED BY <1>5, <2>1 DEF PumpSend, DrainedInv
<1>6. CASE PumpSendFails
  <2>1. Len(sending') = 0
    BY <1>6, EmptySeq DEF PumpSendFails
  <2> QED BY <1>6, <2>1 DEF PumpSendFails, DrainedInv, Answering
<1> QED
  BY <1>1, <1>2, <1>3, <1>4, <1>5, <1>6
     DEF Next, PumpStep, CloseStep, StartBegin, StartEnd, Arrive, SkipFrame,
         BeginPump, PumpEnd, Close, CloseTransport, ClosePeer, RemoteClose

\* When every drain takes all there is, nothing the peer produced for a frame is
\* left behind in the peer or in a pump once all frames are settled.
THEOREM NothingStays == ASSUME DrainsAll
                        PROVE  Spec => []NothingLeftBehind
<1> DEFINE Inv == TypeOK /\ OrderInv /\ DrainedInv
<1>1. SessionInit => Inv
  BY InitTyped, InitTurn
<1>2. Inv /\ [Next]_sessionVars => Inv'
  BY StepTyped, StepDrained
<1>3. Inv => NothingLeftBehind
  <2> SUFFICES ASSUME Inv, ~pumping
               PROVE  sending = <<>> /\ \A i \in DOMAIN queue : queue[i].of = 0
    BY DEF NothingLeftBehind
  <2>1. DOMAIN queue = 1 .. Len(queue)
    BY LenProperties DEF TypeOK
  <2> QED BY <2>1 DEF OrderInv, DrainedInv, Answering
<1> QED BY <1>1, <1>2, <1>3, PTL DEF Spec

\* The core contract: when a frame is pushed, every outbound frame of the ones
\* before it has left the peer and the pump, as long as a drain takes all there is.
THEOREM ContractKept == ASSUME DrainsAll
                        PROVE  Spec => CoreContract
<1> DEFINE Inv == TypeOK /\ OrderInv /\ DrainedInv
<1>1. SessionInit => Inv
  BY InitTyped, InitTurn
<1>2. Inv /\ [Next]_sessionVars => Inv'
  BY StepTyped, StepDrained
<1>3. Inv /\ [Next]_sessionVars
          => [produced' # produced /\ begun' # begun =>
                  /\ sending = <<>>
                  /\ \A i \in DOMAIN queue : queue[i].of = 0]_sessionVars
  <2> SUFFICES ASSUME Inv, Next, produced' # produced, begun' # begun
               PROVE  sending = <<>> /\ \A i \in DOMAIN queue : queue[i].of = 0
    OBVIOUS
  <2>1. ~pumping
    BY DEF Next, PumpStep, CloseStep, StartBegin, StartEnd, Arrive, SkipFrame,
           BeginPump, PumpSend, PumpSendFails, PumpEnd, Close, CloseTransport,
           ClosePeer, RemoteClose, HostReply, lifeVars, pumpVars, peerVars
  <2>2. DOMAIN queue = 1 .. Len(queue)
    BY LenProperties DEF TypeOK
  <2> QED BY <2>1, <2>2 DEF OrderInv, DrainedInv, Answering
<1> QED BY <1>1, <1>2, <1>3, PTL DEF Spec, CoreContract

(***************************************************************************)
(* A session is a FramePump.                                               *)
(***************************************************************************)
LEMMA InitMaps == SessionInit => Promise!PumpInit
BY DEF SessionInit, Promise!PumpInit

\* Of the pump's promise, what it never does (when it settles and shuts is left
\* to its fairness).
PumpsOnly == Promise!PumpInit /\ [][Promise!PumpNext]_(Promise!framePumpVars)

LEMMA StepMaps ==
    ASSUME TypeOK, OrderInv, TurnInv, CountInv, DrainedInv, [Next]_sessionVars
    PROVE  [Promise!PumpNext]_(Promise!framePumpVars)
<1> USE DEF sessionVars, lifeVars, pumpVars, peerVars
<1>a. /\ MaxFrames \in Nat /\ arrived \in 0 .. MaxFrames /\ begun \in 0 .. arrived
      /\ flushUpTo \in 0 .. MaxFrames /\ pumping \in BOOLEAN
      /\ outcome \in [Frames -> Outcomes]
  BY BoundsAssumption DEF TypeOK
<1>0. ASSUME UNCHANGED <<pumping, begun, arrived, stage, flushUpTo, sent>>
      PROVE  UNCHANGED Promise!framePumpVars
  BY <1>0 DEF Promise!framePumpVars
<1>1. CASE \/ UNCHANGED sessionVars \/ StartBegin \/ StartEnd
           \/ HostReply \/ RemoteClose
  BY <1>1, <1>0 DEF StartBegin, StartEnd, HostReply, RemoteClose
<1>2. CASE Arrive
  <2>1. Promise!Deliver
    BY <1>2 DEF Arrive, Promise!Deliver
  <2> QED BY <2>1 DEF Promise!PumpNext
<1>3. ASSUME begun < arrived, ~pumping, begun' = begun + 1, ~pumping',
             UNCHANGED <<arrived, stage, flushUpTo, sent>>
      PROVE  Promise!PumpNext
  <2>1. Promise!SettleNext
    BY <1>3 DEF Promise!SettleNext
  <2> QED BY <2>1 DEF Promise!PumpNext
<1>4. CASE SkipFrame
  BY <1>3, <1>4 DEF SkipFrame
<1>5. ASSUME NEW k \in 0 .. MaxReplies, BeginPump(k)
      PROVE  [Promise!PumpNext]_(Promise!framePumpVars)
  <2>1. CASE pumping' = TRUE
    BY <1>a, <1>5, <2>1 DEF BeginPump, Promise!framePumpVars
  <2>2. CASE UNCHANGED pumping
    BY <1>3, <1>5, <2>2 DEF BeginPump
  <2> QED BY <1>5, <2>1, <2>2 DEF BeginPump
<1>6. CASE PumpSend
  <2>1. /\ sending \in Seq(Outbound) /\ Len(sending) \in Nat \ {0}
        /\ Head(sending) = sending[1]
    BY <1>6, EmptySeq DEF PumpSend, TypeOK
  <2>2. 1 \in 1 .. Len(sending) /\ sending[1] \in Outbound
    BY <2>1, ElementOfSeq
  <2> DEFINE n == sending[1].of
             place == sending[1].seq
  <2>3. n \in {0, begun} /\ n <= arrived /\ n \in 0 .. MaxFrames
    BY <1>a, <2>2 DEF DrainedInv, Answering
  <2>4. place \in 1 .. MaxFrames * MaxReplies + MaxHostReplies
    <3>1. place \in 1 .. produced
      BY <2>2 DEF OrderInv, Within
    <3>2. begun * MaxReplies <= MaxFrames * MaxReplies
      BY <1>a, BoundsAssumption
    <3>3. begun * MaxReplies \in Nat /\ MaxFrames * MaxReplies \in Nat
      BY <1>a, BoundsAssumption, OneMoreTimes
    <3>4. produced \in Nat /\ hostReplies \in 0 .. MaxHostReplies
          /\ MaxHostReplies \in Nat
      BY BoundsAssumption DEF TypeOK
    <3> QED BY ONLY <3>1, <3>2, <3>3, <3>4, CountInv DEF CountInv
  <2>5. \A i \in DOMAIN sent : sent[i].seq < place
    <3>1. DOMAIN sent = 1 .. Len(sent)
      BY LenProperties DEF TypeOK
    <3> QED BY <3>1, <2>2 DEF OrderInv, Before
  <2>6. sent' = Append(sent, [of |-> n, seq |-> place])
    <3>1. sending[1] = [of |-> n, seq |-> place]
      BY <2>2 DEF Outbound
    <3> QED BY <1>6, <2>1, <3>1 DEF PumpSend
  <2>7. stage = "open" \/ stage = "flushing"
    BY <1>6 DEF PumpSend, TurnInv, TypeOK, Stages, closed
  <2>8. n = 0 \/ n = begun - 1 + 1
    BY <1>a, <2>3
  <2> HIDE DEF n, place
  <2>9. Promise!HandOver(n, place)
    BY <1>6, <2>3, <2>5, <2>6, <2>7, <2>8 DEF PumpSend, Promise!HandOver
  <2> QED BY <2>3, <2>4, <2>9 DEF Promise!PumpNext
<1>7. CASE PumpSendFails \/ PumpEnd
  <2>1. begun \in Frames /\ pumping /\ pumping' = FALSE
        /\ UNCHANGED <<arrived, begun, stage, flushUpTo, sent>>
    BY <1>7, <1>a DEF PumpSendFails, PumpEnd, TurnInv, Frames
  <2>2. Promise!SettleNext
    BY <1>a, <2>1 DEF Promise!SettleNext
  <2> QED BY <2>2 DEF Promise!PumpNext
<1>8. CASE Close
  <2>1. Promise!AskClose
    BY <1>8 DEF Close, closed, Promise!AskClose
  <2> QED BY <2>1 DEF Promise!PumpNext
<1>9. CASE CloseTransport
  <2>1. SettledCount >= flushUpTo
    <3>1. CASE flushUpTo = 0
      BY <3>1, <1>a DEF SettledCount, TurnInv
    <3>2. CASE flushUpTo # 0
      <4>1. flushUpTo \in 1 .. flushUpTo /\ flushUpTo \in Frames
        BY <3>2, <1>a DEF Frames
      <4>2. flushUpTo <= SettledCount
        BY <1>9, <4>1 DEF CloseTransport, TurnInv
      <4> QED BY <4>2, <1>a DEF SettledCount
    <3> QED BY <3>1, <3>2
  <2>2. Promise!Shut
    BY <1>9, <2>1 DEF CloseTransport, SettledCount, Promise!Shut
  <2> QED BY <2>2 DEF Promise!PumpNext
<1>10. CASE ClosePeer
  BY <1>10 DEF ClosePeer, Promise!framePumpVars
<1> QED
  BY <1>1, <1>2, <1>4, <1>5, <1>6, <1>7, <1>8, <1>9, <1>10
     DEF Next, PumpStep, CloseStep

\* With its queues, drains and failures, a session takes only steps of a FramePump:
\* frames settle one after the other, what is handed over is in order and answers
\* the frame in turn, and nothing follows the close.
THEOREM SessionPumps == ASSUME DrainsAll
                        PROVE  Spec => PumpsOnly
<1> DEFINE Inv == TypeOK /\ OrderInv /\ TurnInv /\ CountInv /\ DrainedInv
<1>1. SessionInit => Inv
  BY InitTyped, InitTurn
<1>2. Inv /\ [Next]_sessionVars => Inv'
  BY StepTyped, StepTurn, StepCount, StepDrained
<1>3. Inv /\ [Next]_sessionVars => [Promise!PumpNext]_(Promise!framePumpVars)
  BY StepMaps
<1>4. SessionInit => Promise!PumpInit
  BY InitMaps
<1> QED BY <1>1, <1>2, <1>3, <1>4, PTL DEF Spec, PumpsOnly

(***************************************************************************)
(* Inside the server runtime: the session's own invariants.                *)
(***************************************************************************)
\* A step of the runtime is for its session a step of its own, or a flush that
\* drains the peer.
LEMMA SessionPart ==
    ASSUME [RuntimeNext]_runtimeVars
    PROVE  [Next]_sessionVars \/ \E f \in Flushers : Drain(f)
<1>1. CASE UNCHANGED runtimeVars
  BY <1>1 DEF runtimeVars
<1>2. CASE SessionAlone
  BY <1>2 DEF SessionAlone, Next, CloseStep
<1>3. ASSUME NEW k \in FrameKinds, HookArrive(k) PROVE Next
  BY <1>3 DEF HookArrive, Next
<1>4. ASSUME NEW k \in 0 .. MaxReplies, HookBeginPump(k) PROVE Next
  BY <1>4 DEF HookBeginPump, Next, PumpStep
<1>5. CASE HookPumpSend \/ HookPumpEnd
  BY <1>5 DEF HookPumpSend, HookPumpEnd, Next, PumpStep
<1>6. CASE HookGivesUp \/ HookObserves \/ HookRefused \/ HookClosed \/ HookSendsDeferred
  BY <1>6 DEF HookGivesUp, HookObserves, HookRefused, HookClosed, HookSendsDeferred,
              Next
<1>7. ASSUME NEW p \in Pumps, PumpAction(p)
      PROVE  [Next]_sessionVars \/ Drain(p)
  BY <1>7 DEF PumpAction, PumpStarts, PopHostCall, PumpPopped, PumpFlushed, Next
<1>8. ASSUME NEW f \in Flushers, FlushSend(f) \/ FlushFails(f)
      PROVE  UNCHANGED sessionVars
  BY <1>8 DEF FlushSend, FlushFails
<1>9. ASSUME NEW c \in Frames, HandlerStep(c)
      PROVE  [Next]_sessionVars \/ Drain(c)
  BY <1>9 DEF HandlerStep, HandlerSettles, HandlerFlushes, Next
<1>10. Pumps \subseteq Flushers /\ Frames \subseteq Flushers
  BY DEF Flushers
<1> QED BY <1>1, <1>2, <1>3, <1>4, <1>5, <1>6, <1>7, <1>8, <1>9, <1>10
           DEF RuntimeNext, HookStep

\* What a flush drains is the front of the peer's queue, still in order, and of
\* what the queue held.
LEMMA DrainCuts ==
    ASSUME TypeOK, OrderInv, NEW f \in Flushers, Drain(f)
    PROVE  /\ TypeOK' /\ OrderInv'
           /\ TurnInv => TurnInv'
           /\ DrainedInv => DrainedInv'
           /\ \E d \in 0 .. Len(queue) :
                  /\ flushing' = [flushing EXCEPT ![f] = SubSeq(queue, 1, d)]
                  /\ queue' = SubSeq(queue, d + 1, Len(queue))
                  /\ SubSeq(queue, 1, d) \in Seq(Outbound)
                  /\ DrainedInv => Answering(SubSeq(queue, 1, d), {0})
<1> DEFINE d == Least(DrainLimit, Len(queue))
           a == SubSeq(queue, 1, d)
           b == SubSeq(queue, d + 1, Len(queue))
<1>1. /\ queue \in Seq(Outbound) /\ sent \in Seq(Outbound) /\ sending \in Seq(Outbound)
      /\ Len(queue) \in Nat /\ produced \in Nat
  BY LenProperties DEF TypeOK
<1>2. d \in 0 .. Len(queue)
  BY <1>1, BoundsAssumption DEF Least
<1>3. /\ flushing' = [flushing EXCEPT ![f] = a] /\ queue' = b
      /\ UNCHANGED <<lifeVars, pumpVars, produced, hostReplies, sent>>
  BY DEF Drain
<1> HIDE DEF d
<1>4. /\ a \in Seq(Outbound) /\ b \in Seq(Outbound) /\ Len(b) = Len(queue) - d
      /\ InOrder(b) /\ Before(sent, b) /\ Within(b, produced)
      /\ Answering(queue, {0}) => Answering(a, {0})
  BY <1>1, <1>2, CutInOrder DEF OrderInv
<1>5. Before(sending, b)
  BY <1>1, <1>2, CutInOrder DEF OrderInv
<1>6. Answering(queue, {0}) => Answering(b, {0})
  <2>1. \A i \in 1 .. Len(b) : d + i \in 1 .. Len(queue) /\ b[i] = queue[d + i]
    <3>1. \A i \in d + 1 .. Len(queue) : queue[i] \in Outbound
      BY <1>1, <1>2, ElementOfSeq
    <3>2. \A i \in 1 .. Len(queue) - d : b[i] = queue[d + i]
      BY <1>1, <1>2, <3>1, SubSeqProperties, Z3
    <3> HIDE DEF b
    <3> QED BY <1>1, <1>2, <1>4, <3>2
  <2> QED BY <2>1 DEF Answering
<1> HIDE DEF a, b
<1>7. TypeOK'
  BY <1>3, <1>4 DEF TypeOK, lifeVars, pumpVars
<1>8. OrderInv'
  BY <1>3, <1>4, <1>5 DEF OrderInv, pumpVars
<1>9. TurnInv => TurnInv'
  BY <1>3 DEF TurnInv, SettledCount, closed, Settled, lifeVars, pumpVars
<1>10. DrainedInv => DrainedInv'
  <2>1. hostReplies \in Nat /\ Len(b) <= Len(queue)
    BY <1>1, <1>2, <1>4, BoundsAssumption DEF TypeOK
  <2> QED BY <2>1, <1>1, <1>3, <1>4, <1>6 DEF DrainedInv, pumpVars
<1>11. DrainedInv => Answering(a, {0})
  BY <1>4 DEF DrainedInv
<1> QED BY <1>2, <1>3, <1>4, <1>7, <1>8, <1>9, <1>10, <1>11 DEF a, b

\* The session keeps its own invariants whatever the runtime around it does.
LEMMA SessionKept ==
    ASSUME TypeOK, OrderInv, TurnInv, [RuntimeNext]_runtimeVars
    PROVE  /\ TypeOK' /\ OrderInv' /\ TurnInv'
           /\ DrainsAll /\ DrainedInv => DrainedInv'
BY SessionPart, DrainCuts, StepTyped, StepTurn, StepDrained

(***************************************************************************)
(* What the hook, the pumps and the flushes keep.                          *)
(***************************************************************************)
\* Only a task of a frame that arrived is under way, the hook's pump runs only in
\* its place of the task, and a pump that holds frames is sending them.
HookInv ==
    /\ hookStage # "waiting" => hookDone < arrived
    /\ pump[Hook].at # "idle" => hookStage = "pumping"
    /\ \A p \in Pumps : flushing[p] # <<>> => pump[p].at = "flushing"

PumpStates == [at : {"idle", "popping", "flushing"}, budget : Nat, handled : Nat]

\* The types of what the runtime adds to its session.
HookTypeOK ==
    /\ kind \in [Frames -> FrameKinds \cup {"none"}]
    /\ cell \in 0 .. arrived
    /\ deferred \in [Frames -> Seq(Outbound)]
    /\ hookDone \in 0 .. arrived
    /\ hookStage \in {"waiting", "pumping", "sending", "closing"}
    /\ hookError \in BOOLEAN /\ pumpDisabled \in BOOLEAN
    /\ observed \subseteq Frames
    /\ hostCalls \in Seq(Frames)
    /\ handler \in [Frames -> {"none", "running", "settled", "flushing",
                               "done"}]
    /\ pump \in [Pumps -> PumpStates]
    /\ totalPumped \in Nat
    /\ flushing \in [Flushers -> Seq(Outbound)]
    /\ wire \in Seq(Outbound)

LEMMA TypesSplit == RuntimeTypeOK <=> TypeOK /\ HookTypeOK
BY DEF RuntimeTypeOK, HookTypeOK, PumpStates

LEMMA RuntimeInitTyped == Init => HookTypeOK /\ HookInv
<1> SUFFICES ASSUME Init PROVE HookTypeOK /\ HookInv
  OBVIOUS
<1>1. arrived = 0
  BY DEF Init, SessionInit
<1>2. IdlePump \in PumpStates /\ IdlePump.at = "idle" /\ Hook \in Pumps
  BY DEF IdlePump, PumpStates, Pumps
<1>3. <<>> \in Seq(Outbound) /\ <<>> \in Seq(Frames)
  BY EmptySeq
<1>4. HookTypeOK
  <2>1. /\ deferred \in [Frames -> Seq(Outbound)]
        /\ flushing \in [Flushers -> Seq(Outbound)]
        /\ wire \in Seq(Outbound) /\ hostCalls \in Seq(Frames)
    BY <1>3 DEF Init
  <2>2. pump \in [Pumps -> PumpStates]
    BY <1>2 DEF Init
  <2>3. /\ kind \in [Frames -> FrameKinds \cup {"none"}]
        /\ handler \in [Frames -> {"none", "running", "settled", "flushing",
                                   "done"}]
        /\ cell \in 0 .. arrived /\ hookDone \in 0 .. arrived
        /\ hookStage = "waiting" /\ hookError = FALSE /\ pumpDisabled = FALSE
        /\ observed = {} /\ totalPumped = 0
    BY <1>1 DEF Init
  <2> QED BY <2>1, <2>2, <2>3 DEF HookTypeOK
<1>5. HookInv
  <2>1. hookStage = "waiting" /\ pump[Hook].at = "idle"
    BY <1>2 DEF Init
  <2>2. \A p \in Pumps : flushing[p] = <<>>
    BY DEF Init, Flushers
  <2> QED BY <2>1, <2>2 DEF HookInv
<1> QED BY <1>4, <1>5

\* A frame the hook is given joins a list of frames.
LEMMA HookSendTyped ==
    ASSUME HookTypeOK, TypeOK, NEW e \in Outbound, HookSend(e)
    PROVE  /\ deferred' \in [Frames -> Seq(Outbound)]
           /\ wire' \in Seq(Outbound)
<1>1. CASE cell # 0
  <2>1. cell \in Frames
    BY <1>1, BoundsAssumption DEF HookTypeOK, TypeOK, Frames
  <2>2. Append(deferred[cell], e) \in Seq(Outbound)
    BY <2>1, AppendProperties DEF HookTypeOK
  <2> QED BY <1>1, <2>1, <2>2 DEF HookSend, HookTypeOK
<1>2. CASE cell = 0
  <2>1. Append(wire, e) \in Seq(Outbound)
    BY AppendProperties DEF HookTypeOK
  <2> QED BY <1>2, <2>1 DEF HookSend, HookTypeOK
<1> QED BY <1>1, <1>2

\* A pump that ends leaves the hook in a state of its types.
LEMMA ReturnTyped ==
    ASSUME HookTypeOK, TypeOK, HookInv, NEW p \in Pumps, NEW failed \in BOOLEAN,
           p = Hook => hookStage = "pumping", PumpReturns(p, failed),
           arrived' = arrived
    PROVE  /\ hookStage' \in {"waiting", "pumping", "sending", "closing"}
           /\ hookError' \in BOOLEAN
           /\ hookDone' \in 0 .. arrived
           /\ hookStage' # "waiting" => hookDone' < arrived
           /\ p = Manual => UNCHANGED <<hookStage, hookError, hookDone>>
<1>1. CASE p = Hook
  <2>1. hookDone < arrived /\ Hook # Manual
    BY <1>1 DEF HookInv, Hook, Manual
  <2> QED BY <1>1, <2>1 DEF PumpReturns, HookContinues, Task, HookTypeOK, TypeOK
<1>2. CASE p # Hook
  BY <1>2 DEF PumpReturns, HookTypeOK, HookInv
<1> QED BY <1>1, <1>2

\* What one drain takes.
LEMMA FrontTyped ==
    ASSUME TypeOK
    PROVE  SubSeq(queue, 1, Least(DrainLimit, Len(queue))) \in Seq(Outbound)
<1>1. queue \in Seq(Outbound) /\ Len(queue) \in Nat
  BY LenProperties DEF TypeOK
<1>2. Least(DrainLimit, Len(queue)) \in 0 .. Len(queue)
  BY <1>1, BoundsAssumption DEF Least
<1>3. \A i \in 1 .. Least(DrainLimit, Len(queue)) : queue[i] \in Outbound
  BY <1>1, <1>2, ElementOfSeq
<1> HIDE DEF Least
<1> QED BY <1>1, <1>2, <1>3, SubSeqProperties, Z3

\* A pump that has popped a call, and one that has popped enough.
LEMMA PumpGoesOn ==
    ASSUME NEW r \in PumpStates
    PROVE  /\ [r EXCEPT !.handled = @ + 1] \in PumpStates
           /\ [r EXCEPT !.handled = @ + 1].at = r.at
           /\ [r EXCEPT !.at = "flushing"] \in PumpStates
           /\ [r EXCEPT !.at = "flushing"].at = "flushing"
BY DEF PumpStates

LEMMA RuntimeStepTyped ==
    ASSUME TypeOK, TypeOK', HookTypeOK, HookInv, [RuntimeNext]_runtimeVars
    PROVE  HookTypeOK' /\ HookInv'
<1> USE DEF sessionVars, lifeVars, pumpVars, peerVars
<1>a. /\ arrived \in Nat /\ begun \in 0 .. arrived /\ arrived \in 0 .. MaxFrames
      /\ MaxFrames \in Nat /\ Task \in Nat
  BY BoundsAssumption DEF TypeOK, HookTypeOK, Task
<1>b. Hook \in Pumps /\ Manual \in Pumps /\ Hook # Manual /\ Pumps \subseteq Flushers
      /\ Frames \subseteq Flushers /\ \A n \in Frames : n \notin Pumps
  BY <1>a DEF Pumps, Flushers, Hook, Manual, Frames
<1>c. IdlePump \in PumpStates /\ IdlePump.at = "idle"
  BY DEF IdlePump, PumpStates
<1>1. CASE UNCHANGED runtimeVars
  BY <1>1 DEF runtimeVars, hookVars, callVars, HookTypeOK, HookInv
<1>2. CASE SessionAlone
  <2>1. UNCHANGED <<hookVars, callVars, flushing, wire, arrived>>
    BY <1>2 DEF SessionAlone, StartBegin, StartEnd, Close, CloseStep, CloseTransport,
                ClosePeer, RemoteClose
  <2> QED BY <2>1 DEF hookVars, callVars, HookTypeOK, HookInv
<1>3. ASSUME NEW k \in FrameKinds, HookArrive(k) PROVE HookTypeOK' /\ HookInv'
  <2>1. /\ arrived' = arrived + 1 /\ cell' = arrived + 1
        /\ kind' = [kind EXCEPT ![arrived + 1] = k]
        /\ UNCHANGED <<deferred, hookDone, hookStage, hookError, observed, callVars,
                       flushing, wire>>
    BY <1>3 DEF HookArrive, Arrive
  <2>2. kind' \in [Frames -> FrameKinds \cup {"none"}]
    BY <2>1 DEF HookTypeOK
  <2>3. cell' \in 0 .. arrived' /\ hookDone' \in 0 .. arrived'
    BY <1>a, <2>1 DEF HookTypeOK
  <2>4. HookTypeOK'
    BY <2>1, <2>2, <2>3 DEF HookTypeOK, callVars
  <2>5. HookInv'
    BY <1>a, <2>1 DEF HookInv, HookTypeOK, callVars
  <2> QED BY <2>4, <2>5
<1>4. ASSUME NEW k \in 0 .. MaxReplies, HookBeginPump(k) PROVE HookTypeOK' /\ HookInv'
  <2>1. /\ UNCHANGED arrived /\ begun + 1 \in Frames
        /\ cell' \in {0, cell}
        /\ hostCalls' \in {hostCalls, Append(hostCalls, begun + 1)}
        /\ UNCHANGED <<kind, deferred, hookDone, hookStage, hookError, observed,
                       handler, pump, totalPumped, pumpDisabled, flushing, wire>>
    BY <1>4, <1>a DEF HookBeginPump, BeginPump, Frames
  <2>2. hostCalls' \in Seq(Frames)
    <3>1. hostCalls \in Seq(Frames) /\ Append(hostCalls, begun + 1) \in Seq(Frames)
      BY <2>1, AppendProperties DEF HookTypeOK
    <3> QED BY <2>1, <3>1
  <2>3. cell' \in 0 .. arrived'
    BY <1>a, <2>1 DEF HookTypeOK
  <2> QED BY <2>1, <2>2, <2>3 DEF HookTypeOK, HookInv
<1>5. CASE HookPumpSend
  <2>1. /\ Head(sending) \in Outbound
    <3>1. sending \in Seq(Outbound) /\ sending # <<>>
      BY <1>5 DEF HookPumpSend, PumpSend, TypeOK
    <3> QED BY <3>1, HeadTailProperties
  <2>2. /\ HookSend(Head(sending)) /\ UNCHANGED arrived
        /\ UNCHANGED <<kind, cell, hookDone, hookStage, hookError, observed,
                       callVars, flushing>>
    BY <1>5 DEF HookPumpSend, PumpSend
  <2>3. deferred' \in [Frames -> Seq(Outbound)] /\ wire' \in Seq(Outbound)
    BY <2>1, <2>2, HookSendTyped
  <2> QED BY <2>2, <2>3 DEF HookTypeOK, HookInv, callVars
<1>6. CASE HookPumpEnd
  <2>1. /\ UNCHANGED arrived /\ cell' = 0
        /\ UNCHANGED <<kind, deferred, hookDone, hookStage, hookError, observed,
                       callVars, flushing, wire>>
    BY <1>6 DEF HookPumpEnd, SkipFrame, PumpEnd
  <2> QED BY <2>1, <1>a DEF HookTypeOK, HookInv, callVars
<1>7. CASE HookGivesUp \/ HookObserves \/ HookRefused \/ HookClosed
  <2>1. Task <= arrived
    BY <1>7 DEF HookGivesUp, HookObserves, HookRefused, HookClosed, HookInv, Task,
                HookTypeOK, TypeOK
  <2>2. /\ UNCHANGED <<kind, cell, deferred, callVars, flushing, wire, arrived>>
        /\ observed' \in {observed, observed \cup {Task}}
        /\ hookStage' \in {"waiting", "pumping", "closing"}
        /\ hookError' \in {TRUE, hookError}
        /\ hookDone' \in {Task, hookDone}
        /\ hookStage' # "waiting" => hookDone' = hookDone
        /\ pump[Hook].at = "idle"
    BY <1>7 DEF HookGivesUp, HookObserves, HookRefused, HookClosed, Close, HookInv
  <2>3. Task \in Frames /\ Task = hookDone + 1
    BY <1>a, <2>1 DEF Task, Frames, HookTypeOK
  <2>4. HookTypeOK'
    <3>1. hookDone' \in 0 .. arrived'
      BY <1>a, <2>1, <2>2, <2>3 DEF HookTypeOK
    <3>2. observed' \subseteq Frames
      BY <2>2, <2>3 DEF HookTypeOK
    <3>3. hookError' \in BOOLEAN
      BY <2>2 DEF HookTypeOK
    <3>4. hookStage' \in {"waiting", "pumping", "sending", "closing"}
      BY <2>2
    <3> QED BY <2>2, <3>1, <3>2, <3>3, <3>4 DEF HookTypeOK, callVars
  <2>5. HookInv'
    BY <1>a, <2>1, <2>2, <2>3 DEF HookInv, HookTypeOK, callVars
  <2> QED BY <2>4, <2>5
<1>8. CASE HookSendsDeferred
  <2>1. /\ hookStage = "sending" /\ Task \in Frames /\ Task = hookDone + 1
        /\ Task <= arrived
        /\ UNCHANGED <<sessionVars, kind, cell, observed, callVars, flushing>>
    BY <1>8, <1>a DEF HookSendsDeferred, HookInv, Task, Frames, HookTypeOK
  <2>2. CASE UNCHANGED <<deferred, wire>> /\ hookStage' = "waiting" /\ hookDone' = Task
             /\ hookError' \in {TRUE, hookError}
    <3>1. hookDone' \in 0 .. arrived'
      BY <1>a, <2>1, <2>2 DEF HookTypeOK
    <3>2. hookError' \in BOOLEAN
      BY <2>2 DEF HookTypeOK
    <3>3. pump'[Hook].at = "idle"
      BY <2>1 DEF HookInv, callVars
    <3> QED BY <2>1, <2>2, <3>1, <3>2, <3>3 DEF HookTypeOK, HookInv, callVars
  <2>3. CASE /\ deferred[Task] # <<>>
             /\ wire' = Append(wire, Head(deferred[Task]))
             /\ deferred' = [deferred EXCEPT ![Task] = Tail(@)]
             /\ UNCHANGED <<hookStage, hookDone, hookError>>
    <3>1. deferred[Task] \in Seq(Outbound)
      BY <2>1 DEF HookTypeOK
    <3>2. Head(deferred[Task]) \in Outbound /\ Tail(deferred[Task]) \in Seq(Outbound)
      BY <2>3, <3>1, HeadTailProperties
    <3>3. wire' \in Seq(Outbound) /\ deferred' \in [Frames -> Seq(Outbound)]
      BY <2>3, <3>2, AppendProperties DEF HookTypeOK
    <3> QED BY <2>1, <2>3, <3>3 DEF HookTypeOK, HookInv, callVars
  <2> QED BY <1>8, <2>2, <2>3 DEF HookSendsDeferred
<1>9. ASSUME NEW p \in Pumps, PumpAction(p) PROVE HookTypeOK' /\ HookInv'
  <2>a. pump[p] \in PumpStates /\ (p = Hook \/ p = Manual)
    BY DEF HookTypeOK, Pumps
  <2>1. CASE PumpStarts(p)
    <3>1. /\ pump[p] = IdlePump /\ pump[p].at = "idle"
          /\ p = Hook => hookStage = "pumping"
          /\ UNCHANGED <<sessionVars, kind, cell, deferred, observed, hostCalls,
                         handler, totalPumped, flushing, wire>>
      BY <2>1, <1>c DEF PumpStarts
    <3>2. CASE /\ PumpReturns(p, ~pumpDisabled /\ FailOnLimit)
               /\ pumpDisabled' = (pumpDisabled \/ ~FailOnLimit)
               /\ UNCHANGED pump
      <4> DEFINE failed == ~pumpDisabled /\ FailOnLimit
      <4>1. failed \in BOOLEAN /\ pumpDisabled' \in BOOLEAN
        BY <3>2
      <4> HIDE DEF failed
      <4>2. PumpReturns(p, failed)
        BY <3>2 DEF failed
      <4>3. /\ hookStage' \in {"waiting", "pumping", "sending", "closing"}
            /\ hookError' \in BOOLEAN
            /\ hookDone' \in 0 .. arrived
            /\ hookStage' # "waiting" => hookDone' < arrived
            /\ p = Manual => UNCHANGED <<hookStage, hookError, hookDone>>
        BY <4>1, <4>2, <3>1, ReturnTyped
      <4>4. HookTypeOK'
        BY <3>1, <3>2, <4>1, <4>3 DEF HookTypeOK
      <4>5. pump[Hook].at # "idle" => hookStage' = "pumping"
        BY <3>1, <4>3, <2>a DEF HookInv
      <4> QED BY <3>1, <3>2, <4>3, <4>4, <4>5 DEF HookInv
    <3>3. CASE /\ pump' = [pump EXCEPT ![p] =
                      [at |-> "popping", handled |-> 0,
                       budget |-> IF closed THEN 0
                                  ELSE Least(MaxCallsPerInboundFrame, Remaining)]]
               /\ ~(Remaining <= 0)
               /\ UNCHANGED <<hookStage, hookError, hookDone, pumpDisabled>>
      <4> DEFINE budget == IF closed THEN 0 ELSE Least(MaxCallsPerInboundFrame, Remaining)
                 new == [at |-> "popping", handled |-> 0, budget |-> budget]
      <4>1. budget \in Nat
        <5>1. MaxCallsPerInboundFrame \in Nat /\ MaxCallsTotal \in Nat
              /\ totalPumped \in Nat
          BY PumpAssumption DEF HookTypeOK
        <5> QED BY <5>1, <3>3 DEF Remaining, Least
      <4>2. new \in PumpStates /\ new.at = "popping"
        BY <4>1 DEF PumpStates
      <4> HIDE DEF new
      <4>3. pump' = [pump EXCEPT ![p] = new]
        BY <3>3 DEF new
      <4>4. pump' \in [Pumps -> PumpStates]
        BY <4>2, <4>3 DEF HookTypeOK
      <4>5. HookTypeOK'
        BY <3>1, <3>3, <4>4 DEF HookTypeOK
      <4>6. \A r \in Pumps : pump'[r] = IF r = p THEN new ELSE pump[r]
        BY <4>3 DEF HookTypeOK
      <4>7. HookInv'
        BY <1>b, <3>1, <3>3, <4>2, <4>6 DEF HookInv
      <4> QED BY <4>5, <4>7
    <3> QED BY <2>1, <3>2, <3>3 DEF PumpStarts
  <2>2. CASE PopHostCall(p)
    <3>1. /\ pump[p].at = "popping" /\ flushing[p] = <<>>
          /\ p = Hook => hookStage = "pumping"
          /\ arrived' = arrived
          /\ UNCHANGED <<kind, cell, deferred, observed, totalPumped, pumpDisabled,
                         flushing, wire>>
      BY <2>2, <1>b DEF PopHostCall, HookInv, HostReply
    <3>2. CASE /\ hostCalls # <<>>
               /\ hostCalls' = Tail(hostCalls)
               /\ handler' = [handler EXCEPT ![Head(hostCalls)] =
                                  IF closed THEN "done" ELSE "running"]
               /\ pump' = [pump EXCEPT ![p].handled = @ + 1]
               /\ UNCHANGED <<hookStage, hookError, hookDone>>
      <4>1. hostCalls' \in Seq(Frames)
        BY <3>2, HeadTailProperties DEF HookTypeOK
      <4>2. handler' \in [Frames -> {"none", "running", "settled", "flushing", "done"}]
        BY <3>2 DEF HookTypeOK
      <4>3. /\ pump' \in [Pumps -> PumpStates]
            /\ \A r \in Pumps : pump'[r].at = pump[r].at
        <5> DEFINE new == [pump[p] EXCEPT !.handled = @ + 1]
        <5>1. new \in PumpStates /\ new.at = pump[p].at
          BY <2>a, PumpGoesOn
        <5>2. pump' = [pump EXCEPT ![p] = new]
          BY <3>2
        <5> HIDE DEF new
        <5> QED BY <5>1, <5>2 DEF HookTypeOK
      <4> QED BY <1>b, <3>1, <3>2, <4>1, <4>2, <4>3 DEF HookTypeOK, HookInv
    <3>3. CASE /\ pump' = [pump EXCEPT ![p] = IdlePump]
               /\ PumpReturns(p, TRUE)
               /\ UNCHANGED <<hostCalls, handler>>
      BY <3>1, <3>3, <1>b, <1>c, <2>a, ReturnTyped DEF HookTypeOK, HookInv
    <3> QED BY <2>2, <3>2, <3>3 DEF PopHostCall
  <2>3. CASE PumpPopped(p)
    <3>1. /\ pump[p].at = "popping" /\ flushing[p] = <<>>
          /\ p = Hook => hookStage = "pumping"
          /\ totalPumped' = totalPumped + pump[p].handled
          /\ UNCHANGED <<kind, cell, deferred, observed, hostCalls, handler,
                         pumpDisabled, wire>>
      BY <2>3, <1>b DEF PumpPopped, HookInv
    <3>2. totalPumped' \in Nat
      BY <2>a, <3>1 DEF HookTypeOK, PumpStates
    <3>3. CASE /\ pump' = [pump EXCEPT ![p].at = "flushing"]
               /\ UNCHANGED sessionVars \/ Drain(p)
               /\ Drain(p) \/ UNCHANGED flushing
               /\ UNCHANGED <<hookStage, hookError, hookDone>>
      <4> DEFINE new == [pump[p] EXCEPT !.at = "flushing"]
      <4>1. new \in PumpStates /\ new.at = "flushing"
        BY <2>a, PumpGoesOn
      <4>2. pump' = [pump EXCEPT ![p] = new]
        BY <3>3
      <4> HIDE DEF new
      <4>3. /\ pump' \in [Pumps -> PumpStates]
            /\ \A r \in Pumps : pump'[r] = IF r = p THEN new ELSE pump[r]
        BY <4>1, <4>2 DEF HookTypeOK
      <4>4. /\ flushing' \in [Flushers -> Seq(Outbound)]
            /\ \A r \in Flushers : r # p => flushing'[r] = flushing[r]
        <5>1. CASE UNCHANGED flushing
          BY <5>1 DEF HookTypeOK
        <5>2. CASE Drain(p)
          <6> DEFINE front == SubSeq(queue, 1, Least(DrainLimit, Len(queue)))
          <6>1. front \in Seq(Outbound)
            BY FrontTyped
          <6>2. flushing' = [flushing EXCEPT ![p] = front]
            BY <5>2 DEF Drain
          <6> HIDE DEF front
          <6> QED BY <6>1, <6>2 DEF HookTypeOK
        <5> QED BY <3>3, <5>1, <5>2
      <4>5. arrived' = arrived
        BY <3>3 DEF Drain
      <4>6. HookTypeOK'
        BY <3>1, <3>2, <3>3, <4>3, <4>4, <4>5 DEF HookTypeOK
      <4>7. HookInv'
        BY <1>b, <3>1, <3>3, <4>1, <4>3, <4>4, <4>5 DEF HookInv
      <4> QED BY <4>6, <4>7
    <3>4. CASE /\ pump' = [pump EXCEPT ![p] = IdlePump]
               /\ PumpReturns(p, TRUE)
               /\ UNCHANGED <<sessionVars, flushing>>
      BY <3>1, <3>2, <3>4, <1>b, <1>c, <2>a, ReturnTyped DEF HookTypeOK, HookInv
    <3> QED BY <2>3, <3>3, <3>4 DEF PumpPopped
  <2>4. CASE PumpFlushed(p)
    <3> DEFINE failed == Remaining <= 0 /\ FailOnLimit
    <3>1. /\ pump[p].at = "flushing" /\ flushing[p] = <<>>
          /\ p = Hook => hookStage = "pumping"
          /\ pump' = [pump EXCEPT ![p] = IdlePump]
          /\ PumpReturns(p, failed)
          /\ UNCHANGED <<sessionVars, kind, cell, deferred, observed, hostCalls,
                         handler, totalPumped, flushing, wire>>
      BY <2>4 DEF PumpFlushed, HookInv
    <3>2. pumpDisabled' \in BOOLEAN /\ failed \in BOOLEAN
      BY <2>4 DEF PumpFlushed
    <3> HIDE DEF failed
    <3> QED BY <3>1, <3>2, <1>b, <1>c, <2>a, ReturnTyped DEF HookTypeOK, HookInv
  <2> QED BY <1>9, <2>1, <2>2, <2>3, <2>4 DEF PumpAction
<1>10. ASSUME NEW f \in Flushers, FlushSend(f) PROVE HookTypeOK' /\ HookInv'
  <2>1. /\ flushing[f] \in Seq(Outbound) /\ flushing[f] # <<>>
        /\ HookSend(Head(flushing[f]))
        /\ flushing' = [flushing EXCEPT ![f] = Tail(@)]
        /\ UNCHANGED <<sessionVars, kind, cell, hookDone, hookStage, hookError,
                       observed, callVars>>
    BY <1>10 DEF FlushSend, HookTypeOK
  <2>2. Head(flushing[f]) \in Outbound /\ Tail(flushing[f]) \in Seq(Outbound)
    BY <2>1, HeadTailProperties
  <2>3. deferred' \in [Frames -> Seq(Outbound)] /\ wire' \in Seq(Outbound)
    BY <2>1, <2>2, HookSendTyped
  <2>4. /\ flushing' \in [Flushers -> Seq(Outbound)]
        /\ \A r \in Flushers : flushing'[r] # <<>> => flushing[r] # <<>>
    BY <2>1, <2>2 DEF HookTypeOK
  <2> QED BY <1>b, <2>1, <2>3, <2>4 DEF HookTypeOK, HookInv, callVars
<1>11. ASSUME NEW f \in Flushers, FlushFails(f) PROVE HookTypeOK' /\ HookInv'
  <2>1. /\ flushing[f] # <<>>
        /\ flushing' = [flushing EXCEPT ![f] = <<>>]
        /\ UNCHANGED <<sessionVars, kind, cell, deferred, observed, hostCalls,
                       totalPumped, pumpDisabled, wire>>
    BY <1>11 DEF FlushFails
  <2>2. /\ flushing' \in [Flushers -> Seq(Outbound)]
        /\ flushing'[f] = <<>>
        /\ \A r \in Flushers : flushing'[r] # <<>> => flushing[r] # <<>>
    BY <2>1, EmptySeq DEF HookTypeOK
  <2>3. CASE /\ f \in Pumps
             /\ pump' = [pump EXCEPT ![f] = IdlePump]
             /\ PumpReturns(f, TRUE)
             /\ UNCHANGED handler
    <3>1. f = Hook => hookStage = "pumping"
      BY <2>1, <2>3 DEF HookInv
    <3>2. /\ hookStage' \in {"waiting", "pumping", "sending", "closing"}
          /\ hookError' \in BOOLEAN
          /\ hookDone' \in 0 .. arrived
          /\ hookStage' # "waiting" => hookDone' < arrived
          /\ f = Manual => UNCHANGED <<hookStage, hookError, hookDone>>
      BY <2>1, <2>3, <3>1, ReturnTyped
    <3>3. /\ pump' \in [Pumps -> PumpStates]
          /\ \A r \in Pumps : pump'[r] = IF r = f THEN IdlePump ELSE pump[r]
      BY <1>c, <2>3 DEF HookTypeOK
    <3>4. HookTypeOK'
      BY <2>1, <2>2, <2>3, <3>2, <3>3 DEF HookTypeOK
    <3>5. pump'[Hook].at # "idle" => hookStage' = "pumping"
      <4>1. CASE f = Hook
        BY <4>1, <3>3, <1>b, <1>c
      <4>2. CASE f = Manual
        BY <4>2, <3>2, <3>3, <1>b DEF HookInv
      <4> QED BY <2>3, <4>1, <4>2 DEF Pumps
    <3>6. \A r \in Pumps : flushing'[r] # <<>> => pump'[r].at = "flushing"
      <4> SUFFICES ASSUME NEW r \in Pumps, flushing'[r] # <<>>
                   PROVE  pump'[r].at = "flushing"
        OBVIOUS
      <4>1. r # f /\ flushing[r] # <<>>
        BY <1>b, <2>2
      <4> QED BY <4>1, <3>3 DEF HookInv
    <3> QED BY <2>1, <3>2, <3>4, <3>5, <3>6 DEF HookInv
  <2>4. CASE /\ f \notin Pumps
             /\ handler' = [handler EXCEPT ![f] = "done"]
             /\ UNCHANGED <<pump, hookStage, hookError, hookDone>>
    <3>1. handler' \in [Frames -> {"none", "running", "settled", "flushing", "done"}]
      BY <2>4 DEF HookTypeOK
    <3> QED BY <1>b, <2>1, <2>2, <2>4, <3>1 DEF HookTypeOK, HookInv
  <2> QED BY <1>11, <2>3, <2>4 DEF FlushFails
<1>12. ASSUME NEW c \in Frames, HandlerStep(c) PROVE HookTypeOK' /\ HookInv'
  <2>1. /\ UNCHANGED <<hookVars, hostCalls, pump, totalPumped, pumpDisabled, wire>>
        /\ arrived' = arrived
    BY <1>12 DEF HandlerStep, HandlerSettles, HandlerFlushes, Drain, HostReply
  <2>2. handler' \in [Frames -> {"none", "running", "settled", "flushing", "done"}]
    BY <1>12 DEF HandlerStep, HandlerSettles, HandlerFlushes, HookTypeOK
  <2>3. /\ flushing' \in [Flushers -> Seq(Outbound)]
        /\ \A r \in Pumps : flushing'[r] = flushing[r]
    <3>1. CASE UNCHANGED flushing
      BY <3>1 DEF HookTypeOK
    <3>2. CASE Drain(c)
      <4> DEFINE front == SubSeq(queue, 1, Least(DrainLimit, Len(queue)))
      <4>1. front \in Seq(Outbound)
        BY FrontTyped
      <4>2. flushing' = [flushing EXCEPT ![c] = front]
        BY <3>2 DEF Drain
      <4> HIDE DEF front
      <4> QED BY <1>b, <4>1, <4>2 DEF HookTypeOK
    <3> QED BY <1>12, <3>1, <3>2 DEF HandlerStep, HandlerSettles, HandlerFlushes
  <2> QED BY <1>b, <2>1, <2>2, <2>3 DEF HookTypeOK, HookInv, hookVars
<1> QED
  BY <1>1, <1>2, <1>3, <1>4, <1>5, <1>6, <1>7, <1>8, <1>9, <1>10, <1>11, <1>12
     DEF RuntimeNext, HookStep

\* The session's order and turns, and the hook's own invariant, with all types.
RuntimeInv == TypeOK /\ OrderInv /\ TurnInv /\ HookTypeOK /\ HookInv

LEMMA RuntimeKeeps ==
    /\ Init => RuntimeInv
    /\ RuntimeInv /\ [RuntimeNext]_runtimeVars => RuntimeInv'
<1>1. Init => RuntimeInv
  <2>1. Init => SessionInit
    BY DEF Init
  <2> QED BY <2>1, InitTyped, InitTurn, RuntimeInitTyped DEF RuntimeInv
<1>2. ASSUME RuntimeInv, [RuntimeNext]_runtimeVars PROVE RuntimeInv'
  <2>1. TypeOK' /\ OrderInv' /\ TurnInv'
    BY <1>2, SessionKept DEF RuntimeInv
  <2> QED BY <1>2, <2>1, RuntimeStepTyped DEF RuntimeInv
<1> QED BY <1>1, <1>2

\* In the runtime, with whatever drains the peer beside the session's pump: every
\* value is of its type, what the session hands over is in the order of its
\* production, and nothing a frame was answered with stays in the peer or the pump.
THEOREM RuntimeQueuesKept == ASSUME DrainsAll
                             PROVE  RuntimeSpec => []QueuesKept
<1> DEFINE Inv == RuntimeInv /\ DrainedInv
<1>1. Init => Inv
  BY RuntimeKeeps, InitTurn DEF Init
<1>2. Inv /\ [RuntimeNext]_runtimeVars => Inv'
  BY RuntimeKeeps, SessionKept DEF RuntimeInv
<1>3. Inv => QueuesKept
  <2> SUFFICES ASSUME Inv PROVE QueuesKept
    OBVIOUS
  <2>1. DOMAIN queue = 1 .. Len(queue) /\ DOMAIN sent = 1 .. Len(sent)
    BY LenProperties DEF RuntimeInv, TypeOK
  <2>2. RuntimeTypeOK
    BY TypesSplit DEF RuntimeInv
  <2>3. NothingLeftBehind
    BY <2>1 DEF RuntimeInv, OrderInv, DrainedInv, Answering, NothingLeftBehind
  <2>4. SentInOrder
    BY <2>1 DEF RuntimeInv, OrderInv, InOrder, SentInOrder
  <2> QED BY <2>2, <2>3, <2>4 DEF QueuesKept
<1> QED BY <1>1, <1>2, <1>3, PTL DEF RuntimeSpec

(***************************************************************************)
(* A frame is in one place.                                                *)
(***************************************************************************)
OnWirePlace == <<"wire", 0>>
InPump == <<"pump", 0>>
InPeer == <<"peer", 0>>
InHook(n) == <<"hook", n>>
InFlush(f) == <<"flush", f>>
Places == {OnWirePlace, InPump, InPeer} \cup {InHook(n) : n \in Frames}
              \cup {InFlush(f) : f \in Flushers}

\* The outbound frames in each place a frame passes on its way to the wire.
Held == [p \in Places |-> CASE p[1] = "wire" -> wire
                            [] p[1] = "pump" -> sending
                            [] p[1] = "peer" -> queue
                            [] p[1] = "hook" -> deferred[p[2]]
                            [] p[1] = "flush" -> flushing[p[2]]]

\* No number is held twice, and none beyond m.
Once(P, L, m) ==
    /\ \A p \in P : Within(L[p], m)
    /\ \A p, q \in P : \A i \in 1 .. Len(L[p]), j \in 1 .. Len(L[q]) :
           L[p][i].seq = L[q][j].seq => p = q /\ i = j

\* The head of one list moves to the end of another.
LEMMA HeadMoves ==
    ASSUME NEW P, NEW L \in [P -> Seq(Outbound)], NEW M \in [P -> Seq(Outbound)],
           NEW m \in Nat, NEW p \in P, NEW q \in P, p # q, Once(P, L, m),
           L[p] # <<>>, M[p] = Tail(L[p]), M[q] = Append(L[q], Head(L[p])),
           \A r \in P \ {p, q} : M[r] = L[r]
    PROVE  Once(P, M, m)
<1> DEFINE sp(r, i) == IF r = q /\ i = Len(L[q]) + 1 THEN p ELSE r
           si(r, i) == IF r = p THEN i + 1
                       ELSE IF r = q /\ i = Len(L[q]) + 1 THEN 1 ELSE i
<1>1. /\ Len(L[p]) \in Nat \ {0} /\ Len(L[q]) \in Nat
      /\ Len(M[p]) = Len(L[p]) - 1 /\ Len(M[q]) = Len(L[q]) + 1
      /\ \A i \in 1 .. Len(M[p]) : M[p][i] = L[p][i + 1]
      /\ \A i \in 1 .. Len(L[q]) : M[q][i] = L[q][i]
      /\ M[q][Len(L[q]) + 1] = L[p][1]
  <2>1. L[p] \in Seq(Outbound) /\ L[q] \in Seq(Outbound)
    OBVIOUS
  <2>2. Len(L[p]) \in Nat \ {0} /\ Len(L[q]) \in Nat
    BY <2>1, EmptySeq, LenProperties
  <2>3. Head(L[p]) = L[p][1] /\ Head(L[p]) \in Outbound
    <3>1. Head(L[p]) = L[p][1]
      BY <2>1
    <3> QED BY <2>1, <3>1, HeadTailProperties
  <2>4. /\ Len(M[p]) = Len(L[p]) - 1
        /\ \A i \in 1 .. Len(M[p]) : M[p][i] = L[p][i + 1]
    BY <2>1, <2>2, HeadTailProperties
  <2>5. /\ Len(M[q]) = Len(L[q]) + 1
        /\ \A i \in 1 .. Len(L[q]) : M[q][i] = L[q][i]
        /\ M[q][Len(L[q]) + 1] = L[p][1]
    BY <2>1, <2>3, AppendProperties
  <2> QED BY <2>2, <2>4, <2>5
<1>2. ASSUME NEW r \in P, NEW i \in 1 .. Len(M[r])
      PROVE  /\ sp(r, i) \in P /\ si(r, i) \in 1 .. Len(L[sp(r, i)])
             /\ M[r][i] = L[sp(r, i)][si(r, i)]
  <2>1. CASE r = p
    <3>1. sp(r, i) = p /\ si(r, i) = i + 1
      BY <2>1
    <3>2. i \in 1 .. Len(M[p]) /\ i + 1 \in 1 .. Len(L[p])
      BY <2>1, <1>1
    <3> HIDE DEF sp, si
    <3> QED BY <2>1, <3>1, <3>2, <1>1
  <2>2. CASE r = q /\ i = Len(L[q]) + 1
    <3>1. sp(r, i) = p /\ si(r, i) = 1 /\ 1 \in 1 .. Len(L[p])
      BY <2>2, <1>1
    <3> HIDE DEF sp, si
    <3> QED BY <2>2, <3>1, <1>1
  <2>4. CASE r = q /\ i # Len(L[q]) + 1
    <3>1. sp(r, i) = q /\ si(r, i) = i
      BY <2>4
    <3>2. i \in 1 .. Len(L[q])
      BY <2>4, <1>1
    <3> HIDE DEF sp, si
    <3> QED BY <2>4, <3>1, <3>2, <1>1
  <2>3. CASE r \notin {p, q}
    BY <2>3
  <2> QED BY <2>1, <2>2, <2>3, <2>4
<1>3. ASSUME NEW r \in P, NEW i \in 1 .. Len(M[r]),
             NEW s \in P, NEW j \in 1 .. Len(M[s]),
             sp(r, i) = sp(s, j), si(r, i) = si(s, j)
      PROVE  r = s /\ i = j
  <2>1. \A t \in P \ {p, q} : M[t] = L[t]
    OBVIOUS
  <2> QED BY <1>3, <1>1
<1> HIDE DEF sp, si
<1>4. \A r \in P : Within(M[r], m)
  <2> SUFFICES ASSUME NEW r \in P, NEW i \in 1 .. Len(M[r])
               PROVE  M[r][i].seq \in 1 .. m
    BY DEF Within
  <2>1. PICK u, g : u \in P /\ g \in 1 .. Len(L[u]) /\ M[r][i] = L[u][g]
    <3>1. /\ sp(r, i) \in P /\ si(r, i) \in 1 .. Len(L[sp(r, i)])
          /\ M[r][i] = L[sp(r, i)][si(r, i)]
      BY <1>2
    <3> QED BY ONLY <3>1
  <2> QED BY <2>1 DEF Once, Within
<1>5. ASSUME NEW r \in P, NEW s \in P, NEW i \in 1 .. Len(M[r]),
             NEW j \in 1 .. Len(M[s]), M[r][i].seq = M[s][j].seq
      PROVE  r = s /\ i = j
  <2>1. PICK u, g : /\ u \in P /\ g \in 1 .. Len(L[u])
                     /\ u = sp(r, i) /\ g = si(r, i) /\ M[r][i] = L[u][g]
    BY <1>2
  <2>2. PICK v, h : /\ v \in P /\ h \in 1 .. Len(L[v])
                     /\ v = sp(s, j) /\ h = si(s, j) /\ M[s][j] = L[v][h]
    BY <1>2
  <2>3. L[u][g].seq = L[v][h].seq
    BY <1>5, <2>1, <2>2
  <2>4. u = v /\ g = h
    <3>1. u \in P /\ v \in P /\ g \in 1 .. Len(L[u]) /\ h \in 1 .. Len(L[v])
      BY <2>1, <2>2
    <3>2. \A a \in P, b \in P : \A x \in 1 .. Len(L[a]), y \in 1 .. Len(L[b]) :
              L[a][x].seq = L[b][y].seq => a = b /\ x = y
      BY DEF Once
    <3> QED BY ONLY <3>1, <3>2, <2>3
  <2>5. /\ u = v => sp(r, i) = sp(s, j)
        /\ g = h => si(r, i) = si(s, j)
    BY <2>1, <2>2
  <2> QED BY <1>3, <2>4, <2>5
<1> QED BY <1>4, <1>5 DEF Once

\* The front of one list moves to another place, over what was there.
LEMMA FrontMoves ==
    ASSUME NEW P, NEW L \in [P -> Seq(Outbound)], NEW M \in [P -> Seq(Outbound)],
           NEW m \in Nat, NEW p \in P, NEW q \in P, p # q, Once(P, L, m),
           NEW d \in 0 .. Len(L[p]),
           M[p] = SubSeq(L[p], d + 1, Len(L[p])), M[q] = SubSeq(L[p], 1, d),
           \A r \in P \ {p, q} : M[r] = L[r]
    PROVE  Once(P, M, m)
<1> DEFINE sp(r) == IF r = q THEN p ELSE r
           si(r, i) == IF r = p THEN d + i ELSE i
<1>0. L[p] \in Seq(Outbound) /\ Len(L[p]) \in Nat
  BY LenProperties
<1>1. /\ Len(M[p]) = Len(L[p]) - d /\ Len(M[q]) = d
      /\ \A i \in 1 .. Len(L[p]) - d : M[p][i] = L[p][d + i]
      /\ \A i \in 1 .. d : M[q][i] = L[p][i]
  <2>1. \A i \in 1 .. Len(L[p]) : L[p][i] \in Outbound
    BY <1>0, ElementOfSeq
  <2>2. Len(M[p]) = Len(L[p]) - d
        /\ \A i \in 1 .. Len(L[p]) - d : M[p][i] = L[p][d + i]
    <3>1. \A i \in d + 1 .. Len(L[p]) : L[p][i] \in Outbound
      BY <1>0, <2>1
    <3> QED BY <1>0, <3>1, SubSeqProperties, Z3
  <2>3. Len(M[q]) = d /\ \A i \in 1 .. d : M[q][i] = L[p][i]
    <3>1. \A i \in 1 .. d : L[p][i] \in Outbound
      BY <1>0, <2>1
    <3> QED BY <1>0, <3>1, SubSeqProperties, Z3
  <2> QED BY <2>2, <2>3
<1>2. ASSUME NEW r \in P, NEW i \in 1 .. Len(M[r])
      PROVE  /\ sp(r) \in P /\ si(r, i) \in 1 .. Len(L[sp(r)])
             /\ M[r][i] = L[sp(r)][si(r, i)]
  <2>1. CASE r = p
    BY <2>1, <1>0, <1>1
  <2>2. CASE r = q
    BY <2>2, <1>0, <1>1
  <2>3. CASE r \notin {p, q}
    BY <2>3
  <2> QED BY <2>1, <2>2, <2>3
<1>3. ASSUME NEW r \in P, NEW i \in 1 .. Len(M[r]),
             NEW s \in P, NEW j \in 1 .. Len(M[s]),
             sp(r) = sp(s), si(r, i) = si(s, j)
      PROVE  r = s /\ i = j
  BY <1>3, <1>0, <1>1
<1> HIDE DEF sp, si
<1>4. \A r \in P : Within(M[r], m)
  <2> SUFFICES ASSUME NEW r \in P, NEW i \in 1 .. Len(M[r])
               PROVE  M[r][i].seq \in 1 .. m
    BY DEF Within
  <2>1. PICK u, g : u \in P /\ g \in 1 .. Len(L[u]) /\ M[r][i] = L[u][g]
    BY <1>2
  <2> QED BY <2>1 DEF Once, Within
<1>5. ASSUME NEW r \in P, NEW s \in P, NEW i \in 1 .. Len(M[r]),
             NEW j \in 1 .. Len(M[s]), M[r][i].seq = M[s][j].seq
      PROVE  r = s /\ i = j
  <2>1. PICK u, g : /\ u \in P /\ g \in 1 .. Len(L[u])
                     /\ u = sp(r) /\ g = si(r, i) /\ M[r][i] = L[u][g]
    BY <1>2
  <2>2. PICK v, h : /\ v \in P /\ h \in 1 .. Len(L[v])
                     /\ v = sp(s) /\ h = si(s, j) /\ M[s][j] = L[v][h]
    BY <1>2
  <2>3. L[u][g].seq = L[v][h].seq
    BY <1>5, <2>1, <2>2
  <2>4. u = v /\ g = h
    <3>1. u \in P /\ v \in P /\ g \in 1 .. Len(L[u]) /\ h \in 1 .. Len(L[v])
      BY <2>1, <2>2
    <3>2. \A a \in P, b \in P : \A x \in 1 .. Len(L[a]), y \in 1 .. Len(L[b]) :
              L[a][x].seq = L[b][y].seq => a = b /\ x = y
      BY DEF Once
    <3> QED BY ONLY <3>1, <3>2, <2>3
  <2>5. /\ u = v => sp(r) = sp(s)
        /\ g = h => si(r, i) = si(s, j)
    BY <2>1, <2>2
  <2> QED BY <1>3, <2>4, <2>5
<1> QED BY <1>4, <1>5 DEF Once

\* A list is dropped.
LEMMA ListDropped ==
    ASSUME NEW P, NEW L, NEW M, NEW m \in Nat, NEW p \in P, Once(P, L, m),
           Len(M[p]) = 0, \A r \in P \ {p} : M[r] = L[r]
    PROVE  Once(P, M, m)
<1>1. \A r \in P : \A i \in 1 .. Len(M[r]) : r # p /\ M[r] = L[r]
  OBVIOUS
<1>2. \A r \in P : Within(M[r], m)
  BY <1>1 DEF Once, Within
<1>3. ASSUME NEW r \in P, NEW s \in P, NEW i \in 1 .. Len(M[r]),
             NEW j \in 1 .. Len(M[s]), M[r][i].seq = M[s][j].seq
      PROVE  r = s /\ i = j
  <2>1. M[r] = L[r] /\ M[s] = L[s]
    BY <1>1
  <2> QED BY <2>1, <1>3 DEF Once
<1> QED BY <1>2, <1>3 DEF Once

\* A list grows by new numbers.
LEMMA ListGrows ==
    ASSUME NEW P, NEW L \in [P -> Seq(Outbound)], NEW M \in [P -> Seq(Outbound)],
           NEW m \in Nat, NEW k \in Nat, NEW p \in P, Once(P, L, m),
           Len(M[p]) = Len(L[p]) + k,
           \A i \in 1 .. Len(L[p]) : M[p][i] = L[p][i],
           \A i \in 1 .. k : M[p][Len(L[p]) + i].seq = m + i,
           \A r \in P \ {p} : M[r] = L[r]
    PROVE  Once(P, M, m + k)
<1>1. Len(L[p]) \in Nat
  BY LenProperties
<1>2. ASSUME NEW r \in P, NEW i \in 1 .. Len(M[r])
      PROVE  \/ /\ i \in 1 .. Len(L[r]) /\ M[r][i].seq = L[r][i].seq
                /\ M[r][i].seq \in 1 .. m
             \/ /\ r = p /\ i \notin 1 .. Len(L[r])
                /\ M[r][i].seq = m + (i - Len(L[p]))
                /\ i - Len(L[p]) \in 1 .. k
  <2>1. CASE r # p \/ i \in 1 .. Len(L[p])
    <3>1. i \in 1 .. Len(L[r]) /\ M[r][i] = L[r][i]
      BY <2>1
    <3> QED BY <3>1 DEF Once, Within
  <2>2. CASE r = p /\ i \notin 1 .. Len(L[p])
    <3>1. i - Len(L[p]) \in 1 .. k /\ i = Len(L[p]) + (i - Len(L[p]))
      BY <1>1, <2>2
    <3>2. M[p][Len(L[p]) + (i - Len(L[p]))].seq = m + (i - Len(L[p]))
      BY <3>1
    <3> QED BY <2>2, <3>1, <3>2
  <2> QED BY <2>1, <2>2
<1>3. \A r \in P : Within(M[r], m + k)
  <2> SUFFICES ASSUME NEW r \in P, NEW i \in 1 .. Len(M[r])
               PROVE  M[r][i].seq \in 1 .. m + k
    BY DEF Within
  <2> QED BY <1>1, <1>2
<1>4. ASSUME NEW r \in P, NEW s \in P, NEW i \in 1 .. Len(M[r]),
             NEW j \in 1 .. Len(M[s]), M[r][i].seq = M[s][j].seq
      PROVE  r = s /\ i = j
  <2>1. CASE i \in 1 .. Len(L[r])
    <3>1. M[r][i].seq \in 1 .. m /\ M[r][i].seq = L[r][i].seq
      BY <2>1, <1>2
    <3>2. j \in 1 .. Len(L[s]) /\ M[s][j].seq = L[s][j].seq
      BY <3>1, <1>1, <1>2, <1>4
    <3>3. L[r][i].seq = L[s][j].seq
      BY <3>1, <3>2, <1>4
    <3> QED BY <2>1, <3>2, <3>3 DEF Once
  <2>2. CASE i \notin 1 .. Len(L[r])
    <3>1. r = p /\ M[r][i].seq = m + (i - Len(L[p])) /\ i - Len(L[p]) \in 1 .. k
      BY <2>2, <1>2
    <3>2. s = p /\ M[s][j].seq = m + (j - Len(L[p])) /\ j - Len(L[p]) \in 1 .. k
      BY <3>1, <1>1, <1>2, <1>4
    <3> QED BY <3>1, <3>2, <1>1, <1>4
  <2> QED BY <2>1, <2>2
<1> QED BY <1>3, <1>4 DEF Once

\* Each place by its name.
PlacesHold ==
    /\ Held[OnWirePlace] = wire /\ Held[InPump] = sending /\ Held[InPeer] = queue
    /\ \A n \in Frames : Held[InHook(n)] = deferred[n]
    /\ \A f \in Flushers : Held[InFlush(f)] = flushing[f]
    /\ DOMAIN Held = Places
    /\ TypeOK /\ HookTypeOK => Held \in [Places -> Seq(Outbound)]

LEMMA HeldIs == PlacesHold
<1> USE DEF OnWirePlace, InPump, InPeer, InHook, InFlush
<1>1. Held[OnWirePlace] = wire /\ Held[InPump] = sending /\ Held[InPeer] = queue
  BY DEF Held, Places
<1>2. ASSUME NEW n \in Frames PROVE Held[InHook(n)] = deferred[n]
  BY DEF Held, Places
<1>3. ASSUME NEW f \in Flushers PROVE Held[InFlush(f)] = flushing[f]
  BY DEF Held, Places
<1>4. DOMAIN Held = Places
  BY DEF Held
<1>5. ASSUME TypeOK, HookTypeOK PROVE Held \in [Places -> Seq(Outbound)]
  <2> SUFFICES ASSUME NEW p \in Places PROVE Held[p] \in Seq(Outbound)
    BY DEF Held
  <2>1. CASE p \in {OnWirePlace, InPump, InPeer}
    BY <1>1, <1>5, <2>1 DEF TypeOK, HookTypeOK
  <2>2. ASSUME NEW n \in Frames, p = InHook(n) PROVE Held[p] \in Seq(Outbound)
    BY <1>2, <1>5, <2>2 DEF HookTypeOK
  <2>3. ASSUME NEW f \in Flushers, p = InFlush(f) PROVE Held[p] \in Seq(Outbound)
    BY <1>3, <1>5, <2>3 DEF HookTypeOK
  <2> QED BY <2>1, <2>2, <2>3 DEF Places
<1> QED BY <1>1, <1>2, <1>3, <1>4, <1>5 DEF PlacesHold

LEMMA HeldStays == PlacesHold'
BY HeldIs, PTL

\* The places are distinct.
LEMMA PlacesApart ==
    /\ OnWirePlace \in Places /\ InPump \in Places /\ InPeer \in Places
    /\ OnWirePlace # InPump /\ OnWirePlace # InPeer /\ InPump # InPeer
    /\ \A n \in Frames : /\ InHook(n) \in Places
                          /\ InHook(n) \notin {OnWirePlace, InPump, InPeer}
    /\ \A f \in Flushers : /\ InFlush(f) \in Places
                            /\ InFlush(f) \notin {OnWirePlace, InPump, InPeer}
    /\ \A n \in Frames, f \in Flushers : InHook(n) # InFlush(f)
    /\ \A n, m \in Frames : InHook(n) = InHook(m) => n = m
    /\ \A f, g \in Flushers : InFlush(f) = InFlush(g) => f = g
<1>1. /\ OnWirePlace \in Places /\ InPump \in Places /\ InPeer \in Places
      /\ \A n \in Frames : InHook(n) \in Places
      /\ \A f \in Flushers : InFlush(f) \in Places
  BY DEF Places
<1>2. /\ OnWirePlace # InPump /\ OnWirePlace # InPeer /\ InPump # InPeer
      /\ \A n : InHook(n) \notin {OnWirePlace, InPump, InPeer}
      /\ \A f : InFlush(f) \notin {OnWirePlace, InPump, InPeer}
      /\ \A n, f : InHook(n) # InFlush(f)
      /\ \A n, m : InHook(n) = InHook(m) => n = m
      /\ \A f, g : InFlush(f) = InFlush(g) => f = g
  BY DEF OnWirePlace, InPump, InPeer, InHook, InFlush
<1> QED BY <1>1, <1>2

LEMMA PlaceKinds ==
    ASSUME NEW p \in Places
    PROVE  \/ p \in {OnWirePlace, InPump, InPeer}
           \/ \E n \in Frames : p = InHook(n)
           \/ \E f \in Flushers : p = InFlush(f)
BY DEF Places

LEMMA CellIsFrame == ASSUME TypeOK, HookTypeOK, cell # 0 PROVE cell \in Frames
BY BoundsAssumption DEF HookTypeOK, TypeOK, Frames

OnceInv == Once(Places, Held, produced)

\* A frame that the hook is given leaves its place for the hook's list or the wire.
LEMMA HookTakes ==
    ASSUME TypeOK, HookTypeOK, TypeOK', HookTypeOK', OnceInv,
           NEW p \in Places, p # OnWirePlace, \A n \in Frames : p # InHook(n),
           Held[p] # <<>>, HookSend(Head(Held[p])), Held'[p] = Tail(Held[p]),
           \A r \in Places \ {p} : r # OnWirePlace /\ (\A n \in Frames : r # InHook(n))
               => Held'[r] = Held[r],
           produced' = produced
    PROVE  OnceInv'
<1> DEFINE q == IF cell # 0 THEN InHook(cell) ELSE OnWirePlace
           L == Held
           M == Held'
<1>1. /\ L \in [Places -> Seq(Outbound)] /\ M \in [Places -> Seq(Outbound)]
      /\ produced \in Nat
  BY HeldIs, HeldStays DEF PlacesHold, TypeOK
<1>2. cell # 0 => cell \in Frames
  BY CellIsFrame
<1>3. q \in Places /\ p # q
  BY <1>2, PlacesApart
<1>4. M[q] = Append(L[q], Head(L[p]))
  <2>1. CASE cell # 0
    <3>1. deferred'[cell] = Append(deferred[cell], Head(L[p]))
      BY <1>2, <2>1 DEF HookSend, HookTypeOK
    <3> QED BY <1>2, <2>1, <3>1, HeldIs, HeldStays DEF PlacesHold
  <2>2. CASE cell = 0
    <3>1. wire' = Append(wire, Head(L[p]))
      BY <2>2 DEF HookSend
    <3> QED BY <2>2, <3>1, HeldIs, HeldStays DEF PlacesHold
  <2> QED BY <2>1, <2>2
<1>5. ASSUME NEW r \in Places \ {p, q} PROVE M[r] = L[r]
  <2>1. CASE r = OnWirePlace
    <3>1. wire' = wire
      BY <2>1, <1>5 DEF HookSend
    <3> QED BY <2>1, <3>1, HeldIs, HeldStays DEF PlacesHold
  <2>2. ASSUME NEW n \in Frames, r = InHook(n) PROVE M[r] = L[r]
    <3>1. deferred'[n] = deferred[n]
      BY <2>2, <1>2, <1>5 DEF HookSend, HookTypeOK
    <3> QED BY <2>2, <3>1, HeldIs, HeldStays DEF PlacesHold
  <2> QED BY <1>5, <2>1, <2>2
<1>6. Once(Places, L, produced)
  BY DEF OnceInv
<1>7. M[p] = Tail(L[p]) /\ L[p] # <<>>
  OBVIOUS
<1> HIDE DEF L, M, q
<1>8. Once(Places, M, produced)
  BY <1>1, <1>3, <1>4, <1>5, <1>6, <1>7, HeadMoves
<1> QED BY <1>8 DEF M, OnceInv

\* A flush takes the front of the peer's queue, over what it had.
LEMMA FlushTakes ==
    ASSUME TypeOK, HookTypeOK, TypeOK', HookTypeOK', OnceInv,
           NEW f \in Flushers, Drain(f), UNCHANGED <<wire, deferred>>
    PROVE  OnceInv'
<1> DEFINE L == Held
           M == Held'
           d == Least(DrainLimit, Len(queue))
<1>1. /\ L \in [Places -> Seq(Outbound)] /\ M \in [Places -> Seq(Outbound)]
      /\ produced \in Nat /\ Len(queue) \in Nat
  BY HeldIs, HeldStays, LenProperties DEF PlacesHold, TypeOK
<1>2. d \in 0 .. Len(queue)
  BY <1>1, BoundsAssumption DEF Least
<1>3. /\ queue' = SubSeq(queue, d + 1, Len(queue))
      /\ flushing' = [flushing EXCEPT ![f] = SubSeq(queue, 1, d)]
      /\ UNCHANGED <<sending, produced>>
  BY DEF Drain, pumpVars
<1> HIDE DEF d
<1>4. L[InPeer] = queue /\ M[InPeer] = SubSeq(L[InPeer], d + 1, Len(L[InPeer]))
  BY <1>3, HeldIs, HeldStays DEF PlacesHold
<1>5. M[InFlush(f)] = SubSeq(L[InPeer], 1, d)
  <2>1. flushing'[f] = SubSeq(queue, 1, d)
    BY <1>3 DEF HookTypeOK
  <2> QED BY <1>4, <2>1, HeldStays DEF PlacesHold
<1>6. ASSUME NEW r \in Places \ {InPeer, InFlush(f)} PROVE M[r] = L[r]
  <2>1. CASE r \in {OnWirePlace, InPump}
    BY <1>3, <2>1, HeldIs, HeldStays DEF PlacesHold
  <2>2. ASSUME NEW n \in Frames, r = InHook(n) PROVE M[r] = L[r]
    BY <2>2, HeldIs, HeldStays DEF PlacesHold
  <2>3. ASSUME NEW g \in Flushers, r = InFlush(g) PROVE M[r] = L[r]
    <3>1. flushing'[g] = flushing[g]
      BY <1>3, <1>6, <2>3 DEF HookTypeOK
    <3> QED BY <2>3, <3>1, HeldIs, HeldStays DEF PlacesHold
  <2> QED BY <1>6, <2>1, <2>2, <2>3, PlaceKinds
<1>7. Once(Places, L, produced)
  BY DEF OnceInv
<1>8. InPeer \in Places /\ InFlush(f) \in Places /\ InPeer # InFlush(f)
  BY PlacesApart
<1>9. d \in 0 .. Len(L[InPeer])
  BY <1>2, <1>4
<1> HIDE DEF L, M
<1>10. Once(Places, M, produced)
  BY <1>1, <1>4, <1>5, <1>6, <1>7, <1>8, <1>9, FrontMoves
<1> QED BY <1>3, <1>10 DEF M, OnceInv

\* What the peer makes of a frame gets new numbers before the pump drains it.
LEMMA PushTakes ==
    ASSUME TypeOK, HookTypeOK, TypeOK', HookTypeOK', OnceInv,
           NEW n \in 0 .. MaxFrames, NEW k \in Nat, PushFrame(n, k),
           UNCHANGED <<wire, deferred, flushing>>
    PROVE  OnceInv'
<1> DEFINE L == Held
           N == [Held EXCEPT ![InPeer] = queue \o Replies(n, k)]
           M == Held'
           d == IF Len(N[InPeer]) < DrainLimit THEN Len(N[InPeer]) ELSE DrainLimit
<1>1. /\ L \in [Places -> Seq(Outbound)] /\ M \in [Places -> Seq(Outbound)]
      /\ produced \in Nat /\ queue \in Seq(Outbound) /\ Len(queue) \in Nat
      /\ L[InPeer] = queue /\ InPeer \in Places /\ InPump \in Places
      /\ InPeer # InPump
  BY HeldIs, HeldStays, LenProperties, PlacesApart DEF PlacesHold, TypeOK
<1>2. /\ Replies(n, k) \in Seq(Outbound) /\ Len(Replies(n, k)) = k
      /\ \A i \in 1 .. k : Replies(n, k)[i] = [of |-> n, seq |-> produced + i]
  BY <1>1, RepliesMade
<1>3. /\ queue \o Replies(n, k) \in Seq(Outbound)
      /\ Len(queue \o Replies(n, k)) = Len(queue) + k
      /\ \A i \in 1 .. Len(queue) : (queue \o Replies(n, k))[i] = queue[i]
      /\ \A i \in 1 .. k : (queue \o Replies(n, k))[Len(queue) + i].seq = produced + i
  <2> DEFINE new == Replies(n, k)
  <2>1. new \in Seq(Outbound) /\ Len(new) = k
        /\ \A i \in 1 .. k : new[i].seq = produced + i
    BY <1>2
  <2> HIDE DEF new
  <2>2. /\ queue \o new \in Seq(Outbound)
        /\ Len(queue \o new) = Len(queue) + k
        /\ \A i \in 1 .. Len(queue) + k :
               (queue \o new)[i] = IF i <= Len(queue) THEN queue[i] ELSE new[i - Len(queue)]
    BY <2>1, <1>1, ConcatProperties
  <2>3. ASSUME NEW i \in 1 .. k PROVE (queue \o new)[Len(queue) + i] = new[i]
    <3>1. /\ Len(queue) + i \in 1 .. Len(queue) + k /\ ~(Len(queue) + i <= Len(queue))
          /\ Len(queue) + i - Len(queue) = i
      BY <1>1
    <3> QED BY <2>2, <3>1
  <2>4. \A i \in 1 .. Len(queue) : (queue \o new)[i] = queue[i]
    BY <2>2, <1>1
  <2> HIDE DEF new
  <2>5. \A i \in 1 .. k : (queue \o new)[Len(queue) + i].seq = produced + i
    BY <2>1, <2>3
  <2> QED BY <2>2, <2>4, <2>5 DEF new
<1>4. /\ N \in [Places -> Seq(Outbound)]
      /\ N[InPeer] = queue \o Replies(n, k)
      /\ \A r \in Places \ {InPeer} : N[r] = L[r]
  BY <1>1, <1>3
<1>5. /\ sending' = SubSeq(N[InPeer], 1, d)
      /\ queue' = SubSeq(N[InPeer], d + 1, Len(N[InPeer]))
      /\ produced' = produced + k
  BY <1>4 DEF PushFrame
<1>6. d \in 0 .. Len(N[InPeer])
  BY <1>1, <1>3, <1>4, BoundsAssumption
<1>7. ASSUME NEW r \in Places \ {InPeer, InPump} PROVE M[r] = L[r]
  <2>1. CASE r = OnWirePlace
    BY <2>1, HeldIs, HeldStays DEF PlacesHold
  <2>2. ASSUME NEW m \in Frames, r = InHook(m) PROVE M[r] = L[r]
    BY <2>2, HeldIs, HeldStays DEF PlacesHold
  <2>3. ASSUME NEW f \in Flushers, r = InFlush(f) PROVE M[r] = L[r]
    BY <2>3, HeldIs, HeldStays DEF PlacesHold
  <2> QED BY <1>7, <2>1, <2>2, <2>3, PlaceKinds
<1>8. M[InPeer] = queue' /\ M[InPump] = sending'
  BY HeldStays DEF PlacesHold
<1>9. Once(Places, L, produced)
  BY DEF OnceInv
<1> HIDE DEF L, M, N, d
<1>10. Once(Places, N, produced + k)
  <2>1. /\ Len(N[InPeer]) = Len(L[InPeer]) + k
        /\ \A i \in 1 .. Len(L[InPeer]) : N[InPeer][i] = L[InPeer][i]
        /\ \A i \in 1 .. k : N[InPeer][Len(L[InPeer]) + i].seq = produced + i
    BY <1>1, <1>3, <1>4
  <2> QED BY <2>1, <1>1, <1>4, <1>9, ListGrows
<1>11. \A r \in Places \ {InPeer, InPump} : M[r] = N[r]
  BY <1>4, <1>7
<1>12. Once(Places, M, produced + k)
  <2>1. /\ M[InPeer] = SubSeq(N[InPeer], d + 1, Len(N[InPeer]))
        /\ M[InPump] = SubSeq(N[InPeer], 1, d)
    BY <1>5, <1>8
  <2>2. produced + k \in Nat
    BY <1>1
  <2> QED BY ONLY <2>1, <2>2, <1>1, <1>4, <1>6, <1>10, <1>11, FrontMoves
<1> QED BY <1>5, <1>12 DEF M, OnceInv

\* An answer of the host gets a new number.
LEMMA AnswerTakes ==
    ASSUME TypeOK, HookTypeOK, TypeOK', HookTypeOK', OnceInv, HostReply,
           UNCHANGED <<wire, deferred, flushing>>
    PROVE  OnceInv'
<1> DEFINE L == Held
           M == Held'
           e == [of |-> 0, seq |-> produced + 1]
<1>1. /\ L \in [Places -> Seq(Outbound)] /\ M \in [Places -> Seq(Outbound)]
      /\ produced \in Nat /\ queue \in Seq(Outbound) /\ Len(queue) \in Nat
      /\ L[InPeer] = queue /\ M[InPeer] = queue' /\ InPeer \in Places
  BY HeldIs, HeldStays, LenProperties, PlacesApart DEF PlacesHold, TypeOK
<1>2. e \in Outbound /\ e.seq = produced + 1
  BY <1>1, BoundsAssumption DEF Outbound
<1>3. queue' = Append(queue, e) /\ produced' = produced + 1 /\ UNCHANGED sending
  BY DEF HostReply, pumpVars
<1> HIDE DEF e
<1>4. /\ Len(queue') = Len(queue) + 1
      /\ \A i \in 1 .. Len(queue) : queue'[i] = queue[i]
      /\ queue'[Len(queue) + 1] = e
  BY <1>1, <1>2, <1>3, AppendProperties
<1>5. \A i \in 1 .. 1 : queue'[Len(queue) + i].seq = produced + i
  BY <1>2, <1>4
<1>6. ASSUME NEW r \in Places \ {InPeer} PROVE M[r] = L[r]
  <2>1. CASE r \in {OnWirePlace, InPump}
    BY <1>3, <2>1, HeldIs, HeldStays DEF PlacesHold
  <2>2. ASSUME NEW m \in Frames, r = InHook(m) PROVE M[r] = L[r]
    BY <2>2, HeldIs, HeldStays DEF PlacesHold
  <2>3. ASSUME NEW f \in Flushers, r = InFlush(f) PROVE M[r] = L[r]
    BY <2>3, HeldIs, HeldStays DEF PlacesHold
  <2> QED BY <1>6, <2>1, <2>2, <2>3, PlaceKinds
<1>7. Once(Places, L, produced)
  BY DEF OnceInv
<1> HIDE DEF L, M
<1>8. Once(Places, M, produced + 1)
  BY <1>1, <1>4, <1>5, <1>6, <1>7, ListGrows
<1> QED BY <1>3, <1>8 DEF M, OnceInv

\* A frame deferred for a task goes out on the wire.
LEMMA DeferredTakes ==
    ASSUME TypeOK, HookTypeOK, TypeOK', HookTypeOK', OnceInv, NEW n \in Frames,
           deferred[n] # <<>>, wire' = Append(wire, Head(deferred[n])),
           deferred' = [deferred EXCEPT ![n] = Tail(@)],
           UNCHANGED <<sending, queue, flushing, produced>>
    PROVE  OnceInv'
<1> DEFINE L == Held
           M == Held'
           p == InHook(n)
<1>1. /\ L \in [Places -> Seq(Outbound)] /\ M \in [Places -> Seq(Outbound)]
      /\ produced \in Nat /\ p \in Places /\ OnWirePlace \in Places
      /\ p # OnWirePlace
  BY HeldIs, HeldStays, PlacesApart DEF PlacesHold, TypeOK
<1>2. /\ L[p] = deferred[n] /\ L[OnWirePlace] = wire
      /\ M[p] = Tail(deferred[n]) /\ M[OnWirePlace] = wire'
  <2>1. deferred'[n] = Tail(deferred[n])
    BY DEF HookTypeOK
  <2> QED BY <2>1, HeldIs, HeldStays DEF PlacesHold
<1>3. ASSUME NEW r \in Places \ {p, OnWirePlace} PROVE M[r] = L[r]
  <2>1. CASE r \in {InPump, InPeer}
    BY <2>1, HeldIs, HeldStays DEF PlacesHold
  <2>2. ASSUME NEW m \in Frames, r = InHook(m) PROVE M[r] = L[r]
    <3>1. deferred'[m] = deferred[m]
      BY <1>3, <2>2 DEF HookTypeOK
    <3> QED BY <2>2, <3>1, HeldIs, HeldStays DEF PlacesHold
  <2>3. ASSUME NEW f \in Flushers, r = InFlush(f) PROVE M[r] = L[r]
    BY <2>3, HeldIs, HeldStays DEF PlacesHold
  <2> QED BY <1>3, <2>1, <2>2, <2>3, PlaceKinds
<1>4. Once(Places, L, produced)
  BY DEF OnceInv
<1> HIDE DEF L, M, p
<1>5. Once(Places, M, produced)
  <2>1. L[p] # <<>> /\ M[p] = Tail(L[p]) /\ M[OnWirePlace] = Append(L[OnWirePlace], Head(L[p]))
    BY <1>2
  <2> QED BY <1>1, <1>3, <1>4, <2>1, HeadMoves
<1> QED BY <1>5 DEF M, OnceInv

LEMMA OnceStep ==
    ASSUME TypeOK, HookTypeOK, HookInv, TypeOK', HookTypeOK', OnceInv,
           [RuntimeNext]_runtimeVars
    PROVE  OnceInv'
<1> USE DEF sessionVars, lifeVars, pumpVars, peerVars
<1>0. ASSUME UNCHANGED <<wire, sending, queue, deferred, flushing, produced>>
      PROVE  OnceInv'
  <2>1. Held' = Held
    BY <1>0 DEF Held
  <2> QED BY <1>0, <2>1 DEF OnceInv
<1>1. CASE UNCHANGED runtimeVars
  BY <1>1, <1>0 DEF runtimeVars, hookVars
<1>2. CASE SessionAlone
  BY <1>2, <1>0 DEF SessionAlone, StartBegin, StartEnd, Close, CloseStep,
                    CloseTransport, ClosePeer, RemoteClose, hookVars
<1>3. ASSUME NEW k \in FrameKinds, HookArrive(k) PROVE OnceInv'
  BY <1>3, <1>0 DEF HookArrive, Arrive
<1>4. ASSUME NEW k \in 0 .. MaxReplies, HookBeginPump(k) PROVE OnceInv'
  <2>1. begun + 1 \in 0 .. MaxFrames /\ k \in Nat /\ UNCHANGED <<wire, deferred, flushing>>
    BY <1>4, BoundsAssumption DEF HookBeginPump, BeginPump, TypeOK
  <2>2. CASE PushFrame(begun + 1, k)
    BY <2>1, <2>2, PushTakes
  <2>3. CASE UNCHANGED <<pumping, sending, peerVars>>
    BY <2>1, <2>3, <1>0
  <2> QED BY <1>4, <2>2, <2>3 DEF HookBeginPump, BeginPump
<1>5. CASE HookPumpSend
  <2>1. /\ sending # <<>> /\ sending' = Tail(sending) /\ HookSend(Head(sending))
        /\ UNCHANGED <<queue, flushing, produced>>
    BY <1>5 DEF HookPumpSend, PumpSend
  <2>2. /\ Held[InPump] = sending /\ Held'[InPump] = sending'
        /\ InPump \in Places /\ InPump # OnWirePlace
        /\ \A n \in Frames : InPump # InHook(n)
    BY HeldIs, HeldStays, PlacesApart DEF PlacesHold
  <2>3. ASSUME NEW r \in Places \ {InPump}, r # OnWirePlace,
               \A n \in Frames : r # InHook(n)
        PROVE  Held'[r] = Held[r]
    <3>1. CASE r = InPeer
      BY <2>1, <3>1, HeldIs, HeldStays DEF PlacesHold
    <3>2. ASSUME NEW f \in Flushers, r = InFlush(f) PROVE Held'[r] = Held[r]
      BY <2>1, <3>2, HeldIs, HeldStays DEF PlacesHold
    <3> QED BY <2>3, <3>1, <3>2, PlaceKinds
  <2> QED BY <2>1, <2>2, <2>3, HookTakes
<1>6. CASE HookPumpEnd
  BY <1>6, <1>0 DEF HookPumpEnd, SkipFrame, PumpEnd
<1>7. CASE HookGivesUp \/ HookObserves \/ HookRefused \/ HookClosed
  BY <1>7, <1>0 DEF HookGivesUp, HookObserves, HookRefused, HookClosed, Close
<1>8. CASE HookSendsDeferred
  <2>1. CASE UNCHANGED <<deferred, wire>>
    BY <1>8, <2>1, <1>0 DEF HookSendsDeferred
  <2>2. CASE /\ deferred[Task] # <<>>
             /\ wire' = Append(wire, Head(deferred[Task]))
             /\ deferred' = [deferred EXCEPT ![Task] = Tail(@)]
    <3>1. Task \in Frames /\ UNCHANGED <<sending, queue, flushing, produced>>
      BY <1>8, BoundsAssumption DEF HookSendsDeferred, HookInv, HookTypeOK, TypeOK,
                                    Task, Frames
    <3> QED BY <2>2, <3>1, DeferredTakes
  <2> QED BY <1>8, <2>1, <2>2 DEF HookSendsDeferred
<1>9. ASSUME NEW p \in Pumps, PumpAction(p) PROVE OnceInv'
  <2>0. p \in Flushers
    BY DEF Flushers
  <2>1. CASE PumpStarts(p) \/ PumpFlushed(p)
    BY <2>1, <1>0 DEF PumpStarts, PumpFlushed
  <2>2. CASE PopHostCall(p)
    <3>1. UNCHANGED <<wire, deferred, flushing>> /\ (HostReply \/ UNCHANGED sessionVars)
      BY <2>2 DEF PopHostCall
    <3> QED BY <3>1, <1>0, AnswerTakes
  <2>3. CASE PumpPopped(p)
    <3>1. UNCHANGED <<wire, deferred>>
          /\ (Drain(p) \/ UNCHANGED <<sessionVars, flushing>>)
      BY <2>3 DEF PumpPopped
    <3> QED BY <2>0, <3>1, <1>0, FlushTakes
  <2> QED BY <1>9, <2>1, <2>2, <2>3 DEF PumpAction
<1>10. ASSUME NEW f \in Flushers, FlushSend(f) PROVE OnceInv'
  <2>1. /\ flushing[f] # <<>> /\ flushing'[f] = Tail(flushing[f])
        /\ HookSend(Head(flushing[f]))
        /\ \A g \in Flushers \ {f} : flushing'[g] = flushing[g]
        /\ UNCHANGED <<queue, sending, produced>>
    BY <1>10 DEF FlushSend, HookTypeOK
  <2>2. /\ Held[InFlush(f)] = flushing[f] /\ Held'[InFlush(f)] = flushing'[f]
        /\ InFlush(f) \in Places /\ InFlush(f) # OnWirePlace
        /\ \A n \in Frames : InFlush(f) # InHook(n)
    BY HeldIs, HeldStays, PlacesApart DEF PlacesHold
  <2>3. ASSUME NEW r \in Places \ {InFlush(f)}, r # OnWirePlace,
               \A n \in Frames : r # InHook(n)
        PROVE  Held'[r] = Held[r]
    <3>1. CASE r \in {InPump, InPeer}
      BY <2>1, <3>1, HeldIs, HeldStays DEF PlacesHold
    <3>2. ASSUME NEW g \in Flushers, r = InFlush(g) PROVE Held'[r] = Held[r]
      BY <2>1, <2>3, <3>2, HeldIs, HeldStays DEF PlacesHold
    <3> QED BY <2>3, <3>1, <3>2, PlaceKinds
  <2> QED BY <2>1, <2>2, <2>3, HookTakes
<1>11. ASSUME NEW f \in Flushers, FlushFails(f) PROVE OnceInv'
  <2>1. /\ flushing'[f] = <<>>
        /\ \A g \in Flushers \ {f} : flushing'[g] = flushing[g]
        /\ UNCHANGED <<queue, sending, produced, wire, deferred>>
    BY <1>11 DEF FlushFails, HookTypeOK
  <2> DEFINE L == Held
             M == Held'
  <2>2. InFlush(f) \in Places /\ Len(M[InFlush(f)]) = 0 /\ produced \in Nat
    BY <2>1, HeldStays, PlacesApart, EmptySeq DEF PlacesHold, TypeOK
  <2>3. ASSUME NEW r \in Places \ {InFlush(f)} PROVE M[r] = L[r]
    <3>1. CASE r \in {OnWirePlace, InPump, InPeer}
      BY <2>1, <3>1, HeldIs, HeldStays DEF PlacesHold
    <3>2. ASSUME NEW n \in Frames, r = InHook(n) PROVE M[r] = L[r]
      BY <2>1, <3>2, HeldIs, HeldStays DEF PlacesHold
    <3>3. ASSUME NEW g \in Flushers, r = InFlush(g) PROVE M[r] = L[r]
      BY <2>1, <2>3, <3>3, HeldIs, HeldStays DEF PlacesHold
    <3> QED BY <3>1, <3>2, <3>3, PlaceKinds
  <2>4. Once(Places, L, produced)
    BY DEF OnceInv
  <2> HIDE DEF L, M
  <2>5. Once(Places, M, produced)
    BY <2>2, <2>3, <2>4, ListDropped
  <2> QED BY <2>1, <2>5 DEF M, OnceInv
<1>12. ASSUME NEW c \in Frames, HandlerStep(c) PROVE OnceInv'
  <2>1. c \in Flushers
    BY DEF Flushers
  <2>2. /\ UNCHANGED <<wire, deferred>>
        /\ \/ HostReply /\ UNCHANGED flushing
           \/ Drain(c)
           \/ UNCHANGED <<sessionVars, flushing>>
    BY <1>12 DEF HandlerStep, HandlerSettles, HandlerFlushes, hookVars
  <2> QED BY <2>1, <2>2, <1>0, AnswerTakes, FlushTakes
<1> QED
  BY <1>1, <1>2, <1>3, <1>4, <1>5, <1>6, <1>7, <1>8, <1>9, <1>10, <1>11, <1>12
     DEF RuntimeNext, HookStep

LEMMA OnceOnWire == ASSUME TypeOK, HookTypeOK, OnceInv PROVE NoFrameTwice
<1> DEFINE S == 1 .. Len(wire)
           g == [i \in S |-> wire[i].seq]
<1>1. Len(wire) \in Nat /\ DOMAIN wire = S
  BY LenProperties DEF HookTypeOK
<1>2. \A i, j \in S : wire[i].seq = wire[j].seq => i = j
  BY HeldIs, PlacesApart DEF PlacesHold, OnceInv, Once
<1>3. OnWire = {wire[i].seq : i \in S}
  BY <1>1 DEF OnWire
<1>4. g \in [S -> OnWire]
  BY <1>3
<1>5. \A i, j \in S : g[i] = g[j] => i = j
  BY <1>2
<1>6. \A t \in OnWire : \E i \in S : g[i] = t
  BY <1>3
<1> HIDE DEF g
<1>7. g \in Bijection(S, OnWire)
  BY <1>4, <1>5, <1>6 DEF Bijection, Injection, Surjection, IsInjective
<1>8. ExistsBijection(S, OnWire)
  BY <1>7 DEF ExistsBijection
<1>9. IsFiniteSet(S) /\ Cardinality(S) = Len(wire)
  <2>1. /\ IsFiniteSet(1 .. Len(wire))
        /\ Cardinality(1 .. Len(wire)) =
               IF 1 > Len(wire) THEN 0 ELSE Len(wire) - 1 + 1
    BY <1>1, FS_Interval
  <2> QED BY <1>1, <2>1
<1>10. Cardinality(OnWire) = Cardinality(S)
  BY <1>8, <1>9, FS_Bijection
<1> QED BY <1>9, <1>10 DEF NoFrameTwice

LEMMA InitOnce == Init => OnceInv
<1> SUFFICES ASSUME Init PROVE OnceInv
  OBVIOUS
<1>1. /\ wire = <<>> /\ sending = <<>> /\ queue = <<>>
      /\ \A n \in Frames : deferred[n] = <<>>
      /\ \A f \in Flushers : flushing[f] = <<>>
  BY DEF Init, SessionInit
<1>2. ASSUME NEW p \in Places PROVE Len(Held[p]) = 0
  <2>1. Held[p] = <<>>
    BY <1>1, HeldIs, PlaceKinds DEF PlacesHold
  <2> QED BY <2>1, EmptySeq
<1> QED BY <1>2 DEF OnceInv, Once, Within

\* The session's pump, the hook, the pumps of host calls and the flush of every
\* handler drain the same queue: no frame goes out on the wire twice.
THEOREM FramesGoOnce == RuntimeSpec => []NoFrameTwice
<1> DEFINE Inv == RuntimeInv /\ OnceInv
<1>1. Init => Inv
  BY RuntimeKeeps, InitOnce
<1>2. Inv /\ [RuntimeNext]_runtimeVars => Inv'
  BY RuntimeKeeps, OnceStep DEF RuntimeInv
<1>3. Inv => NoFrameTwice
  BY OnceOnWire DEF RuntimeInv
<1> QED BY <1>1, <1>2, <1>3, PTL DEF RuntimeSpec

(***************************************************************************)
(* A bootstrap answer waits for the bridge.                                *)
(***************************************************************************)
\* With a transport that waits, one frame at a time is without an outcome, and the
\* list in place is that of this frame.
CellInv ==
    /\ arrived <= SettledCount + 1
    /\ pumping => cell = begun
    /\ begun < arrived => cell = arrived

\* A flush holds answers of the host only, and a frame's list its own besides.
ListsInv ==
    /\ \A f \in Flushers : Answering(flushing[f], {0})
    /\ \A n \in Frames : Answering(deferred[n], {0, n})

\* A task that has observed its frame holds no answer the bridge does not know.
TaskObserved ==
    hookStage \in {"pumping", "sending"} =>
        /\ Task <= SettledCount
        /\ kind[Task] = "bootstrap" /\ ~Answering(deferred[Task], {0})
               => Task \in observed

WireObserved ==
    \A i \in 1 .. Len(wire) :
        /\ wire[i].of <= arrived
        /\ wire[i].of # 0 /\ kind[wire[i].of] = "bootstrap" => wire[i].of \in observed

\* The steps by what they do to the lists of the hook and of the flushes.
PumpHandsOver ==
    /\ pumping /\ sending # <<>> /\ HookSend(Head(sending))
    /\ UNCHANGED <<flushing, cell>>
TaskSends ==
    /\ hookStage = "sending" /\ Task \in Frames /\ deferred[Task] # <<>>
    /\ wire' = Append(wire, Head(deferred[Task]))
    /\ deferred' = [deferred EXCEPT ![Task] = Tail(@)]
    /\ UNCHANGED flushing
FlushDrops(f) ==
    flushing' = [flushing EXCEPT ![f] = <<>>] /\ UNCHANGED <<deferred, wire>>

LEMMA ListKinds ==
    ASSUME TypeOK, HookTypeOK, HookInv, [RuntimeNext]_runtimeVars
    PROVE  \/ UNCHANGED <<deferred, flushing, wire>>
           \/ PumpHandsOver \/ TaskSends
           \/ \E f \in Flushers : \/ Drain(f) /\ UNCHANGED <<deferred, wire>>
                                  \/ FlushSend(f)
                                  \/ FlushDrops(f)
<1>1. CASE UNCHANGED runtimeVars
  BY <1>1 DEF runtimeVars, hookVars
<1>2. CASE SessionAlone
  BY <1>2 DEF SessionAlone, hookVars
<1>3. ASSUME NEW k \in FrameKinds, HookArrive(k)
      PROVE  UNCHANGED <<deferred, flushing, wire>>
  BY <1>3 DEF HookArrive
<1>4. ASSUME NEW k \in 0 .. MaxReplies, HookBeginPump(k)
      PROVE  UNCHANGED <<deferred, flushing, wire>>
  BY <1>4 DEF HookBeginPump
<1>5. HookPumpSend => PumpHandsOver
  BY DEF HookPumpSend, PumpSend, PumpHandsOver
<1>6. HookPumpEnd \/ HookGivesUp \/ HookObserves \/ HookRefused \/ HookClosed
          => UNCHANGED <<deferred, flushing, wire>>
  BY DEF HookPumpEnd, HookGivesUp, HookObserves, HookRefused, HookClosed
<1>7. CASE HookSendsDeferred
  <2>1. Task \in Frames
    BY <1>7, BoundsAssumption DEF HookSendsDeferred, HookInv, HookTypeOK, TypeOK, Task,
                                  Frames
  <2> QED BY <1>7, <2>1 DEF HookSendsDeferred, TaskSends
<1>8. ASSUME NEW p \in Pumps, PumpAction(p)
      PROVE  \/ UNCHANGED <<deferred, flushing, wire>>
             \/ p \in Flushers /\ Drain(p) /\ UNCHANGED <<deferred, wire>>
  <2>1. p \in Flushers
    BY DEF Flushers
  <2> QED BY <1>8, <2>1 DEF PumpAction, PumpStarts, PopHostCall, PumpPopped, PumpFlushed
<1>9. ASSUME NEW f \in Flushers, FlushFails(f) PROVE FlushDrops(f)
  BY <1>9 DEF FlushFails, FlushDrops
<1>10. ASSUME NEW c \in Frames, HandlerStep(c)
       PROVE  \/ UNCHANGED <<deferred, flushing, wire>>
              \/ c \in Flushers /\ Drain(c) /\ UNCHANGED <<deferred, wire>>
  <2>1. c \in Flushers
    BY DEF Flushers
  <2> QED BY <1>10, <2>1 DEF HandlerStep, HandlerSettles, HandlerFlushes, hookVars
<1> QED
  BY <1>1, <1>2, <1>3, <1>4, <1>5, <1>6, <1>7, <1>8, <1>9, <1>10
     DEF RuntimeNext, HookStep

\* A task goes on with its frame, or has just observed it.
LEMMA TaskKinds ==
    ASSUME TypeOK, HookTypeOK, HookInv, [RuntimeNext]_runtimeVars,
           hookStage' \in {"pumping", "sending"}
    PROVE  \/ HookObserves
           \/ hookStage \in {"pumping", "sending"} /\ hookDone' = hookDone
<1>1. CASE UNCHANGED <<hookStage, hookDone>>
  BY <1>1
<1>2. ASSUME NEW p \in Pumps, NEW failed, PumpReturns(p, failed),
             p = Hook => hookStage = "pumping"
      PROVE  hookStage \in {"pumping", "sending"} /\ hookDone' = hookDone
  BY <1>2 DEF PumpReturns, HookContinues
<1>3. CASE UNCHANGED runtimeVars \/ SessionAlone
  BY <1>1, <1>3 DEF runtimeVars, SessionAlone, hookVars
<1>4. CASE HookStep
  BY <1>1, <1>4 DEF HookStep, HookPumpSend, HookPumpEnd, HookGivesUp, HookRefused,
                    HookClosed, HookSendsDeferred
<1>5. ASSUME NEW p \in Pumps, PumpAction(p)
      PROVE  hookStage \in {"pumping", "sending"} /\ hookDone' = hookDone
  <2>1. p = Hook => hookStage = "pumping"
    BY <1>5 DEF PumpAction, PumpStarts, PopHostCall, PumpPopped, PumpFlushed, HookInv
  <2> QED BY <1>1, <1>2, <1>5, <2>1
             DEF PumpAction, PumpStarts, PopHostCall, PumpPopped, PumpFlushed
<1>6. ASSUME NEW f \in Flushers, FlushSend(f) \/ FlushFails(f)
      PROVE  hookStage \in {"pumping", "sending"} /\ hookDone' = hookDone
  BY <1>1, <1>2, <1>6 DEF FlushSend, FlushFails, HookInv
<1> QED
  BY <1>1, <1>3, <1>4, <1>5, <1>6
     DEF RuntimeNext, HookArrive, HookBeginPump, HandlerStep, HandlerSettles,
         HandlerFlushes, hookVars

\* The steps by what they do to the turns of the frames.
LEMMA TurnKinds ==
    ASSUME TypeOK, HookTypeOK, TurnInv, [RuntimeNext]_runtimeVars
    PROVE  \/ UNCHANGED <<arrived, begun, pumping, cell, kind>>
           \/ \E k \in FrameKinds : HookArrive(k)
           \/ /\ ~pumping /\ begun < arrived /\ begun' = begun + 1
              /\ pumping' \in BOOLEAN /\ cell' = IF pumping' THEN cell ELSE 0
              /\ UNCHANGED <<arrived, kind>>
           \/ /\ pumping /\ ~pumping' /\ cell' = 0 /\ UNCHANGED <<arrived, begun, kind>>
<1> USE DEF sessionVars, lifeVars, pumpVars, peerVars
<1>1. CASE UNCHANGED runtimeVars \/ SessionAlone
  BY <1>1 DEF runtimeVars, SessionAlone, StartBegin, StartEnd, Close, CloseStep,
              CloseTransport, ClosePeer, RemoteClose, hookVars
<1>2. ASSUME NEW k \in 0 .. MaxReplies, HookBeginPump(k)
      PROVE  /\ ~pumping /\ begun < arrived /\ begun' = begun + 1
             /\ pumping' \in BOOLEAN /\ cell' = IF pumping' THEN cell ELSE 0
             /\ UNCHANGED <<arrived, kind>>
  BY <1>2 DEF HookBeginPump, BeginPump, TypeOK
<1>3. CASE HookPumpEnd
  BY <1>3 DEF HookPumpEnd, SkipFrame, PumpEnd, TypeOK
<1>4. CASE HookPumpSend \/ HookGivesUp \/ HookObserves \/ HookRefused \/ HookClosed
           \/ HookSendsDeferred
  BY <1>4 DEF HookPumpSend, PumpSend, HookGivesUp, HookObserves, HookRefused, Close,
              HookClosed, HookSendsDeferred
<1>5. ASSUME NEW p \in Pumps, PumpAction(p)
      PROVE  UNCHANGED <<arrived, begun, pumping, cell, kind>>
  BY <1>5 DEF PumpAction, PumpStarts, PopHostCall, PumpPopped, PumpFlushed, Drain,
              HostReply
<1>6. ASSUME NEW f \in Flushers, FlushSend(f) \/ FlushFails(f)
      PROVE  UNCHANGED <<arrived, begun, pumping, cell, kind>>
  BY <1>6 DEF FlushSend, FlushFails
<1>7. ASSUME NEW c \in Frames, HandlerStep(c)
      PROVE  UNCHANGED <<arrived, begun, pumping, cell, kind>>
  BY <1>7 DEF HandlerStep, HandlerSettles, HandlerFlushes, Drain, HostReply, hookVars
<1> QED BY <1>1, <1>2, <1>3, <1>4, <1>5, <1>6, <1>7 DEF RuntimeNext, HookStep

LEMMA CellStep ==
    ASSUME TypeOK, HookTypeOK, TurnInv, CellInv, AwaitsFrames, [RuntimeNext]_runtimeVars
    PROVE  /\ CellInv'
           /\ arrived <= arrived' /\ SettledCount <= SettledCount'
           /\ \A n \in 1 .. arrived : kind'[n] = kind[n]
<1>a. /\ arrived \in 0 .. MaxFrames /\ begun \in 0 .. arrived /\ pumping \in BOOLEAN
      /\ MaxFrames \in Nat
      /\ pumping => begun >= 1
  BY BoundsAssumption DEF TypeOK, TurnInv
<1>1. CASE UNCHANGED <<arrived, begun, pumping, cell, kind>>
  BY <1>1, <1>a DEF CellInv, SettledCount
<1>2. ASSUME NEW k \in FrameKinds, HookArrive(k)
      PROVE  /\ CellInv' /\ arrived <= arrived' /\ SettledCount <= SettledCount'
             /\ \A n \in 1 .. arrived : kind'[n] = kind[n]
  <2>1. /\ arrived' = arrived + 1 /\ cell' = arrived + 1 /\ arrived < MaxFrames
        /\ kind' = [kind EXCEPT ![arrived + 1] = k]
        /\ UNCHANGED <<begun, pumping>>
        /\ arrived > 0 => Settled(arrived)
    BY <1>2 DEF HookArrive, Arrive
  <2>2. arrived <= SettledCount /\ ~pumping /\ begun = arrived
    <3>1. CASE arrived = 0
      <4>1. begun = 0 /\ ~pumping
        BY <3>1, <1>a
      <4> QED BY <3>1, <4>1 DEF SettledCount
    <3>2. CASE arrived > 0
      <4>1. arrived \in Frames
        BY <3>2, <1>a DEF Frames
      <4>2. arrived <= SettledCount
        BY <3>2, <4>1, <2>1 DEF TurnInv
      <4> QED BY <4>2, <1>a DEF SettledCount
    <3> QED BY <3>1, <3>2, <1>a
  <2>3. CellInv' /\ arrived <= arrived' /\ SettledCount <= SettledCount'
    BY <1>a, <2>1, <2>2 DEF CellInv, SettledCount
  <2>4. \A n \in 1 .. arrived : kind'[n] = kind[n]
    BY <1>a, <2>1 DEF HookTypeOK, Frames
  <2> QED BY <2>3, <2>4
<1>3. CASE /\ ~pumping /\ begun < arrived /\ begun' = begun + 1
           /\ pumping' \in BOOLEAN /\ cell' = IF pumping' THEN cell ELSE 0
           /\ UNCHANGED <<arrived, kind>>
  BY <1>3, <1>a DEF CellInv, SettledCount
<1>4. CASE pumping /\ ~pumping' /\ cell' = 0 /\ UNCHANGED <<arrived, begun, kind>>
  BY <1>4, <1>a DEF CellInv, SettledCount
<1> QED BY <1>1, <1>2, <1>3, <1>4, TurnKinds

\* The head and the rest of a list, and a list with one frame more.
LEMMA HeadAnswers ==
    ASSUME NEW s \in Seq(Outbound), NEW ns, s # <<>>, Answering(s, ns)
    PROVE  /\ Head(s) \in Outbound /\ Head(s).of \in ns /\ Tail(s) \in Seq(Outbound)
           /\ Answering(Tail(s), ns)
<1>1. Len(s) \in Nat \ {0}
  BY EmptySeq, LenProperties
<1>2. /\ Len(Tail(s)) = Len(s) - 1 /\ Tail(s) \in Seq(Outbound)
      /\ \A i \in 1 .. Len(Tail(s)) : Tail(s)[i] = s[i + 1]
      /\ Head(s) \in Outbound
  BY HeadTailProperties
<1>3. Head(s) = s[1]
  OBVIOUS
<1>4. 1 \in 1 .. Len(s) /\ \A i \in 1 .. Len(Tail(s)) : i + 1 \in 1 .. Len(s)
  BY <1>1, <1>2
<1> QED BY <1>2, <1>3, <1>4 DEF Answering

LEMMA MoreAnswers ==
    ASSUME NEW s \in Seq(Outbound), NEW ns, NEW e \in Outbound, e.of \in ns,
           Answering(s, ns)
    PROVE  Answering(Append(s, e), ns)
<1> DEFINE t == Append(s, e)
<1>1. /\ Len(t) = Len(s) + 1 /\ \A i \in 1 .. Len(s) : t[i] = s[i]
      /\ t[Len(s) + 1] = e /\ Len(s) \in Nat
  BY AppendProperties, LenProperties
<1> HIDE DEF t
<1>2. \A i \in 1 .. Len(t) : i \in 1 .. Len(s) \/ i = Len(s) + 1
  BY <1>1
<1>3. Answering(t, ns)
  BY <1>1, <1>2 DEF Answering
<1> QED BY <1>3 DEF t

\* The lists of the hook and of the flushes keep to the frame they are for.
LEMMA ListsStep ==
    ASSUME TypeOK, OrderInv, HookTypeOK, HookInv, DrainedInv, CellInv, ListsInv,
           [RuntimeNext]_runtimeVars
    PROVE  ListsInv'
<1>1. CASE UNCHANGED <<deferred, flushing, wire>>
  BY <1>1 DEF ListsInv, Answering
<1>2. CASE PumpHandsOver
  <2> DEFINE e == Head(sending)
  <2>1. e \in Outbound /\ e.of \in {0, begun} /\ cell = begun
    BY <1>2, HeadAnswers DEF PumpHandsOver, DrainedInv, CellInv, TypeOK
  <2>2. HookSend(e) /\ UNCHANGED flushing
    BY <1>2 DEF PumpHandsOver
  <2> HIDE DEF e
  <2>3. CASE cell # 0
    <3>1. cell \in Frames /\ deferred[cell] \in Seq(Outbound)
      BY <2>3, CellIsFrame DEF HookTypeOK
    <3>2. \A n \in Frames : deferred'[n] = IF n = cell THEN Append(deferred[n], e)
                                          ELSE deferred[n]
      BY <2>2, <2>3, <3>1 DEF HookSend, HookTypeOK
    <3>3. Answering(Append(deferred[cell], e), {0, cell})
      BY <2>1, <3>1, MoreAnswers DEF ListsInv
    <3> QED BY <2>2, <3>1, <3>2, <3>3 DEF ListsInv, Answering
  <2>4. CASE cell = 0
    BY <2>2, <2>4 DEF HookSend, ListsInv, Answering
  <2> QED BY <2>3, <2>4
<1>3. CASE TaskSends
  <2>1. deferred[Task] \in Seq(Outbound) /\ deferred[Task] # <<>> /\ Task \in Frames
    BY <1>3 DEF TaskSends, HookTypeOK
  <2>2. Answering(Tail(deferred[Task]), {0, Task})
    BY <2>1, HeadAnswers DEF ListsInv
  <2>3. \A n \in Frames : deferred'[n] = IF n = Task THEN Tail(deferred[n])
                                        ELSE deferred[n]
    BY <1>3 DEF TaskSends, HookTypeOK
  <2>4. UNCHANGED flushing
    BY <1>3 DEF TaskSends
  <2> QED BY <2>2, <2>3, <2>4 DEF ListsInv, Answering
<1>4. ASSUME NEW f \in Flushers, Drain(f), UNCHANGED <<deferred, wire>>
      PROVE  ListsInv'
  <2>1. PICK front : /\ flushing' = [flushing EXCEPT ![f] = front]
                     /\ Answering(front, {0})
    BY <1>4, DrainCuts
  <2>2. \A g \in Flushers : flushing'[g] = IF g = f THEN front ELSE flushing[g]
    BY <2>1 DEF HookTypeOK
  <2> QED BY <1>4, <2>1, <2>2 DEF ListsInv, Answering
<1>5. ASSUME NEW f \in Flushers, FlushSend(f) PROVE ListsInv'
  <2> DEFINE e == Head(flushing[f])
             rest == Tail(flushing[f])
  <2>1. e \in Outbound /\ e.of = 0 /\ Answering(rest, {0})
    BY <1>5, HeadAnswers DEF FlushSend, ListsInv, HookTypeOK
  <2>2. HookSend(e) /\ flushing' = [flushing EXCEPT ![f] = rest]
    BY <1>5 DEF FlushSend
  <2> HIDE DEF e, rest
  <2>3. \A g \in Flushers : flushing'[g] = IF g = f THEN rest ELSE flushing[g]
    BY <2>2 DEF HookTypeOK
  <2>4. \A n \in Frames : Answering(deferred'[n], {0, n})
    <3>1. CASE cell # 0
      <4>1. cell \in Frames /\ deferred[cell] \in Seq(Outbound)
        BY <3>1, CellIsFrame DEF HookTypeOK
      <4>2. \A n \in Frames : deferred'[n] = IF n = cell THEN Append(deferred[n], e)
                                            ELSE deferred[n]
        BY <2>2, <3>1, <4>1 DEF HookSend, HookTypeOK
      <4>3. Answering(Append(deferred[cell], e), {0, cell})
        BY <2>1, <4>1, MoreAnswers DEF ListsInv
      <4> QED BY <4>1, <4>2, <4>3 DEF ListsInv
    <3>2. CASE cell = 0
      BY <2>2, <3>2 DEF HookSend, ListsInv
    <3> QED BY <3>1, <3>2
  <2> QED BY <2>1, <2>3, <2>4 DEF ListsInv
<1>6. ASSUME NEW f \in Flushers, FlushDrops(f) PROVE ListsInv'
  <2>1. \A g \in Flushers : flushing'[g] = IF g = f THEN <<>> ELSE flushing[g]
    BY <1>6 DEF FlushDrops, HookTypeOK
  <2>2. Len(<<>>) = 0
    BY EmptySeq
  <2> QED BY <1>6, <2>1, <2>2 DEF FlushDrops, ListsInv, Answering
<1> QED BY <1>1, <1>2, <1>3, <1>4, <1>5, <1>6, ListKinds

\* What a task has observed stays observed while it goes on.
LEMMA TaskStep ==
    ASSUME TypeOK, OrderInv, TurnInv, HookTypeOK, HookInv, DrainedInv, CellInv,
           ListsInv, TaskObserved, AwaitsFrames, [RuntimeNext]_runtimeVars
    PROVE  TaskObserved' /\ observed \subseteq observed'
<1>0. observed \subseteq observed'
  BY DEF RuntimeNext, SessionAlone, HookArrive, HookBeginPump, HookStep, HookPumpSend,
         HookPumpEnd, HookGivesUp, HookObserves, HookRefused, HookClosed,
         HookSendsDeferred, PumpAction, PumpStarts, PopHostCall, PumpPopped,
         PumpFlushed, FlushSend, FlushFails, HandlerStep, HandlerSettles,
         HandlerFlushes, runtimeVars, hookVars
<1>a. /\ arrived \in 0 .. MaxFrames /\ begun \in 0 .. arrived /\ MaxFrames \in Nat
      /\ hookDone \in Nat /\ Task = hookDone + 1 /\ SettledCount <= begun
      /\ SettledCount \in Int
      /\ pumping => SettledCount < begun
  BY BoundsAssumption DEF TypeOK, HookTypeOK, Task, SettledCount
<1>b. SettledCount' \in Int
  <2>1. begun' \in Int
    BY SessionKept, BoundsAssumption DEF TypeOK
  <2> QED BY <2>1 DEF SettledCount
<1> SUFFICES ASSUME hookStage' \in {"pumping", "sending"}
             PROVE  /\ Task' <= SettledCount'
                    /\ kind'[Task'] = "bootstrap" /\ ~Answering(deferred'[Task'], {0})
                           => Task' \in observed'
  BY <1>0 DEF TaskObserved
<1>1. CASE HookObserves
  <2>1. /\ Task <= arrived /\ Settled(Task) /\ Task' = Task
        /\ UNCHANGED <<deferred, kind, begun, pumping>>
        /\ observed' = IF BootstrapAnswered THEN observed \cup {Task} ELSE observed
    BY <1>1 DEF HookObserves, sessionVars, pumpVars, Task
  <2>2. Task \in Frames
    BY <1>a, <2>1 DEF Frames
  <2>3. Task <= SettledCount
    BY <2>1, <2>2 DEF TurnInv
  <2>4. ASSUME ~Answering(deferred[Task], {0}) PROVE Answers(Task) # {}
    <3>1. PICK i \in 1 .. Len(deferred[Task]) : deferred[Task][i].of # 0
      BY <2>4 DEF Answering
    <3>2. deferred[Task][i].of = Task
      BY <2>2, <3>1 DEF ListsInv, Answering
    <3>3. i \in DOMAIN deferred[Task]
      BY <2>2, <3>1, LenProperties DEF HookTypeOK
    <3> QED BY <3>2, <3>3 DEF Answers
  <2>5. SettledCount' = SettledCount
    BY <2>1 DEF SettledCount
  <2> QED BY <2>1, <2>3, <2>4, <2>5 DEF BootstrapAnswered
<1>2. CASE hookStage \in {"pumping", "sending"} /\ hookDone' = hookDone
  <2>1. /\ Task' = Task /\ Task <= SettledCount /\ Task \in Frames /\ Task \in 1 .. arrived
        /\ kind[Task] = "bootstrap" /\ ~Answering(deferred[Task], {0})
               => Task \in observed
    BY <1>2, <1>a DEF Task, TaskObserved, Frames
  <2>2. SettledCount <= SettledCount' /\ kind'[Task] = kind[Task]
    BY <2>1, CellStep
  <2>3. Task' <= SettledCount'
    BY <1>a, <1>b, <2>1, <2>2
  <2>4. Answering(deferred[Task], {0}) => Answering(deferred'[Task], {0})
    <3> SUFFICES ASSUME Answering(deferred[Task], {0})
                 PROVE  Answering(deferred'[Task], {0})
      OBVIOUS
    <3>0. deferred[Task] \in Seq(Outbound)
      BY <2>1 DEF HookTypeOK
    <3>1. CASE UNCHANGED deferred
      BY <3>1 DEF Answering
    <3>2. CASE PumpHandsOver
      <4>1. cell = begun /\ Task # cell
        BY <3>2, <1>a, <2>1 DEF PumpHandsOver, CellInv
      <4>2. deferred'[Task] = deferred[Task]
        BY <3>2, <4>1, <2>1 DEF PumpHandsOver, HookSend, HookTypeOK
      <4> QED BY <4>2
    <3>3. CASE TaskSends
      <4>1. deferred'[Task] = Tail(deferred[Task]) /\ deferred[Task] # <<>>
        BY <3>3, <2>1 DEF TaskSends, HookTypeOK
      <4> QED BY <4>1, <3>0, HeadAnswers
    <3>4. ASSUME NEW f \in Flushers, FlushSend(f) PROVE Answering(deferred'[Task], {0})
      <4> DEFINE e == Head(flushing[f])
      <4>1. e \in Outbound /\ e.of \in {0}
        BY <3>4, HeadAnswers DEF FlushSend, ListsInv, HookTypeOK
      <4>2. HookSend(e)
        BY <3>4 DEF FlushSend
      <4> HIDE DEF e
      <4>3. deferred'[Task] \in {deferred[Task], Append(deferred[Task], e)}
        BY <4>2, <2>1 DEF HookSend, HookTypeOK
      <4>4. Answering(Append(deferred[Task], e), {0})
        BY <3>0, <4>1, MoreAnswers
      <4> QED BY <4>3, <4>4
    <3> QED BY <3>1, <3>2, <3>3, <3>4, ListKinds DEF FlushDrops
  <2> QED BY <1>0, <2>1, <2>2, <2>3, <2>4
<1> QED BY <1>1, <1>2, TaskKinds

LEMMA WireStep ==
    ASSUME TypeOK, OrderInv, TurnInv, HookTypeOK, HookInv, DrainedInv, CellInv,
           ListsInv, TaskObserved, WireObserved, AwaitsFrames,
           [RuntimeNext]_runtimeVars
    PROVE  WireObserved'
<1>a. /\ arrived \in Nat /\ begun \in 0 .. arrived /\ arrived' \in Int
      /\ SettledCount <= begun /\ SettledCount \in Int /\ Task \in Nat
  BY SessionKept, BoundsAssumption DEF TypeOK, HookTypeOK, Task, SettledCount
<1>0. /\ arrived <= arrived' /\ observed \subseteq observed'
      /\ \A n \in 1 .. arrived : kind'[n] = kind[n]
  BY CellStep, TaskStep
<1>b. wire \in Seq(Outbound)
  BY DEF HookTypeOK
<1> DEFINE Known(e) ==
        /\ e.of <= arrived
        /\ e.of # 0 /\ kind[e.of] = "bootstrap" => e.of \in observed
<1>1. ASSUME NEW e \in Outbound, Known(e)
      PROVE  /\ e.of <= arrived'
             /\ e.of # 0 /\ kind'[e.of] = "bootstrap" => e.of \in observed'
  <2>1. e.of \in Nat
    BY BoundsAssumption DEF Outbound
  <2>2. CASE e.of = 0
    BY <2>2, <1>a, <1>0
  <2>3. CASE e.of # 0
    <3>1. e.of \in 1 .. arrived
      BY <2>1, <2>3, <1>1, <1>a
    <3> QED BY <3>1, <1>1, <1>0, <1>a
  <2> QED BY <2>2, <2>3
<1>2. \A i \in 1 .. Len(wire) : wire[i] \in Outbound /\ Known(wire[i])
  BY <1>b, ElementOfSeq DEF WireObserved
<1>3. CASE UNCHANGED wire
  BY <1>1, <1>2, <1>3 DEF WireObserved
<1>4. ASSUME NEW e \in Outbound, Known(e), wire' = Append(wire, e)
      PROVE  WireObserved'
  <2>1. /\ Len(wire') = Len(wire) + 1 /\ Len(wire) \in Nat
        /\ \A i \in 1 .. Len(wire) : wire'[i] = wire[i]
        /\ wire'[Len(wire) + 1] = e
    BY <1>b, <1>4, AppendProperties, LenProperties
  <2>2. \A i \in 1 .. Len(wire') : wire'[i] \in Outbound /\ Known(wire'[i])
    <3> SUFFICES ASSUME NEW i \in 1 .. Len(wire')
                 PROVE  wire'[i] \in Outbound /\ Known(wire'[i])
      OBVIOUS
    <3>1. i \in 1 .. Len(wire) \/ i = Len(wire) + 1
      BY <2>1
    <3> HIDE DEF Known
    <3> QED BY <3>1, <2>1, <1>2, <1>4
  <2> HIDE DEF Known
  <2> QED BY <1>1, <2>2 DEF WireObserved
<1>5. CASE PumpHandsOver
  <2>1. cell # 0
    BY <1>5, <1>a DEF PumpHandsOver, CellInv, TurnInv
  <2> QED BY <1>3, <1>5, <2>1 DEF PumpHandsOver, HookSend
<1>6. CASE TaskSends
  <2> DEFINE e == Head(deferred[Task])
  <2>1. /\ deferred[Task] \in Seq(Outbound) /\ deferred[Task] # <<>> /\ Task \in Frames
        /\ hookStage = "sending" /\ wire' = Append(wire, e)
    BY <1>6 DEF TaskSends, HookTypeOK
  <2>2. e \in Outbound /\ e.of \in {0, Task}
    BY <2>1, HeadAnswers DEF ListsInv
  <2>3. Answering(deferred[Task], {0}) => e.of = 0
    BY <2>1, HeadAnswers
  <2>4. Task <= arrived
    BY <1>a, <2>1 DEF TaskObserved
  <2> HIDE DEF e
  <2>5. Known(e)
    <3>1. CASE e.of = 0
      BY <3>1, <1>a
    <3>2. CASE e.of # 0
      BY <3>2, <2>1, <2>2, <2>3, <2>4 DEF TaskObserved
    <3> QED BY <3>1, <3>2
  <2> QED BY <1>4, <2>1, <2>2, <2>5
<1>7. ASSUME NEW f \in Flushers, FlushSend(f) PROVE WireObserved'
  <2> DEFINE e == Head(flushing[f])
  <2>1. e \in Outbound /\ e.of = 0 /\ HookSend(e)
    BY <1>7, HeadAnswers DEF FlushSend, ListsInv, HookTypeOK
  <2> HIDE DEF e
  <2>2. Known(e)
    BY <2>1, <1>a
  <2> QED BY <1>3, <1>4, <2>1, <2>2 DEF HookSend
<1> QED BY <1>3, <1>5, <1>6, <1>7, ListKinds DEF FlushDrops

LEMMA InitObserved == Init => CellInv /\ ListsInv /\ TaskObserved /\ WireObserved
<1> SUFFICES ASSUME Init PROVE CellInv /\ ListsInv /\ TaskObserved /\ WireObserved
  OBVIOUS
<1>1. Len(<<>>) = 0
  BY EmptySeq
<1>2. ListsInv
  BY <1>1 DEF Init, ListsInv, Answering
<1>3. CellInv
  BY DEF Init, SessionInit, CellInv, SettledCount
<1>4. TaskObserved
  BY DEF Init, TaskObserved
<1>5. WireObserved
  BY <1>1 DEF Init, WireObserved
<1> QED BY <1>2, <1>3, <1>4, <1>5

\* When the transport waits for a frame before it delivers the next one, a bootstrap
\* answer is on the wire only after the bridge has observed it, however its queues
\* are drained; and no frame is on the wire twice.
THEOREM BootstrapsObserved == ASSUME DrainsAll, AwaitsFrames
                              PROVE  RuntimeSpec => []SentOnceObserved
<1> DEFINE Inv == /\ RuntimeInv /\ OnceInv /\ DrainedInv
                  /\ CellInv /\ ListsInv /\ TaskObserved /\ WireObserved
<1>1. Init => Inv
  BY RuntimeKeeps, InitOnce, InitTurn, InitObserved DEF Init
<1>2. ASSUME Inv, [RuntimeNext]_runtimeVars PROVE Inv'
  <2>1. RuntimeInv' /\ DrainedInv'
    BY <1>2, RuntimeKeeps, SessionKept DEF RuntimeInv
  <2>2. OnceInv'
    BY <1>2, <2>1, OnceStep DEF RuntimeInv
  <2>3. CellInv' /\ ListsInv'
    BY <1>2, CellStep, ListsStep DEF RuntimeInv
  <2>4. TaskObserved' /\ WireObserved'
    BY <1>2, TaskStep, WireStep DEF RuntimeInv
  <2> QED BY <2>1, <2>2, <2>3, <2>4
<1>3. Inv => SentOnceObserved
  <2> SUFFICES ASSUME Inv PROVE SentOnceObserved
    OBVIOUS
  <2>1. NoFrameTwice
    BY OnceOnWire DEF RuntimeInv
  <2>2. DOMAIN wire = 1 .. Len(wire)
    BY LenProperties DEF RuntimeInv, HookTypeOK
  <2>3. BootstrapObserved
    BY <2>2 DEF WireObserved, BootstrapObserved
  <2> QED BY <2>1, <2>3 DEF SentOnceObserved
<1> QED BY <1>1, <1>2, <1>3, PTL DEF RuntimeSpec
=============================================================================
