------------------------ MODULE ConnectionPoolProofs ------------------------
(* Theorems about ConnectionPool: every connection has one place.              *)
EXTENDS ConnectionPool, SequenceTheorems, FiniteSetTheorems, TLAPS

(***************************************************************************)
(* What holds of the pool between two steps, and between two operations of *)
(* one step.  In the middle of a step the acquires in M are being decided, *)
(* and the connection h, if it is one, is in hand: it has no place yet.    *)
(***************************************************************************)
Attempts == {"unused", "connecting", "connected", "failed", "done"}
Progress == {"idle", "checking", "creating", "waiting", "holding", "failed", "done"}

Pools == [idle : Seq(Conns), active : SUBSET Conns, pending : Seq(Acquirers),
          made : Nat, attempt : [Conns -> Attempts], owner : [Conns -> Owners],
          drain : {"off", "running", "ending"}, closed : BOOLEAN,
          closeDone : BOOLEAN]
Worlds == [pool : Pools, acq : [Acquirers -> Progress],
           has : [Acquirers -> Conns \cup {NoConn}], open : SUBSET Conns]

Live(w, c) == w.pool.attempt[c] \in {"connecting", "connected", "failed"}
IsIdle(w, c) == \E i \in DOMAIN w.pool.idle : w.pool.idle[i] = c
IsPending(w, a) == \E i \in DOMAIN w.pool.pending : w.pool.pending[i] = a

\* The idle connections differ, and their attempts have been seen.
IdleOnce(w) ==
    /\ \A i, j \in DOMAIN w.pool.idle : w.pool.idle[i] = w.pool.idle[j] => i = j
    /\ \A i \in DOMAIN w.pool.idle : w.pool.attempt[w.pool.idle[i]] = "done"

\* The queue of waiters has exactly the acquires that wait, each of them once.
WaitersQueue(w, M) ==
    /\ \A i, j \in DOMAIN w.pool.pending :
           w.pool.pending[i] = w.pool.pending[j] => i = j
    /\ \A a \in Acquirers \ M : w.acq[a] = "waiting" <=> IsPending(w, a)
    /\ \A a \in M : ~IsPending(w, a)

\* Who checks or holds a connection does it alone.
HeldAlone(w, M) ==
    /\ \A a \in Acquirers \ M :
           w.has[a] # NoConn <=> w.acq[a] \in {"checking", "holding"}
    /\ \A a \in Acquirers \ M : w.has[a] # NoConn =>
           /\ w.pool.attempt[w.has[a]] = "done"
           /\ ~IsIdle(w, w.has[a])
           /\ \A b \in Acquirers \ M : w.has[b] = w.has[a] => a = b

\* Active are the open connections that are held.
ActiveHeld(w, M) ==
    /\ \A c \in w.pool.active : \E a \in Acquirers \ M :
           w.has[a] = c /\ w.acq[a] = "holding"
    /\ \A a \in Acquirers \ M :
           w.acq[a] = "holding" /\ w.has[a] \in w.open => w.has[a] \in w.pool.active

\* An open connection is somewhere.
Somewhere(w, M, h) ==
    /\ \A c \in w.open : \/ w.pool.attempt[c] = "connected"
                         \/ IsIdle(w, c)
                         \/ \E a \in Acquirers \ M : w.has[a] = c
                         \/ c = h
    /\ \A c \in Conns :
           w.pool.attempt[c] \in {"unused", "connecting", "failed"} => c \notin w.open

InHand(w, M, h) ==
    h # NoConn => /\ w.pool.attempt[h] = "done"
                  /\ ~IsIdle(w, h)
                  /\ \A a \in Acquirers \ M : w.has[a] # h

\* The attempt of an acquire is its only one, and is waited for.
AttemptsOwned(w, M) ==
    \A c \in Conns : Live(w, c) /\ w.pool.owner[c] \in Acquirers =>
        /\ w.acq[w.pool.owner[c]] = "creating"
        /\ w.pool.owner[c] \notin M
        /\ \A d \in Conns : Live(w, d) /\ w.pool.owner[d] = w.pool.owner[c] => c = d

AttemptsMade(w) ==
    \A c \in Conns : c > w.pool.made <=> w.pool.attempt[c] = "unused"

NobodyWaits(w) == w.pool.pending = <<>> \/ w.pool.idle = <<>>

Good(w, M, h) ==
    /\ w \in Worlds
    /\ IdleOnce(w) /\ WaitersQueue(w, M) /\ HeldAlone(w, M) /\ ActiveHeld(w, M)
    /\ Somewhere(w, M, h) /\ InHand(w, M, h)
    /\ AttemptsOwned(w, M) /\ AttemptsMade(w) /\ NobodyWaits(w)

PoolInv == /\ Good(World, {}, NoConn)
           /\ pool.made <= MaxConns /\ aborted \subseteq Acquirers

MaybeConn == Conns \cup {NoConn}

(***************************************************************************)
(* The helpers keep it.                                                    *)
(***************************************************************************)

\* An idle place for the connection in hand.
LEMMA ParkKeeps ==
    ASSUME NEW w, NEW M \in SUBSET Acquirers, NEW h \in Conns, Good(w, M, h),
           w.pool.pending = <<>>
    PROVE  Good(ParkIdleConnection(w, h), M, NoConn)
<1> DEFINE v == ParkIdleConnection(w, h)
<1>w. w \in Worlds BY DEF Good
<1>1. /\ v \in Worlds
      /\ v.acq = w.acq /\ v.has = w.has /\ v.open = w.open
      /\ v.pool = [w.pool EXCEPT !.idle = Append(@, h)]
  <2>1. Append(w.pool.idle, h) \in Seq(Conns) BY <1>w DEF Worlds, Pools
  <2>2. [w.pool EXCEPT !.idle = Append(@, h)] \in Pools BY <1>w, <2>1 DEF Worlds, Pools
  <2> QED BY <1>w, <2>2 DEF Worlds, ParkIdleConnection
<1>2. /\ v.pool.pending = w.pool.pending /\ v.pool.attempt = w.pool.attempt
      /\ v.pool.owner = w.pool.owner /\ v.pool.made = w.pool.made
      /\ v.pool.active = w.pool.active
      /\ v.pool.idle = Append(w.pool.idle, h)
  BY <1>w, <1>1 DEF Worlds, Pools
<1>3. /\ w.pool.idle \in Seq(Conns)
      /\ DOMAIN v.pool.idle = DOMAIN w.pool.idle \cup {Len(w.pool.idle) + 1}
      /\ \A i \in DOMAIN w.pool.idle : v.pool.idle[i] = w.pool.idle[i]
      /\ v.pool.idle[Len(w.pool.idle) + 1] = h
      /\ Len(w.pool.idle) + 1 \notin DOMAIN w.pool.idle
  BY <1>w, <1>2 DEF Worlds, Pools
<1>4. \A c : IsIdle(v, c) <=> IsIdle(w, c) \/ c = h
  BY <1>3 DEF IsIdle
<1> HIDE DEF v
<1>5. IdleOnce(v)
  BY <1>2, <1>3, PoolAssumption DEF Good, IdleOnce, InHand, IsIdle, Conns
<1>6. WaitersQueue(v, M) /\ AttemptsOwned(v, M) /\ AttemptsMade(v)
  BY <1>1, <1>2 DEF Good, WaitersQueue, AttemptsOwned, AttemptsMade, IsPending, Live
<1>7. HeldAlone(v, M) /\ ActiveHeld(v, M)
  BY <1>1, <1>2, <1>4, PoolAssumption
  DEF Good, HeldAlone, ActiveHeld, InHand, Conns
<1>8. Somewhere(v, M, NoConn) /\ InHand(v, M, NoConn)
  BY <1>1, <1>2, <1>4 DEF Good, Somewhere, InHand
<1>9. NobodyWaits(v) BY <1>2 DEF NobodyWaits
<1> QED BY <1>1, <1>5, <1>6, <1>7, <1>8, <1>9 DEF Good, v

\* A sequence without repetitions that loses one element.
Occurs(s, x) == \E j \in DOMAIN s : s[j] = x
NoRepeat(s) == \A j, k \in DOMAIN s : s[j] = s[k] => j = k
Lost(q, s, i) == /\ NoRepeat(q)
                 /\ \A x : Occurs(q, x) <=> Occurs(s, x) /\ x # s[i]

LEMMA AboutRemoved ==
    ASSUME NEW S, NEW s \in Seq(S), NoRepeat(s), NEW i \in DOMAIN s
    PROVE  Removed(s, i) \in Seq(S) /\ Lost(Removed(s, i), s, i)
<1> DEFINE q == Removed(s, i)
<1>1. /\ DOMAIN s = 1 .. Len(s) /\ Len(s) \in Nat /\ i \in 1 .. Len(s)
      /\ \A j \in 1 .. Len(s) : s[j] \in S
  BY ElementOfSeq
<1>2. /\ DOMAIN q = 1 .. Len(s) - 1
      /\ \A j \in 1 .. Len(s) - 1 : q[j] = IF j < i THEN s[j] ELSE s[j + 1]
  BY DEF Removed
<1>3. \A j \in 1 .. Len(s) - 1 : q[j] \in S
  <2> TAKE j \in 1 .. Len(s) - 1
  <2>1. j \in 1 .. Len(s) /\ j + 1 \in 1 .. Len(s) BY <1>1
  <2> QED BY <1>1, <1>2, <2>1
<1>4. q \in Seq(S)
  <2>1. Len(s) - 1 \in Nat BY <1>1
  <2>2. q \in [1 .. Len(s) - 1 -> S] BY <1>3 DEF Removed
  <2> QED BY <2>1, <2>2, SeqDef
<1>5. NoRepeat(q)
  <2> SUFFICES ASSUME NEW j \in 1 .. Len(s) - 1, NEW k \in 1 .. Len(s) - 1, q[j] = q[k]
               PROVE  j = k
    BY <1>2 DEF NoRepeat
  <2>1. {j, k, j + 1, k + 1} \subseteq DOMAIN s BY <1>1
  <2> QED BY <1>1, <1>2, <2>1 DEF NoRepeat
<1>6. ASSUME NEW x, Occurs(q, x) PROVE Occurs(s, x) /\ x # s[i]
  <2>1. PICK j \in 1 .. Len(s) - 1 : q[j] = x BY <1>2, <1>6 DEF Occurs
  <2>2. {j, j + 1} \subseteq DOMAIN s BY <1>1
  <2> QED BY <1>1, <1>2, <2>1, <2>2 DEF Occurs, NoRepeat
<1>7. ASSUME NEW x, Occurs(s, x), x # s[i] PROVE Occurs(q, x)
  <2>1. PICK j \in 1 .. Len(s) : s[j] = x BY <1>1, <1>7 DEF Occurs
  <2>2. j # i BY <1>7, <2>1
  <2>3. CASE j < i
    <3>1. j \in 1 .. Len(s) - 1 BY <1>1, <2>3
    <3> QED BY <1>2, <2>1, <2>3, <3>1 DEF Occurs
  <2>4. CASE i < j
    <3>1. j - 1 \in 1 .. Len(s) - 1 /\ ~(j - 1 < i) /\ (j - 1) + 1 = j BY <1>1, <2>4
    <3>2. q[j - 1] = x BY <1>2, <2>1, <3>1
    <3> QED BY <1>2, <3>1, <3>2 DEF Occurs
  <2> QED BY <1>1, <2>2, <2>3, <2>4
<1> HIDE DEF q
<1> QED BY <1>4, <1>5, <1>6, <1>7 DEF Lost, q

LEMMA AboutTail ==
    ASSUME NEW S, NEW s \in Seq(S), NoRepeat(s), s # <<>>
    PROVE  /\ 1 \in DOMAIN s /\ Head(s) = s[1] /\ Tail(s) \in Seq(S)
           /\ Lost(Tail(s), s, 1)
<1>1. Len(s) \in Nat /\ Len(s) # 0 /\ DOMAIN s = 1 .. Len(s)
  <2>1. Len(s) \in Nat /\ DOMAIN s = 1 .. Len(s) OBVIOUS
  <2>2. Len(s) # 0 BY EmptySeq
  <2> QED BY <2>1, <2>2
<1>2. 1 \in DOMAIN s /\ Head(s) = s[1] BY <1>1
<1>3. Tail(s) \in Seq(S) /\ Len(Tail(s)) = Len(s) - 1
      /\ \A j \in 1 .. Len(s) - 1 : Tail(s)[j] = s[j + 1]
  BY <1>1, HeadTailProperties
<1>4. DOMAIN Tail(s) = 1 .. Len(s) - 1 BY <1>3, LenProperties
<1>5. Tail(s) = Removed(s, 1)
  <2> DEFINE f == Removed(s, 1)
             g == Tail(s)
  <2>1. \A j \in 1 .. Len(s) - 1 : ~(j < 1) BY <1>1
  <2>2. \A j \in 1 .. Len(s) - 1 : f[j] = g[j] BY <1>3, <2>1 DEF Removed
  <2>3. f = [j \in 1 .. Len(s) - 1 |-> f[j]] BY DEF Removed
  <2>4. g \in [1 .. Len(s) - 1 -> S] BY <1>3, LenProperties
  <2> HIDE DEF f, g
  <2>5. g = [j \in 1 .. Len(s) - 1 |-> g[j]] BY <2>4
  <2>6. f = g BY <2>2, <2>3, <2>5, Zenon
  <2> QED BY <2>6 DEF f, g
<1> QED BY <1>2, <1>5, AboutRemoved

\* A waiter leaves the queue and is being decided.
LEMMA TakeWaiterKeeps ==
    ASSUME NEW w, NEW M \in SUBSET Acquirers, NEW h \in MaybeConn, Good(w, M, h),
           NEW i \in DOMAIN w.pool.pending, NEW q \in Seq(Acquirers),
           Lost(q, w.pool.pending, i)
    PROVE  /\ w.pool.pending[i] \in Acquirers \ M
           /\ w.acq[w.pool.pending[i]] = "waiting"
           /\ Good([w EXCEPT !.pool.pending = q], M \cup {w.pool.pending[i]}, h)
<1> DEFINE v == [w EXCEPT !.pool.pending = q]
           a == w.pool.pending[i]
           N == M \cup {a}
<1>w. w \in Worlds BY DEF Good
<1>0. w.pool.pending \in Seq(Acquirers) /\ a \in Acquirers
  BY <1>w, ElementOfSeq DEF Worlds, Pools
<1>a. IsPending(w, a) BY DEF IsPending
<1>b. a \in Acquirers \ M /\ w.acq[a] = "waiting"
  BY <1>0, <1>a DEF Good, WaitersQueue
<1>1. /\ v \in Worlds
      /\ v.acq = w.acq /\ v.has = w.has /\ v.open = w.open
      /\ v.pool = [w.pool EXCEPT !.pending = q]
  <2>1. [w.pool EXCEPT !.pending = q] \in Pools BY <1>w DEF Worlds, Pools
  <2> QED BY <1>w, <2>1 DEF Worlds
<1>2. /\ v.pool.pending = q /\ v.pool.attempt = w.pool.attempt
      /\ v.pool.owner = w.pool.owner /\ v.pool.made = w.pool.made
      /\ v.pool.active = w.pool.active /\ v.pool.idle = w.pool.idle
  BY <1>w, <1>1 DEF Worlds, Pools
<1>3. w.has[a] = NoConn
  BY <1>b DEF Good, HeldAlone
<1>4. \A b : IsPending(v, b) <=> IsPending(w, b) /\ b # a
  BY <1>2 DEF IsPending, Lost, Occurs
<1>5. NoRepeat(v.pool.pending) BY <1>2 DEF Lost
<1>6. NobodyWaits(v)
  BY <1>2, <1>a DEF Good, NobodyWaits, IsPending
<1> HIDE DEF v, a
<1>7. IdleOnce(v) /\ AttemptsMade(v)
  BY <1>2 DEF Good, IdleOnce, AttemptsMade
<1>8. WaitersQueue(v, N)
  BY <1>1, <1>4, <1>5 DEF Good, WaitersQueue, NoRepeat
<1>9. AttemptsOwned(v, N)
  BY <1>1, <1>2, <1>b DEF Good, AttemptsOwned, Live
<1>10. HeldAlone(v, N)
  BY <1>1, <1>2 DEF Good, HeldAlone, IsIdle
<1>11. ActiveHeld(v, N)
  BY <1>1, <1>2, <1>b DEF Good, ActiveHeld
<1>12. Somewhere(v, N, h) /\ InHand(v, N, h)
  <2>1. \A c \in v.open : c # NoConn
    BY <1>1, PoolAssumption DEF Worlds, Conns
  <2> QED BY <1>1, <1>2, <1>3, <1>b, <2>1 DEF Good, Somewhere, InHand, IsIdle
<1> QED BY <1>1, <1>6, <1>7, <1>8, <1>9, <1>10, <1>11, <1>12, <1>b DEF Good, v, a
\* An idle connection is taken in hand.
LEMMA TakeIdleKeeps ==
    ASSUME NEW w, NEW M \in SUBSET Acquirers, Good(w, M, NoConn),
           NEW i \in DOMAIN w.pool.idle, NEW q \in Seq(Conns),
           Lost(q, w.pool.idle, i)
    PROVE  /\ w.pool.idle[i] \in Conns /\ w.pool.pending = <<>>
           /\ Good([w EXCEPT !.pool.idle = q], M, w.pool.idle[i])
<1> DEFINE v == [w EXCEPT !.pool.idle = q]
           c == w.pool.idle[i]
<1>w. w \in Worlds BY DEF Good
<1>0. w.pool.idle \in Seq(Conns) /\ c \in Conns
  BY <1>w, ElementOfSeq DEF Worlds, Pools
<1>a. IsIdle(w, c) BY DEF IsIdle
<1>1. /\ v \in Worlds
      /\ v.acq = w.acq /\ v.has = w.has /\ v.open = w.open
      /\ v.pool = [w.pool EXCEPT !.idle = q]
  <2>1. [w.pool EXCEPT !.idle = q] \in Pools BY <1>w DEF Worlds, Pools
  <2> QED BY <1>w, <2>1 DEF Worlds
<1>2. /\ v.pool.pending = w.pool.pending /\ v.pool.attempt = w.pool.attempt
      /\ v.pool.owner = w.pool.owner /\ v.pool.made = w.pool.made
      /\ v.pool.active = w.pool.active /\ v.pool.idle = q
  BY <1>w, <1>1 DEF Worlds, Pools
<1>4. \A d : IsIdle(v, d) <=> IsIdle(w, d) /\ d # c
  BY <1>2 DEF IsIdle, Lost, Occurs
<1>5. w.pool.pending = <<>> BY <1>a DEF Good, NobodyWaits, IsIdle
<1>6. IdleOnce(v)
  <2>1. \A j \in DOMAIN q : \E k \in DOMAIN w.pool.idle : w.pool.idle[k] = q[j]
    BY DEF Lost, Occurs
  <2> QED BY <1>2, <2>1 DEF Good, IdleOnce, Lost, NoRepeat
<1>7. w.pool.attempt[c] = "done" BY DEF Good, IdleOnce
<1>8. \A a \in Acquirers \ M : w.has[a] # c
  BY <1>0, <1>a, PoolAssumption DEF Good, HeldAlone, Conns
<1> HIDE DEF v, c
<1>9. WaitersQueue(v, M) /\ AttemptsOwned(v, M) /\ AttemptsMade(v)
  BY <1>1, <1>2 DEF Good, WaitersQueue, AttemptsOwned, AttemptsMade, IsPending, Live
<1>10. HeldAlone(v, M) /\ ActiveHeld(v, M)
  BY <1>1, <1>2, <1>4 DEF Good, HeldAlone, ActiveHeld
<1>11. Somewhere(v, M, c) /\ InHand(v, M, c)
  BY <1>1, <1>2, <1>4, <1>7, <1>8, PoolAssumption DEF Good, Somewhere, InHand, Worlds, Conns
<1>12. NobodyWaits(v) BY <1>2, <1>5 DEF NobodyWaits
<1> QED BY <1>0, <1>1, <1>5, <1>6, <1>9, <1>10, <1>11, <1>12 DEF Good, v, c

\* The connection in hand goes to an acquire that is being decided.
LEMMA HoldKeeps ==
    ASSUME NEW w, NEW M \in SUBSET Acquirers, NEW a \in M, NEW h \in Conns,
           Good(w, M, h)
    PROVE  Good(Holds(w, a, h), M \ {a}, NoConn)
<1> DEFINE v == Holds(w, a, h)
           N == M \ {a}
<1>w. w \in Worlds BY DEF Good
<1>1. /\ v \in Worlds
      /\ v.acq = [w.acq EXCEPT ![a] = "holding"]
      /\ v.has = [w.has EXCEPT ![a] = h] /\ v.open = w.open
      /\ v.pool = [w.pool EXCEPT !.active = @ \cup {h}]
  <2>1. [w.pool EXCEPT !.active = @ \cup {h}] \in Pools BY <1>w DEF Worlds, Pools
  <2> QED BY <1>w, <2>1 DEF Worlds, Holds, Progress
<1>2. /\ v.pool.pending = w.pool.pending /\ v.pool.attempt = w.pool.attempt
      /\ v.pool.owner = w.pool.owner /\ v.pool.made = w.pool.made
      /\ v.pool.active = w.pool.active \cup {h} /\ v.pool.idle = w.pool.idle
  BY <1>w, <1>1 DEF Worlds, Pools
<1>3. /\ v.acq[a] = "holding" /\ v.has[a] = h /\ h # NoConn
      /\ \A b \in Acquirers \ M : b # a /\ v.acq[b] = w.acq[b] /\ v.has[b] = w.has[b]
      /\ Acquirers \ N = (Acquirers \ M) \cup {a}
  BY <1>w, <1>1, PoolAssumption DEF Worlds, Conns
<1>4. \A b \in Acquirers \ M : w.has[b] # h
  BY <1>3 DEF Good, InHand
<1> HIDE DEF v, N
<1>5. IdleOnce(v) /\ AttemptsMade(v) /\ NobodyWaits(v)
  BY <1>2 DEF Good, IdleOnce, AttemptsMade, NobodyWaits
<1>6. WaitersQueue(v, N)
  BY <1>2, <1>3 DEF Good, WaitersQueue, IsPending, N
<1>7. AttemptsOwned(v, N)
  <2> SUFFICES ASSUME NEW c \in Conns, Live(v, c), v.pool.owner[c] \in Acquirers
               PROVE  /\ v.acq[v.pool.owner[c]] = "creating"
                      /\ v.pool.owner[c] \notin N
                      /\ \A d \in Conns : Live(v, d) /\ v.pool.owner[d] = v.pool.owner[c]
                                              => c = d
    BY DEF AttemptsOwned
  <2>1. v.pool.owner[c] \in Acquirers \ M
    BY <1>2 DEF Good, AttemptsOwned, Live
  <2> QED BY <1>2, <1>3, <2>1 DEF Good, AttemptsOwned, Live, N
<1>8. HeldAlone(v, N)
  <2>1. v.pool.attempt[h] = "done" /\ ~IsIdle(v, h)
    BY <1>2, <1>3 DEF Good, InHand, IsIdle
  <2> QED BY <1>2, <1>3, <1>4, <2>1 DEF Good, HeldAlone, IsIdle
<1>9. ActiveHeld(v, N)
  BY <1>1, <1>2, <1>3, <1>4 DEF Good, ActiveHeld
<1>10. Somewhere(v, N, NoConn) /\ InHand(v, N, NoConn)
  BY <1>1, <1>2, <1>3 DEF Good, Somewhere, InHand, IsIdle
<1> QED BY <1>1, <1>5, <1>6, <1>7, <1>8, <1>9, <1>10 DEF Good, v, N

\* An acquire that is being decided goes on without a connection.
Decided(w, a, how) == [w EXCEPT !.acq[a] = how, !.has[a] = NoConn]

LEMMA DecideKeeps ==
    ASSUME NEW w, NEW M \in SUBSET Acquirers, NEW a \in M, NEW h \in MaybeConn,
           NEW how \in {"creating", "failed", "done"}, Good(w, M, h)
    PROVE  Good(Decided(w, a, how), M \ {a}, h)
<1> DEFINE v == Decided(w, a, how)
           N == M \ {a}
<1>w. w \in Worlds BY DEF Good
<1>1. /\ v \in Worlds
      /\ v.acq = [w.acq EXCEPT ![a] = how]
      /\ v.has = [w.has EXCEPT ![a] = NoConn] /\ v.open = w.open
      /\ v.pool = w.pool
  BY <1>w DEF Worlds, Decided, Progress
<1>3. /\ v.acq[a] = how /\ v.has[a] = NoConn
      /\ \A b \in Acquirers \ M : b # a /\ v.acq[b] = w.acq[b] /\ v.has[b] = w.has[b]
      /\ Acquirers \ N = (Acquirers \ M) \cup {a}
  BY <1>w, <1>1 DEF Worlds
<1> HIDE DEF v, N
<1>5. IdleOnce(v) /\ AttemptsMade(v) /\ NobodyWaits(v)
  BY <1>1 DEF Good, IdleOnce, AttemptsMade, NobodyWaits
<1>6. WaitersQueue(v, N)
  BY <1>1, <1>3 DEF Good, WaitersQueue, IsPending, N
<1>7. AttemptsOwned(v, N)
  <2> SUFFICES ASSUME NEW c \in Conns, Live(v, c), v.pool.owner[c] \in Acquirers
               PROVE  /\ v.acq[v.pool.owner[c]] = "creating"
                      /\ v.pool.owner[c] \notin N
                      /\ \A d \in Conns : Live(v, d) /\ v.pool.owner[d] = v.pool.owner[c]
                                              => c = d
    BY DEF AttemptsOwned
  <2>1. v.pool.owner[c] \in Acquirers \ M
    BY <1>1 DEF Good, AttemptsOwned, Live
  <2> QED BY <1>1, <1>3, <2>1 DEF Good, AttemptsOwned, Live, N
<1>8. HeldAlone(v, N)
  BY <1>1, <1>3 DEF Good, HeldAlone, IsIdle
<1>9. ActiveHeld(v, N)
  BY <1>1, <1>3 DEF Good, ActiveHeld
<1>10. Somewhere(v, N, h) /\ InHand(v, N, h)
  BY <1>1, <1>3 DEF Good, Somewhere, InHand, IsIdle
<1> QED BY <1>1, <1>5, <1>6, <1>7, <1>8, <1>9, <1>10 DEF Good, v, N
LEMMA RejectKeeps ==
    ASSUME NEW w, NEW M \in SUBSET Acquirers, NEW a \in M, NEW h \in MaybeConn,
           Good(w, M, h)
    PROVE  Good(Rejected(w, a), M \ {a}, h)
<1>1. Good(Decided(w, a, "failed"), M \ {a}, h) BY DecideKeeps
<1> QED BY <1>1 DEF Decided, Rejected

\* The connection in hand is closed.
LEMMA CloseKeeps ==
    ASSUME NEW w, NEW M \in SUBSET Acquirers, NEW h \in Conns, Good(w, M, h)
    PROVE  Good(CloseConnection(w, h), M, NoConn)
<1> DEFINE v == CloseConnection(w, h)
<1>w. w \in Worlds BY DEF Good
<1>1. /\ v \in Worlds /\ v.pool = w.pool /\ v.acq = w.acq /\ v.has = w.has
      /\ v.open = w.open \ {h}
  BY <1>w DEF Worlds, CloseConnection
<1> HIDE DEF v
<1>2. /\ IdleOnce(v) /\ WaitersQueue(v, M) /\ HeldAlone(v, M) /\ ActiveHeld(v, M)
      /\ AttemptsOwned(v, M) /\ AttemptsMade(v) /\ NobodyWaits(v)
  BY <1>1 DEF Good, IdleOnce, WaitersQueue, HeldAlone, ActiveHeld, AttemptsOwned,
              AttemptsMade, NobodyWaits, Live, IsIdle, IsPending
<1>3. Somewhere(v, M, NoConn) /\ InHand(v, M, NoConn)
  BY <1>1 DEF Good, Somewhere, InHand, IsIdle
<1> QED BY <1>1, <1>2, <1>3 DEF Good, v

\* The next connect attempt begins.
LEMMA BeginKeeps ==
    ASSUME NEW w, NEW M \in SUBSET Acquirers, NEW h \in MaybeConn, Good(w, M, h),
           NEW who \in Owners,
           who \in Acquirers =>
               /\ who \notin M /\ w.acq[who] = "creating"
               /\ \A d \in Conns : Live(w, d) => w.pool.owner[d] # who
    PROVE  Good(BeginConnectAttempt(w, who), M, h)
<1> DEFINE v == BeginConnectAttempt(w, who)
           n == w.pool.made + 1
<1>w. w \in Worlds BY DEF Good
<1>0. w.pool.made \in Nat BY <1>w DEF Worlds, Pools
<1>1. /\ v \in Worlds
      /\ v.acq = w.acq /\ v.has = w.has /\ v.open = w.open
      /\ v.pool.pending = w.pool.pending /\ v.pool.idle = w.pool.idle
      /\ v.pool.active = w.pool.active /\ v.pool.made = n
      /\ v.pool.attempt = [w.pool.attempt EXCEPT ![n] = "connecting"]
      /\ v.pool.owner = [w.pool.owner EXCEPT ![n] = who]
  <2> DEFINE at == [w.pool.attempt EXCEPT ![n] = "connecting"]
             ow == [w.pool.owner EXCEPT ![n] = who]
             p == [[[w.pool EXCEPT !.made = n] EXCEPT !.attempt = at] EXCEPT !.owner = ow]
  <2>0. at \in [Conns -> Attempts] BY <1>w DEF Worlds, Pools, Attempts
  <2>3. ow \in [Conns -> Owners] BY <1>w DEF Worlds, Pools
  <2>4. [w.pool EXCEPT !.made = n].attempt = w.pool.attempt
    BY <1>w DEF Worlds, Pools
  <2>5. [[w.pool EXCEPT !.made = n] EXCEPT !.attempt = at].owner = w.pool.owner
    BY <1>w DEF Worlds, Pools
  <2>2. v = [w EXCEPT !.pool = p] BY <2>4, <2>5, Zenon DEF BeginConnectAttempt
  <2> HIDE DEF at, ow, n
  <2>1. /\ p \in Pools
        /\ p.pending = w.pool.pending /\ p.idle = w.pool.idle
        /\ p.active = w.pool.active /\ p.made = n
        /\ p.attempt = at /\ p.owner = ow
    <3> DEFINE p1 == [w.pool EXCEPT !.made = n]
               p2 == [p1 EXCEPT !.attempt = at]
    <3>0. n \in Nat BY <1>0 DEF n
    <3>1. /\ p1 \in Pools /\ p1.made = n
          /\ p1.pending = w.pool.pending /\ p1.idle = w.pool.idle
          /\ p1.active = w.pool.active
      BY <1>w, <3>0 DEF Worlds, Pools
    <3>2. p = [p2 EXCEPT !.owner = ow] OBVIOUS
    <3> HIDE DEF p1, p
    <3>3. /\ p2 \in Pools /\ p2.made = n /\ p2.attempt = at
          /\ p2.pending = w.pool.pending /\ p2.idle = w.pool.idle
          /\ p2.active = w.pool.active
      BY <2>0, <3>1 DEF Pools
    <3> HIDE DEF p2
    <3> QED BY <2>3, <3>2, <3>3 DEF Pools
  <2> HIDE DEF p, v
  <2>6. v \in Worlds /\ v.acq = w.acq /\ v.has = w.has /\ v.open = w.open /\ v.pool = p
    BY <1>w, <2>1, <2>2 DEF Worlds
  <2> QED BY <2>1, <2>6 DEF at, ow
<1>2. /\ \A c \in Conns : c # n => /\ v.pool.attempt[c] = w.pool.attempt[c]
                                   /\ v.pool.owner[c] = w.pool.owner[c]
      /\ n \in Conns => /\ v.pool.attempt[n] = "connecting" /\ v.pool.owner[n] = who
                        /\ w.pool.attempt[n] = "unused"
  <2>1. n \in Conns => w.pool.attempt[n] = "unused"
    BY <1>0 DEF Good, AttemptsMade, Conns
  <2> QED BY <1>w, <1>1, <2>1 DEF Worlds, Pools
<1> HIDE DEF v
<1>3. WaitersQueue(v, M) /\ ActiveHeld(v, M) /\ NobodyWaits(v)
  BY <1>1 DEF Good, WaitersQueue, ActiveHeld, NobodyWaits, IsPending
<1>4. IdleOnce(v)
  <2>1. \A i \in DOMAIN w.pool.idle : w.pool.idle[i] \in Conns
    BY <1>w, ElementOfSeq DEF Worlds, Pools
  <2> QED BY <1>1, <1>2, <2>1 DEF Good, IdleOnce
<1>5. HeldAlone(v, M)
  <2>1. \A a \in Acquirers : w.has[a] \in Conns \cup {NoConn} BY <1>w DEF Worlds
  <2> QED BY <1>1, <1>2, <2>1 DEF Good, HeldAlone, IsIdle
<1>6. Somewhere(v, M, h)
  <2>1. w.open \subseteq Conns BY <1>w DEF Worlds
  <2> QED BY <1>1, <1>2, <2>1 DEF Good, Somewhere, IsIdle
<1>7. InHand(v, M, h) BY <1>1, <1>2 DEF Good, InHand, IsIdle, MaybeConn
<1>8. AttemptsMade(v)
  BY <1>0, <1>1, <1>2 DEF Good, AttemptsMade, Conns
<1>9. AttemptsOwned(v, M)
  BY <1>1, <1>2 DEF Good, AttemptsOwned, Live
<1> QED BY <1>1, <1>3, <1>4, <1>5, <1>6, <1>7, <1>8, <1>9 DEF Good, v

\* The drain flag says nothing of the places.
LEMMA DrainFlagKeeps ==
    ASSUME NEW w, NEW M \in SUBSET Acquirers, NEW h \in MaybeConn, Good(w, M, h),
           NEW d \in {"off", "running", "ending"}
    PROVE  Good([w EXCEPT !.pool.drain = d], M, h)
<1> DEFINE v == [w EXCEPT !.pool.drain = d]
<1>w. w \in Worlds BY DEF Good
<1>1. /\ v \in Worlds
      /\ v.acq = w.acq /\ v.has = w.has /\ v.open = w.open
      /\ v.pool.pending = w.pool.pending /\ v.pool.idle = w.pool.idle
      /\ v.pool.active = w.pool.active /\ v.pool.made = w.pool.made
      /\ v.pool.attempt = w.pool.attempt /\ v.pool.owner = w.pool.owner
  BY <1>w DEF Worlds, Pools
<1> HIDE DEF v
<1>2. /\ IdleOnce(v) /\ WaitersQueue(v, M) /\ HeldAlone(v, M) /\ ActiveHeld(v, M)
      /\ AttemptsOwned(v, M) /\ AttemptsMade(v) /\ NobodyWaits(v)
  BY <1>1 DEF Good, IdleOnce, WaitersQueue, HeldAlone, ActiveHeld, AttemptsOwned,
              AttemptsMade, NobodyWaits, Live, IsIdle, IsPending
<1>3. Somewhere(v, M, h) /\ InHand(v, M, h)
  BY <1>1 DEF Good, Somewhere, InHand, IsIdle
<1> QED BY <1>1, <1>2, <1>3 DEF Good, v

LEMMA ScheduleKeeps ==
    ASSUME NEW w, NEW M \in SUBSET Acquirers, NEW h \in MaybeConn, Good(w, M, h)
    PROVE  Good(SchedulePendingCreateDrain(w), M, h)
<1>1. Good([w EXCEPT !.pool.drain = "running"], M, h) BY DrainFlagKeeps
<1>2. "drain" \in Owners /\ "drain" \notin Acquirers BY PoolAssumption DEF Owners
<1>3. Good(BeginConnectAttempt([w EXCEPT !.pool.drain = "running"], "drain"), M, h)
  BY <1>1, <1>2, BeginKeeps
<1> QED BY <1>3 DEF SchedulePendingCreateDrain

LEMMA DrainLoopKeeps ==
    ASSUME NEW w, NEW M \in SUBSET Acquirers, NEW h \in MaybeConn, Good(w, M, h)
    PROVE  Good(DrainLoop(w), M, h)
<1>1. Good([w EXCEPT !.pool.drain = "ending"], M, h) BY DrainFlagKeeps
<1>2. "drain" \in Owners /\ "drain" \notin Acquirers BY PoolAssumption DEF Owners
<1>3. Good(BeginConnectAttempt(w, "drain"), M, h)
  BY <1>2, BeginKeeps
<1> QED BY <1>1, <1>3 DEF DrainLoop

\* The next waiter, if there is one, gets the connection in hand.
LEMMA HandoffKeeps ==
    ASSUME NEW w, NEW M \in SUBSET Acquirers, NEW h \in Conns, Good(w, M, h),
           w.pool.pending # <<>>
    PROVE  Good(HandoffPendingAcquire(w, h), M, NoConn)
<1> DEFINE s == w.pool.pending
<1>1. s \in Seq(Acquirers) BY DEF Good, Worlds, Pools
<1>2. NoRepeat(s) BY DEF Good, WaitersQueue, NoRepeat
<1> HIDE DEF s
<1>3. 1 \in DOMAIN s /\ Head(s) = s[1] /\ Tail(s) \in Seq(Acquirers) /\ Lost(Tail(s), s, 1)
  BY <1>1, <1>2, AboutTail DEF s
<1>h. h \in MaybeConn BY DEF MaybeConn
<1>4. /\ s[1] \in Acquirers \ M
      /\ Good([w EXCEPT !.pool.pending = Tail(s)], M \cup {s[1]}, h)
  BY <1>3, <1>h, TakeWaiterKeeps DEF s
<1>5. Good(Holds([w EXCEPT !.pool.pending = Tail(s)], s[1], h),
           (M \cup {s[1]}) \ {s[1]}, NoConn)
  <2>1. M \cup {s[1]} \in SUBSET Acquirers /\ s[1] \in M \cup {s[1]} BY <1>4
  <2> QED BY <2>1, <1>4, HoldKeeps
<1>6. (M \cup {s[1]}) \ {s[1]} = M BY <1>4
<1>7. HandoffPendingAcquire(w, h) = Holds([w EXCEPT !.pool.pending = Tail(s)], s[1], h)
  <2>1. w.pool.pending = s BY DEF s
  <2>2. HandoffPendingAcquire(w, h) = Holds([w EXCEPT !.pool.pending = Tail(w.pool.pending)], Head(w.pool.pending), h)
    BY DEF HandoffPendingAcquire, Good, Worlds, Pools
  <2> QED BY <2>1, <2>2, <1>3
<1> QED BY <1>5, <1>6, <1>7

LEMMA HandoffOrParkKeeps ==
    ASSUME NEW w, NEW M \in SUBSET Acquirers, NEW h \in Conns, Good(w, M, h)
    PROVE  Good(HandoffOrPark(w, h), M, NoConn)
BY HandoffKeeps, ParkKeeps DEF HandoffOrPark

\* A waiter that is rejected leaves the queue.
LEMMA RejectWaiterKeeps ==
    ASSUME NEW w, NEW M \in SUBSET Acquirers, NEW h \in MaybeConn, Good(w, M, h),
           NEW i \in DOMAIN w.pool.pending, NEW q \in Seq(Acquirers),
           Lost(q, w.pool.pending, i)
    PROVE  Good(Rejected([w EXCEPT !.pool.pending = q], w.pool.pending[i]), M, h)
<1> DEFINE a == w.pool.pending[i]
<1>1. /\ a \in Acquirers \ M
      /\ Good([w EXCEPT !.pool.pending = q], M \cup {a}, h)
  BY TakeWaiterKeeps
<1> HIDE DEF a
<1>2. M \cup {a} \in SUBSET Acquirers /\ a \in M \cup {a} /\ (M \cup {a}) \ {a} = M
  BY <1>1
<1>3. Good(Rejected([w EXCEPT !.pool.pending = q], a), (M \cup {a}) \ {a}, h)
  BY <1>1, <1>2, RejectKeeps
<1> QED BY <1>2, <1>3 DEF a
\* A connection that is in hand and closed need not go anywhere.
LEMMA ClosedHand ==
    ASSUME NEW w, NEW M \in SUBSET Acquirers, NEW h, Good(w, M, h), h \notin w.open
    PROVE  Good(w, M, NoConn)
<1>1. Somewhere(w, M, NoConn) /\ InHand(w, M, NoConn) BY DEF Good, Somewhere, InHand
<1> QED BY <1>1 DEF Good

\* An acquire that begins, or whose health check ends, is decided.
LEMMA MoverKeeps ==
    ASSUME NEW w, Good(w, {}, NoConn), NEW a \in Acquirers,
           w.acq[a] \notin {"creating", "waiting", "holding"}
    PROVE  Good(w, {a}, w.has[a])
<1>1. WaitersQueue(w, {a}) BY DEF Good, WaitersQueue
<1>2. HeldAlone(w, {a}) /\ ActiveHeld(w, {a}) BY DEF Good, HeldAlone, ActiveHeld
<1>3. Somewhere(w, {a}, w.has[a])
  <2>1. \A c \in w.open : c # NoConn
    BY PoolAssumption DEF Good, Worlds, Conns
  <2> QED BY <2>1 DEF Good, Somewhere
<1>4. InHand(w, {a}, w.has[a])
  BY DEF Good, InHand, HeldAlone
<1>5. AttemptsOwned(w, {a}) BY DEF Good, AttemptsOwned
<1> QED BY <1>1, <1>2, <1>3, <1>4, <1>5 DEF Good

\* The outcome of an attempt is seen by who waits for it: a connection is in hand.
LEMMA SeenKeeps ==
    ASSUME NEW w, Good(w, {}, NoConn), NEW c \in Conns,
           w.pool.attempt[c] \in {"connected", "failed"}
    PROVE  Good([w EXCEPT !.pool.attempt[c] = "done"], {w.pool.owner[c]} \cap Acquirers, c)
<1> DEFINE v == [w EXCEPT !.pool.attempt[c] = "done"]
           M == {w.pool.owner[c]} \cap Acquirers
<1>w. w \in Worlds BY DEF Good
<1>1. /\ v \in Worlds
      /\ v.acq = w.acq /\ v.has = w.has /\ v.open = w.open
      /\ v.pool.pending = w.pool.pending /\ v.pool.idle = w.pool.idle
      /\ v.pool.active = w.pool.active /\ v.pool.made = w.pool.made
      /\ v.pool.attempt = [w.pool.attempt EXCEPT ![c] = "done"]
      /\ v.pool.owner = w.pool.owner
  <2> DEFINE at == [w.pool.attempt EXCEPT ![c] = "done"]
  <2>1. at \in [Conns -> Attempts] BY <1>w DEF Worlds, Pools, Attempts
  <2>2. v = [w EXCEPT !.pool = [w.pool EXCEPT !.attempt = at]] OBVIOUS
  <2> HIDE DEF at, v
  <2>3. [w.pool EXCEPT !.attempt = at] \in Pools BY <1>w, <2>1 DEF Worlds, Pools
  <2>4. v \in Worlds /\ v.acq = w.acq /\ v.has = w.has /\ v.open = w.open
        /\ v.pool = [w.pool EXCEPT !.attempt = at]
    BY <1>w, <2>2, <2>3 DEF Worlds
  <2>5. v.pool.attempt = at /\ v.pool.owner = w.pool.owner
        /\ v.pool.pending = w.pool.pending /\ v.pool.idle = w.pool.idle
        /\ v.pool.active = w.pool.active /\ v.pool.made = w.pool.made
    BY <1>w, <2>4 DEF Worlds, Pools
  <2> QED BY <2>4, <2>5 DEF at
<1>2. /\ v.pool.attempt[c] = "done"
      /\ \A d \in Conns : d # c => v.pool.attempt[d] = w.pool.attempt[d]
  BY <1>w, <1>1 DEF Worlds, Pools
<1>3. M \in SUBSET Acquirers /\ \A a \in M : w.acq[a] = "creating" /\ w.has[a] = NoConn
  BY DEF Good, AttemptsOwned, Live, HeldAlone
<1>4. /\ \A i \in DOMAIN w.pool.idle : w.pool.idle[i] \in Conns
      /\ \A a \in Acquirers : w.has[a] \in Conns \cup {NoConn}
  BY <1>w, ElementOfSeq DEF Worlds, Pools
<1>5. \A d \in Conns : Live(v, d) <=> Live(w, d) /\ d # c
  BY <1>2 DEF Live
<1>m. \A d \in Conns : w.pool.owner[d] \in M => w.pool.owner[d] = w.pool.owner[c]
  OBVIOUS
<1> HIDE DEF v, M
<1>6. IdleOnce(v) BY <1>1, <1>2, <1>4 DEF Good, IdleOnce
<1>7. WaitersQueue(v, M) BY <1>1, <1>3 DEF Good, WaitersQueue, IsPending
<1>8. HeldAlone(v, M)
  BY <1>1, <1>2, <1>3, <1>4 DEF Good, HeldAlone, IsIdle
<1>9. ActiveHeld(v, M) BY <1>1, <1>3 DEF Good, ActiveHeld
<1>10. Somewhere(v, M, c)
  <2>1. w.open \subseteq Conns /\ NoConn \notin w.open
    BY <1>w, PoolAssumption DEF Worlds, Conns
  <2> QED BY <1>1, <1>2, <1>3, <2>1 DEF Good, Somewhere, IsIdle
<1>11. InHand(v, M, c)
  <2>1. ~IsIdle(v, c) BY <1>1 DEF Good, IdleOnce, IsIdle
  <2>2. \A a \in Acquirers : w.has[a] # c
    BY PoolAssumption DEF Good, HeldAlone, Conns
  <2> QED BY <1>1, <1>2, <2>1, <2>2 DEF InHand
<1>12. AttemptsOwned(v, M)
  BY <1>1, <1>5, <1>m DEF Good, AttemptsOwned, Live
<1>13. AttemptsMade(v) BY <1>1, <1>2 DEF Good, AttemptsMade
<1>14. NobodyWaits(v) BY <1>1 DEF Good, NobodyWaits
<1> QED BY <1>1, <1>6, <1>7, <1>8, <1>9, <1>10, <1>11, <1>12, <1>13, <1>14
        DEF Good, v, M

\* A health check of the connection in hand begins.
LEMMA CheckKeeps ==
    ASSUME NEW w, NEW a \in Acquirers, NEW h \in Conns, Good(w, {a}, h)
    PROVE  Good([w EXCEPT !.acq[a] = "checking", !.has[a] = h], {}, NoConn)
<1> DEFINE v == [w EXCEPT !.acq[a] = "checking", !.has[a] = h]
<1>w. w \in Worlds BY DEF Good
<1>1. /\ v \in Worlds
      /\ v.acq = [w.acq EXCEPT ![a] = "checking"]
      /\ v.has = [w.has EXCEPT ![a] = h] /\ v.open = w.open
      /\ v.pool = w.pool
  BY <1>w DEF Worlds, Progress
<1>3. /\ v.acq[a] = "checking" /\ v.has[a] = h /\ h # NoConn
      /\ \A b \in Acquirers \ {a} : v.acq[b] = w.acq[b] /\ v.has[b] = w.has[b]
  BY <1>w, <1>1, PoolAssumption DEF Worlds, Conns
<1>4. /\ \A b \in Acquirers \ {a} : w.has[b] # h
      /\ v.pool.attempt[h] = "done" /\ ~IsIdle(v, h)
  BY <1>1, <1>3 DEF Good, InHand, IsIdle
<1> HIDE DEF v
<1>5. IdleOnce(v) /\ AttemptsMade(v) /\ NobodyWaits(v)
  BY <1>1 DEF Good, IdleOnce, AttemptsMade, NobodyWaits
<1>6. WaitersQueue(v, {})
  BY <1>1, <1>3 DEF Good, WaitersQueue, IsPending
<1>7. AttemptsOwned(v, {})
  BY <1>1, <1>3 DEF Good, AttemptsOwned, Live
<1>8. HeldAlone(v, {})
  BY <1>1, <1>3, <1>4 DEF Good, HeldAlone, IsIdle
<1>9. ActiveHeld(v, {})
  BY <1>1, <1>3 DEF Good, ActiveHeld
<1>10. Somewhere(v, {}, NoConn) /\ InHand(v, {}, NoConn)
  BY <1>1, <1>3 DEF Good, Somewhere, InHand, IsIdle
<1> QED BY <1>1, <1>5, <1>6, <1>7, <1>8, <1>9, <1>10 DEF Good, v

\* The acquire that finds no connection and no capacity waits.
LEMMA WaitKeeps ==
    ASSUME NEW w, NEW a \in Acquirers, Good(w, {a}, NoConn), w.pool.idle = <<>>
    PROVE  Good([w EXCEPT !.acq[a] = "waiting", !.has[a] = NoConn,
                          !.pool.pending = Append(@, a)], {}, NoConn)
<1> DEFINE v == [w EXCEPT !.acq[a] = "waiting", !.has[a] = NoConn,
                          !.pool.pending = Append(@, a)]
           q == Append(w.pool.pending, a)
<1>w. w \in Worlds BY DEF Good
<1>0. q \in Seq(Acquirers) BY <1>w DEF Worlds, Pools
<1>1. /\ v \in Worlds
      /\ v.acq = [w.acq EXCEPT ![a] = "waiting"]
      /\ v.has = [w.has EXCEPT ![a] = NoConn] /\ v.open = w.open
      /\ v.pool = [w.pool EXCEPT !.pending = q]
  <2>1. [w.pool EXCEPT !.pending = q] \in Pools BY <1>w, <1>0 DEF Worlds, Pools
  <2> QED BY <1>w, <2>1 DEF Worlds, Progress
<1>2. /\ v.pool.pending = q /\ v.pool.attempt = w.pool.attempt
      /\ v.pool.owner = w.pool.owner /\ v.pool.made = w.pool.made
      /\ v.pool.active = w.pool.active /\ v.pool.idle = w.pool.idle
  BY <1>w, <1>1 DEF Worlds, Pools
<1>3. /\ v.acq[a] = "waiting" /\ v.has[a] = NoConn
      /\ \A b \in Acquirers \ {a} : v.acq[b] = w.acq[b] /\ v.has[b] = w.has[b]
  BY <1>w, <1>1 DEF Worlds
<1>4. /\ w.pool.pending \in Seq(Acquirers)
      /\ DOMAIN q = DOMAIN w.pool.pending \cup {Len(w.pool.pending) + 1}
      /\ \A i \in DOMAIN w.pool.pending : q[i] = w.pool.pending[i]
      /\ q[Len(w.pool.pending) + 1] = a
      /\ Len(w.pool.pending) + 1 \notin DOMAIN w.pool.pending
  BY <1>w DEF Worlds, Pools
<1> HIDE DEF v, q
<1>5. \A b : IsPending(v, b) <=> IsPending(w, b) \/ b = a
  BY <1>2, <1>4 DEF IsPending
<1>6. IdleOnce(v) /\ AttemptsMade(v) /\ NobodyWaits(v)
  BY <1>2 DEF Good, IdleOnce, AttemptsMade, NobodyWaits
<1>7. WaitersQueue(v, {})
  <2>1. \A i \in DOMAIN w.pool.pending : w.pool.pending[i] # a
    BY DEF Good, WaitersQueue, IsPending
  <2>2. \A i, j \in DOMAIN q : q[i] = q[j] => i = j
    BY <1>4, <2>1 DEF Good, WaitersQueue
  <2> QED BY <1>2, <1>3, <1>5, <2>2 DEF Good, WaitersQueue
<1>8. AttemptsOwned(v, {})
  BY <1>2, <1>3 DEF Good, AttemptsOwned, Live
<1>9. HeldAlone(v, {})
  BY <1>2, <1>3 DEF Good, HeldAlone, IsIdle
<1>10. ActiveHeld(v, {})
  BY <1>1, <1>2, <1>3 DEF Good, ActiveHeld
<1>11. Somewhere(v, {}, NoConn) /\ InHand(v, {}, NoConn)
  BY <1>1, <1>2, <1>3 DEF Good, Somewhere, InHand, IsIdle
<1> QED BY <1>1, <1>6, <1>7, <1>8, <1>9, <1>10, <1>11 DEF Good, v
(***************************************************************************)
(* The handlers keep it.                                                   *)
(***************************************************************************)

LEMMA DeliverKeeps ==
    ASSUME NEW w, NEW a \in Acquirers, NEW h \in Conns, Good(w, {a}, h)
    PROVE  Good(Deliver(w, a, h), {}, NoConn)
<1>0. {a} \in SUBSET Acquirers /\ a \in {a} /\ {a} \ {a} = {} /\ NoConn \in MaybeConn
  BY DEF MaybeConn
<1>1. Good(Holds(w, a, h), {}, NoConn)
  <2>1. Good(Holds(w, a, h), {a} \ {a}, NoConn) BY <1>0, HoldKeeps
  <2> QED BY <2>1, <1>0
<1>2. Good(CloseConnection(w, h), {a}, NoConn) BY <1>0, CloseKeeps
<1>3. Good(HandoffOrPark(w, h), {a}, NoConn) BY <1>0, HandoffOrParkKeeps
<1>4. ASSUME NEW v, Good(v, {a}, NoConn) PROVE Good(Rejected(v, a), {}, NoConn)
  <2>1. Good(Rejected(v, a), {a} \ {a}, NoConn) BY <1>0, <1>4, RejectKeeps
  <2> QED BY <2>1, <1>0
<1>5. Good(Rejected(CloseConnection(w, h), a), {}, NoConn) BY <1>2, <1>4
<1>6. Good(Rejected(HandoffOrPark(w, h), a), {}, NoConn) BY <1>3, <1>4
<1> QED BY <1>1, <1>5, <1>6 DEF Deliver

\* The acquire that may create a connection begins its attempt.
LEMMA CreateKeeps ==
    ASSUME NEW w, NEW a \in Acquirers, Good(w, {a}, NoConn)
    PROVE  Good([BeginConnectAttempt(w, a) EXCEPT !.acq[a] = "creating",
                                                  !.has[a] = NoConn], {}, NoConn)
<1> DEFINE v == Decided(w, a, "creating")
<1>0. {a} \in SUBSET Acquirers /\ a \in {a} /\ {a} \ {a} = {} /\ NoConn \in MaybeConn
  BY DEF MaybeConn
<1>1. Good(v, {}, NoConn)
  <2>1. Good(v, {a} \ {a}, NoConn) BY <1>0, DecideKeeps
  <2> QED BY <2>1, <1>0
<1>w. w \in Worlds BY DEF Good
<1>2. v.acq[a] = "creating" /\ v.pool = w.pool
  BY <1>w DEF Worlds, Decided
<1>3. \A d \in Conns : Live(v, d) => v.pool.owner[d] # a
  BY <1>2 DEF Good, AttemptsOwned, Live
<1>4. a \in Owners BY DEF Owners
<1> HIDE DEF v
<1>5. Good(BeginConnectAttempt(v, a), {}, NoConn)
  <2>1. {} \in SUBSET Acquirers /\ a \notin {} OBVIOUS
  <2> QED BY <1>0, <1>1, <1>2, <1>3, <1>4, <2>1, BeginKeeps
<1>6. BeginConnectAttempt(v, a)
          = [BeginConnectAttempt(w, a) EXCEPT !.acq[a] = "creating", !.has[a] = NoConn]
  <2> DEFINE p == [[[w.pool EXCEPT !.made = w.pool.made + 1]
                       EXCEPT !.attempt[w.pool.made + 1] = "connecting"]
                       EXCEPT !.owner[w.pool.made + 1] = a]
  <2>1. BeginConnectAttempt(w, a) = [w EXCEPT !.pool = p]
    BY <1>w DEF BeginConnectAttempt, Worlds, Pools
  <2>2. BeginConnectAttempt(v, a) = [v EXCEPT !.pool = p]
    BY <1>w, <1>2 DEF BeginConnectAttempt, Worlds, Pools, v, Decided
  <2> HIDE DEF p
  <2> QED BY <1>w, <2>1, <2>2 DEF Worlds, v, Decided
<1> QED BY <1>5, <1>6

LEMMA SeekKeeps ==
    ASSUME NEW w, NEW a \in Acquirers, Good(w, {a}, NoConn), NEW v \in Seek(w, a)
    PROVE  Good(v, {}, NoConn)
<1>0. {a} \in SUBSET Acquirers /\ a \in {a} /\ {a} \ {a} = {} /\ NoConn \in MaybeConn
  BY DEF MaybeConn
<1>1. CASE w.pool.idle # <<>>
  <2> DEFINE c == Head(w.pool.idle)
             taken == [w EXCEPT !.pool.idle = Tail(@)]
  <2>1. w.pool.idle \in Seq(Conns) /\ NoRepeat(w.pool.idle)
    BY DEF Good, Worlds, Pools, IdleOnce, NoRepeat
  <2>2. /\ 1 \in DOMAIN w.pool.idle /\ c = w.pool.idle[1]
        /\ Tail(w.pool.idle) \in Seq(Conns) /\ Lost(Tail(w.pool.idle), w.pool.idle, 1)
    BY <1>1, <2>1, AboutTail
  <2>3. c \in Conns /\ Good(taken, {a}, c)
    BY <1>0, <2>2, TakeIdleKeeps
  <2>4. v = Deliver(taken, a, c)
        \/ v = [taken EXCEPT !.acq[a] = "checking", !.has[a] = c]
    BY <1>1 DEF Seek
  <2> HIDE DEF c, taken
  <2>5. Good(Deliver(taken, a, c), {}, NoConn) BY <2>3, DeliverKeeps
  <2>6. Good([taken EXCEPT !.acq[a] = "checking", !.has[a] = c], {}, NoConn)
    BY <2>3, CheckKeeps
  <2> QED BY <2>4, <2>5, <2>6
<1>2. CASE w.pool.idle = <<>>
  <2>1. \/ v = Rejected(w, a)
        \/ v = [BeginConnectAttempt(w, a) EXCEPT !.acq[a] = "creating", !.has[a] = NoConn]
        \/ v = [w EXCEPT !.acq[a] = "waiting", !.has[a] = NoConn,
                         !.pool.pending = Append(@, a)]
    BY <1>2 DEF Seek
  <2>2. Good(Rejected(w, a), {}, NoConn)
    <3>1. Good(Rejected(w, a), {a} \ {a}, NoConn) BY <1>0, RejectKeeps
    <3> QED BY <3>1, <1>0
  <2>3. Good([BeginConnectAttempt(w, a) EXCEPT !.acq[a] = "creating",
                                               !.has[a] = NoConn], {}, NoConn)
    BY CreateKeeps
  <2>4. Good([w EXCEPT !.acq[a] = "waiting", !.has[a] = NoConn,
                       !.pool.pending = Append(@, a)], {}, NoConn)
    BY <1>2, WaitKeeps
  <2> QED BY <2>1, <2>2, <2>3, <2>4
<1> QED BY <1>1, <1>2

(***************************************************************************)
(* The steps keep it.                                                      *)
(***************************************************************************)
LEMMA BecomesGood ==
    ASSUME NEW w, Good(w, {}, NoConn), Becomes(w), aborted' \subseteq Acquirers
    PROVE  PoolInv'
<1>1. World' = w /\ pool'.made <= MaxConns
  <2>1. w \in Worlds BY DEF Good
  <2>2. World' = [pool |-> w.pool, acq |-> w.acq, has |-> w.has, open |-> w.open]
    BY DEF Becomes, World
  <2>3. w = [pool |-> w.pool, acq |-> w.acq, has |-> w.has, open |-> w.open]
    BY <2>1 DEF Worlds
  <2> QED BY <2>2, <2>3 DEF Becomes
<1> QED BY <1>1 DEF PoolInv

LEMMA WorldIs ==
    /\ World.pool = pool /\ World.acq = acq /\ World.has = has /\ World.open = open
BY DEF World

LEMMA AcquireStep ==
    ASSUME PoolInv, NEW a \in Acquirers, Acquire(a)
    PROVE  PoolInv'
<1>1. Good(World, {}, NoConn) /\ aborted \subseteq Acquirers BY DEF PoolInv
<1>2. acq[a] = "idle" BY DEF Acquire
<1>3. has[a] = NoConn BY <1>1, <1>2, WorldIs DEF Good, HeldAlone
<1>4. Good(World, {a}, NoConn)
  <2>1. Good(World, {a}, World.has[a]) BY <1>1, <1>2, WorldIs, MoverKeeps
  <2> QED BY <2>1, <1>3, WorldIs
<1>5. PICK w \in (IF pool.closed THEN {Rejected(World, a)} ELSE Seek(World, a)) : Becomes(w)
  BY DEF Acquire
<1>6. Good(Rejected(World, a), {}, NoConn)
  <2>1. Good(Rejected(World, a), {a} \ {a}, NoConn)
    BY <1>4, RejectKeeps DEF MaybeConn
  <2>2. {a} \ {a} = {} OBVIOUS
  <2> QED BY <2>1, <2>2
<1>7. Good(w, {}, NoConn)
  <2>1. CASE pool.closed BY <1>5, <1>6, <2>1
  <2>2. CASE ~pool.closed
    <3>1. w \in Seek(World, a) BY <1>5, <2>2
    <3> QED BY <3>1, <1>4, SeekKeeps
  <2> QED BY <2>1, <2>2
<1>8. UNCHANGED aborted BY DEF Acquire
<1> QED BY <1>1, <1>5, <1>7, <1>8, BecomesGood

LEMMA CheckStep ==
    ASSUME PoolInv, NEW a \in Acquirers, HealthCheckEnds(a)
    PROVE  PoolInv'
<1>1. Good(World, {}, NoConn) /\ aborted \subseteq Acquirers BY DEF PoolInv
<1>2. acq[a] = "checking" /\ UNCHANGED aborted BY DEF HealthCheckEnds
<1>3. has[a] \in Conns
  BY <1>1, <1>2, WorldIs DEF Good, HeldAlone, Worlds
<1>4. Good(World, {a}, has[a]) BY <1>1, <1>2, WorldIs, MoverKeeps
<1>5. CASE Becomes(Deliver(World, a, has[a]))
  <2>1. Good(Deliver(World, a, has[a]), {}, NoConn) BY <1>3, <1>4, DeliverKeeps
  <2> QED BY <1>1, <1>2, <1>5, <2>1, BecomesGood
<1>6. CASE \E w \in Seek(CloseConnection(World, has[a]), a) : Becomes(w)
  <2>1. PICK w \in Seek(CloseConnection(World, has[a]), a) : Becomes(w) BY <1>6
  <2>2. Good(CloseConnection(World, has[a]), {a}, NoConn)
    <3>1. {a} \in SUBSET Acquirers OBVIOUS
    <3> QED BY <1>3, <1>4, <3>1, CloseKeeps
  <2>3. Good(w, {}, NoConn) BY <2>1, <2>2, SeekKeeps
  <2> QED BY <1>1, <1>2, <2>1, <2>3, BecomesGood
<1> QED BY <1>5, <1>6 DEF HealthCheckEnds

LEMMA AcquireConnectedStep ==
    ASSUME PoolInv, NEW a \in Acquirers, NEW c \in Conns, AcquireConnected(a, c)
    PROVE  PoolInv'
<1>1. Good(World, {}, NoConn) /\ aborted \subseteq Acquirers BY DEF PoolInv
<1>2. /\ pool.owner[c] = a /\ pool.attempt[c] \in {"connected", "failed"}
      /\ UNCHANGED aborted
  BY DEF AcquireConnected, Connected, ConnectFailed
<1>0. {a} \in SUBSET Acquirers /\ a \in {a} /\ {a} \ {a} = {} /\ NoConn \in MaybeConn
      /\ {} \in SUBSET Acquirers
  BY DEF MaybeConn
<1>3. Good(Seen(c), {a}, c)
  <2>1. Good(Seen(c), {World.pool.owner[c]} \cap Acquirers, c)
    BY <1>1, <1>2, WorldIs, SeenKeeps DEF Seen
  <2>2. {World.pool.owner[c]} \cap Acquirers = {a} BY <1>2, WorldIs
  <2> QED BY <2>1, <2>2
<1>4. ASSUME NEW v, Good(v, {a}, NoConn) PROVE Good(Rejected(v, a), {}, NoConn)
  <2>1. Good(Rejected(v, a), {a} \ {a}, NoConn) BY <1>0, <1>4, RejectKeeps
  <2> QED BY <2>1, <1>0
<1>5. CASE Connected(c, a) /\ Becomes(IF pool.closed
                                      THEN Rejected(CloseConnection(Seen(c), c), a)
                                      ELSE Holds(Seen(c), a, c))
  <2>1. Good(CloseConnection(Seen(c), c), {a}, NoConn) BY <1>0, <1>3, CloseKeeps
  <2>2. Good(Rejected(CloseConnection(Seen(c), c), a), {}, NoConn) BY <2>1, <1>4
  <2>3. Good(Holds(Seen(c), a, c), {a} \ {a}, NoConn) BY <1>0, <1>3, HoldKeeps
  <2>4. Good(Holds(Seen(c), a, c), {}, NoConn) BY <2>3, <1>0
  <2> QED BY <1>1, <1>2, <1>5, <2>2, <2>4, BecomesGood
<1>6. CASE ConnectFailed(c, a)
           /\ Becomes(SchedulePendingCreateDrain(Rejected(Seen(c), a)))
  <2>1. c \notin Seen(c).open
    <3>1. c \notin World.open BY <1>1, <1>6, WorldIs DEF Good, Somewhere, ConnectFailed
    <3> QED BY <3>1 DEF Seen, World
  <2>2. Good(Rejected(Seen(c), a), {}, NoConn)
    <3>1. Good(Seen(c), {a}, NoConn) BY <1>0, <1>3, <2>1, ClosedHand
    <3> QED BY <3>1, <1>4
  <2>3. Good(SchedulePendingCreateDrain(Rejected(Seen(c), a)), {}, NoConn)
    BY <1>0, <2>2, ScheduleKeeps
  <2> QED BY <1>1, <1>2, <1>6, <2>3, BecomesGood
<1> QED BY <1>5, <1>6 DEF AcquireConnected
\* An attempt that is not an acquire's.
LEMMA SeenByPool ==
    ASSUME PoolInv, NEW c \in Conns,
           NEW who \in {"orphan", "drain", "warmup", "detached"},
           Connected(c, who) \/ ConnectFailed(c, who)
    PROVE  /\ Good(Seen(c), {}, c)
           /\ ConnectFailed(c, who) => Good(Seen(c), {}, NoConn)
<1>1. Good(World, {}, NoConn) BY DEF PoolInv
<1>2. pool.owner[c] \notin Acquirers /\ pool.attempt[c] \in {"connected", "failed"}
  BY PoolAssumption DEF Connected, ConnectFailed
<1>3. Good(Seen(c), {}, c)
  <2>1. Good(Seen(c), {World.pool.owner[c]} \cap Acquirers, c)
    BY <1>1, <1>2, WorldIs, SeenKeeps DEF Seen
  <2>2. {World.pool.owner[c]} \cap Acquirers = {} BY <1>2, WorldIs
  <2> QED BY <2>1, <2>2
<1>4. ASSUME ConnectFailed(c, who) PROVE Good(Seen(c), {}, NoConn)
  <2>1. c \notin World.open BY <1>1, <1>4, WorldIs DEF Good, Somewhere, ConnectFailed
  <2>2. c \notin Seen(c).open BY <2>1 DEF Seen, World
  <2>3. {} \in SUBSET Acquirers OBVIOUS
  <2> QED BY <1>3, <2>2, <2>3, ClosedHand
<1> QED BY <1>3, <1>4

LEMMA NobodyMoves == {} \in SUBSET Acquirers /\ NoConn \in MaybeConn
BY DEF MaybeConn

LEMMA SeenPending ==
    ASSUME PoolInv, NEW c \in Conns
    PROVE  pool.pending = Seen(c).pool.pending
<1>1. World \in Worlds /\ World.pool = pool BY WorldIs DEF PoolInv, Good
<1> DEFINE at == [World.pool.attempt EXCEPT ![c] = "done"]
<1>2. Seen(c) = [World EXCEPT !.pool = [World.pool EXCEPT !.attempt = at]]
  BY DEF Seen
<1> HIDE DEF at
<1>3. Seen(c).pool = [World.pool EXCEPT !.attempt = at]
  BY <1>1, <1>2 DEF Worlds
<1>4. Seen(c).pool.pending = World.pool.pending
  BY <1>1, <1>3 DEF Worlds, Pools
<1> QED BY <1>1, <1>4

LEMMA OrphanStep ==
    ASSUME PoolInv, NEW c \in Conns, OrphanConnected(c)
    PROVE  PoolInv'
<1>1. aborted \subseteq Acquirers /\ UNCHANGED aborted BY DEF PoolInv, OrphanConnected
<1>2. pool.pending = Seen(c).pool.pending BY SeenPending
<1>3. CASE Connected(c, "orphan")
  <2>1. Good(Seen(c), {}, c) BY <1>3, SeenByPool
  <2>2. Good(CloseConnection(Seen(c), c), {}, NoConn) BY <2>1, NobodyMoves, CloseKeeps
  <2>3. pool.pending # <<>> => Good(HandoffPendingAcquire(Seen(c), c), {}, NoConn)
    BY <2>1, <1>2, NobodyMoves, HandoffKeeps
  <2>4. PICK v \in {SchedulePendingCreateDrain(CloseConnection(Seen(c), c)),
                    SchedulePendingCreateDrain(HandoffPendingAcquire(Seen(c), c))} :
            Becomes(v) /\ Good(v, {}, NoConn)
    <3>1. CASE pool.closed \/ pool.pending = <<>>
      <4>1. Becomes(SchedulePendingCreateDrain(CloseConnection(Seen(c), c)))
        BY <1>3, <3>1 DEF OrphanConnected, Connected, ConnectFailed
      <4> QED BY <2>2, <4>1, NobodyMoves, ScheduleKeeps
    <3>2. CASE ~(pool.closed \/ pool.pending = <<>>)
      <4>1. Becomes(SchedulePendingCreateDrain(HandoffPendingAcquire(Seen(c), c)))
        BY <1>3, <3>2 DEF OrphanConnected, Connected, ConnectFailed
      <4>2. Good(HandoffPendingAcquire(Seen(c), c), {}, NoConn) BY <2>3, <3>2
      <4> QED BY <4>1, <4>2, NobodyMoves, ScheduleKeeps
    <3> QED BY <3>1, <3>2
  <2> QED BY <1>1, <2>4, BecomesGood
<1>4. CASE ConnectFailed(c, "orphan")
  <2>1. Good(Seen(c), {}, NoConn) BY <1>4, SeenByPool
  <2>2. Good(SchedulePendingCreateDrain(Seen(c)), {}, NoConn)
    BY <2>1, NobodyMoves, ScheduleKeeps
  <2>3. Becomes(SchedulePendingCreateDrain(Seen(c)))
    BY <1>4 DEF OrphanConnected, Connected, ConnectFailed
  <2> QED BY <1>1, <2>2, <2>3, BecomesGood
<1> QED BY <1>3, <1>4 DEF OrphanConnected

LEMMA DrainStep ==
    ASSUME PoolInv, NEW c \in Conns, DrainConnected(c)
    PROVE  PoolInv'
<1>1. aborted \subseteq Acquirers /\ UNCHANGED aborted BY DEF PoolInv, DrainConnected
<1>2. pool.pending = Seen(c).pool.pending BY SeenPending
<1>3. CASE Connected(c, "drain")
  <2>1. Good(Seen(c), {}, c) BY <1>3, SeenByPool
  <2>b. /\ pool.closed => Becomes([CloseConnection(Seen(c), c) EXCEPT !.pool.drain = "ending"])
        /\ ~pool.closed /\ pool.pending = <<>>
               => Becomes([ParkIdleConnection(Seen(c), c) EXCEPT !.pool.drain = "ending"])
        /\ ~pool.closed /\ pool.pending # <<>>
               => Becomes(DrainLoop(HandoffPendingAcquire(Seen(c), c)))
    BY <1>3 DEF DrainConnected, Connected, ConnectFailed
  <2>2. CASE pool.closed
    <3>1. Good(CloseConnection(Seen(c), c), {}, NoConn) BY <2>1, NobodyMoves, CloseKeeps
    <3>2. Good([CloseConnection(Seen(c), c) EXCEPT !.pool.drain = "ending"], {}, NoConn)
      BY <3>1, NobodyMoves, DrainFlagKeeps
    <3> QED BY <1>1, <2>2, <2>b, <3>2, BecomesGood
  <2>3. CASE ~pool.closed /\ pool.pending = <<>>
    <3>1. Good(ParkIdleConnection(Seen(c), c), {}, NoConn)
      BY <1>2, <2>1, <2>3, NobodyMoves, ParkKeeps
    <3>2. Good([ParkIdleConnection(Seen(c), c) EXCEPT !.pool.drain = "ending"], {}, NoConn)
      BY <3>1, NobodyMoves, DrainFlagKeeps
    <3> QED BY <1>1, <2>3, <2>b, <3>2, BecomesGood
  <2>4. CASE ~pool.closed /\ pool.pending # <<>>
    <3>1. Good(HandoffPendingAcquire(Seen(c), c), {}, NoConn)
      BY <1>2, <2>1, <2>4, NobodyMoves, HandoffKeeps
    <3>2. Good(DrainLoop(HandoffPendingAcquire(Seen(c), c)), {}, NoConn)
      BY <3>1, NobodyMoves, DrainLoopKeeps
    <3> QED BY <1>1, <2>4, <2>b, <3>2, BecomesGood
  <2> QED BY <2>2, <2>3, <2>4
<1>4. CASE ConnectFailed(c, "drain")
  <2>1. Good(Seen(c), {}, NoConn) BY <1>4, SeenByPool
  <2> DEFINE s == Seen(c).pool.pending
             w == Rejected([Seen(c) EXCEPT !.pool.pending = Tail(@)], Head(pool.pending))
  <2>b. /\ pool.pending = <<>> => Becomes(DrainLoop(Seen(c)))
        /\ pool.pending # <<>> => Becomes(DrainLoop(w))
    BY <1>4 DEF DrainConnected, Connected, ConnectFailed
  <2>2. CASE pool.pending = <<>>
    <3>1. Good(DrainLoop(Seen(c)), {}, NoConn) BY <2>1, NobodyMoves, DrainLoopKeeps
    <3> QED BY <1>1, <2>2, <2>b, <3>1, BecomesGood
  <2>3. CASE pool.pending # <<>>
    <3>1. s \in Seq(Acquirers) /\ NoRepeat(s)
      BY <2>1 DEF Good, Worlds, Pools, WaitersQueue, NoRepeat
    <3>2. /\ 1 \in DOMAIN s /\ Head(s) = s[1]
          /\ Tail(s) \in Seq(Acquirers) /\ Lost(Tail(s), s, 1)
      BY <1>2, <2>3, <3>1, AboutTail
    <3>3. Good(Rejected([Seen(c) EXCEPT !.pool.pending = Tail(s)], s[1]), {}, NoConn)
      BY <2>1, <3>2, NobodyMoves, RejectWaiterKeeps
    <3>4. w = Rejected([Seen(c) EXCEPT !.pool.pending = Tail(s)], s[1])
      BY <1>2, <3>2
    <3> HIDE DEF w, s
    <3>5. Good(DrainLoop(w), {}, NoConn) BY <3>3, <3>4, NobodyMoves, DrainLoopKeeps
    <3> QED BY <1>1, <2>3, <2>b, <3>5, BecomesGood
  <2> QED BY <2>2, <2>3
<1> QED BY <1>3, <1>4 DEF DrainConnected

LEMMA WarmUpStep ==
    ASSUME PoolInv, NEW c \in Conns, WarmUpConnected(c)
    PROVE  PoolInv'
<1>1. aborted \subseteq Acquirers /\ UNCHANGED aborted BY DEF PoolInv, WarmUpConnected
<1>2. CASE Connected(c, "warmup")
           /\ Becomes(SchedulePendingCreateDrain(
                  IF pool.closed THEN CloseConnection(Seen(c), c)
                                 ELSE HandoffOrPark(Seen(c), c)))
  <2> DEFINE w == IF pool.closed THEN CloseConnection(Seen(c), c)
                                 ELSE HandoffOrPark(Seen(c), c)
  <2>1. Good(Seen(c), {}, c) BY <1>2, SeenByPool
  <2>2. Good(w, {}, NoConn) BY <2>1, NobodyMoves, CloseKeeps, HandoffOrParkKeeps
  <2> HIDE DEF w
  <2>3. Good(SchedulePendingCreateDrain(w), {}, NoConn)
    BY <2>2, NobodyMoves, ScheduleKeeps
  <2> QED BY <1>1, <1>2, <2>3, BecomesGood DEF w
<1>3. CASE ConnectFailed(c, "warmup") /\ Becomes(SchedulePendingCreateDrain(Seen(c)))
  <2>1. Good(Seen(c), {}, NoConn) BY <1>3, SeenByPool
  <2>2. Good(SchedulePendingCreateDrain(Seen(c)), {}, NoConn)
    BY <2>1, NobodyMoves, ScheduleKeeps
  <2> QED BY <1>1, <1>3, <2>2, BecomesGood
<1>4. CASE Connected(c, "detached") /\ Becomes(CloseConnection(Seen(c), c))
  <2>1. Good(Seen(c), {}, c) BY <1>4, SeenByPool
  <2>2. Good(CloseConnection(Seen(c), c), {}, NoConn) BY <2>1, NobodyMoves, CloseKeeps
  <2> QED BY <1>1, <1>4, <2>2, BecomesGood
<1>5. CASE ConnectFailed(c, "detached") /\ Becomes(Seen(c))
  <2>1. Good(Seen(c), {}, NoConn) BY <1>5, SeenByPool
  <2> QED BY <1>1, <1>5, <2>1, BecomesGood
<1> QED BY <1>2, <1>3, <1>4, <1>5 DEF WarmUpConnected

LEMMA DrainEndsStep ==
    ASSUME PoolInv, DrainEnds
    PROVE  PoolInv'
<1>1. /\ Good(World, {}, NoConn) /\ aborted \subseteq Acquirers /\ UNCHANGED aborted
      /\ Becomes(SchedulePendingCreateDrain([World EXCEPT !.pool.drain = "off"]))
  BY DEF PoolInv, DrainEnds
<1>2. Good([World EXCEPT !.pool.drain = "off"], {}, NoConn)
  BY <1>1, NobodyMoves, DrainFlagKeeps
<1>3. Good(SchedulePendingCreateDrain([World EXCEPT !.pool.drain = "off"]), {}, NoConn)
  BY <1>2, NobodyMoves, ScheduleKeeps
<1> QED BY <1>1, <1>3, BecomesGood
\* A waiter times out, or its signal fires.
LEMMA WaiterStep ==
    ASSUME PoolInv, NEW i \in DOMAIN pool.pending,
           Becomes(RejectPendingAcquire(World, i)), aborted' \subseteq Acquirers
    PROVE  PoolInv'
<1>1. Good(World, {}, NoConn) /\ World.pool = pool BY WorldIs DEF PoolInv
<1>2. pool.pending \in Seq(Acquirers) /\ NoRepeat(pool.pending)
  BY <1>1 DEF Good, Worlds, Pools, WaitersQueue, NoRepeat
<1> DEFINE q == Removed(pool.pending, i)
           v == Rejected([World EXCEPT !.pool.pending = q], World.pool.pending[i])
<1>3. q \in Seq(Acquirers) /\ Lost(q, pool.pending, i) BY <1>2, AboutRemoved
<1>4. RejectPendingAcquire(World, i) = v BY <1>1 DEF RejectPendingAcquire
<1> HIDE DEF q
<1>5. Good(v, {}, NoConn) BY <1>1, <1>3, NobodyMoves, RejectWaiterKeeps
<1> HIDE DEF v
<1> QED BY <1>4, <1>5, BecomesGood

LEMMA TimeoutStep ==
    ASSUME PoolInv, NEW a \in Acquirers, AcquireTimesOut(a)
    PROVE  PoolInv'
<1>1. PICK i \in DOMAIN pool.pending : Becomes(RejectPendingAcquire(World, i))
  BY DEF AcquireTimesOut
<1>2. aborted' \subseteq Acquirers BY DEF PoolInv, AcquireTimesOut
<1> QED BY <1>1, <1>2, WaiterStep

\* The attempt of an acquire is abandoned.
LEMMA OrphanKeeps ==
    ASSUME NEW w, Good(w, {}, NoConn), NEW a \in Acquirers, NEW c \in Conns,
           w.pool.attempt[c] = "connecting", w.pool.owner[c] = a
    PROVE  Good([w EXCEPT !.pool.owner[c] = "orphan"], {a}, NoConn)
<1> DEFINE v == [w EXCEPT !.pool.owner[c] = "orphan"]
           ow == [w.pool.owner EXCEPT ![c] = "orphan"]
<1>w. w \in Worlds BY DEF Good
<1>1. /\ v \in Worlds
      /\ v.acq = w.acq /\ v.has = w.has /\ v.open = w.open
      /\ v.pool.pending = w.pool.pending /\ v.pool.idle = w.pool.idle
      /\ v.pool.active = w.pool.active /\ v.pool.made = w.pool.made
      /\ v.pool.attempt = w.pool.attempt /\ v.pool.owner = ow
  <2>1. ow \in [Conns -> Owners] BY <1>w DEF Worlds, Pools, Owners
  <2>2. v = [w EXCEPT !.pool = [w.pool EXCEPT !.owner = ow]] OBVIOUS
  <2> HIDE DEF ow, v
  <2>3. [w.pool EXCEPT !.owner = ow] \in Pools BY <1>w, <2>1 DEF Worlds, Pools
  <2>4. v \in Worlds /\ v.acq = w.acq /\ v.has = w.has /\ v.open = w.open
        /\ v.pool = [w.pool EXCEPT !.owner = ow]
    BY <1>w, <2>2, <2>3 DEF Worlds
  <2>5. v.pool.attempt = w.pool.attempt /\ v.pool.owner = ow
        /\ v.pool.pending = w.pool.pending /\ v.pool.idle = w.pool.idle
        /\ v.pool.active = w.pool.active /\ v.pool.made = w.pool.made
    BY <1>w, <2>4 DEF Worlds, Pools
  <2> QED BY <2>4, <2>5
<1>2. /\ v.pool.owner[c] = "orphan" /\ "orphan" \notin Acquirers
      /\ \A d \in Conns : d # c => v.pool.owner[d] = w.pool.owner[d]
  BY <1>w, <1>1, PoolAssumption DEF Worlds, Pools
<1>3. w.acq[a] = "creating" /\ w.has[a] = NoConn
  BY DEF Good, AttemptsOwned, Live, HeldAlone
<1> HIDE DEF v, ow
<1>4. IdleOnce(v) /\ AttemptsMade(v) /\ NobodyWaits(v)
  BY <1>1 DEF Good, IdleOnce, AttemptsMade, NobodyWaits
<1>5. WaitersQueue(v, {a}) BY <1>1, <1>3 DEF Good, WaitersQueue, IsPending
<1>6. HeldAlone(v, {a}) /\ ActiveHeld(v, {a})
  BY <1>1, <1>3 DEF Good, HeldAlone, ActiveHeld, IsIdle
<1>7. Somewhere(v, {a}, NoConn) /\ InHand(v, {a}, NoConn)
  <2>1. NoConn \notin w.open BY <1>w, PoolAssumption DEF Worlds, Conns
  <2> QED BY <1>1, <1>3, <2>1 DEF Good, Somewhere, InHand, IsIdle
<1>8. AttemptsOwned(v, {a})
  <2> SUFFICES ASSUME NEW d \in Conns, Live(v, d), v.pool.owner[d] \in Acquirers
               PROVE  /\ v.acq[v.pool.owner[d]] = "creating"
                      /\ v.pool.owner[d] # a
                      /\ \A e \in Conns : Live(v, e) /\ v.pool.owner[e] = v.pool.owner[d]
                                              => d = e
    BY DEF AttemptsOwned
  <2>1. d # c /\ v.pool.owner[d] = w.pool.owner[d] /\ Live(w, d) /\ Live(w, c)
    BY <1>1, <1>2 DEF Live
  <2>2. w.pool.owner[d] # a BY <2>1 DEF Good, AttemptsOwned
  <2> QED BY <1>1, <1>2, <2>1, <2>2 DEF Good, AttemptsOwned, Live
<1> QED BY <1>1, <1>4, <1>5, <1>6, <1>7, <1>8 DEF Good, v

LEMMA AbortStep ==
    ASSUME PoolInv, NEW a \in Acquirers, Abort(a)
    PROVE  PoolInv'
<1>1. Good(World, {}, NoConn) /\ aborted' \subseteq Acquirers BY DEF PoolInv, Abort
<1>w. World \in Worlds BY <1>1 DEF Good
<1>2. CASE \E i \in DOMAIN pool.pending : Becomes(RejectPendingAcquire(World, i))
  BY <1>1, <1>2, WaiterStep
<1>3. ASSUME NEW c \in Conns, pool.attempt[c] = "connecting", pool.owner[c] = a,
             Becomes(SchedulePendingCreateDrain(
                 [Rejected(World, a) EXCEPT !.pool.owner[c] = "orphan"]))
      PROVE  PoolInv'
  <2> DEFINE x == [World EXCEPT !.pool.owner[c] = "orphan"]
             v == SchedulePendingCreateDrain(Rejected(x, a))
  <2>1. Good(x, {a}, NoConn) BY <1>1, <1>3, WorldIs, OrphanKeeps
  <2>2. [Rejected(World, a) EXCEPT !.pool.owner[c] = "orphan"] = Rejected(x, a)
    <3> DEFINE p == [World.pool EXCEPT !.owner[c] = "orphan"]
    <3>1. x = [World EXCEPT !.pool = p] OBVIOUS
    <3>2. [Rejected(World, a) EXCEPT !.pool.owner[c] = "orphan"]
              = [Rejected(World, a) EXCEPT !.pool = p]
      BY <1>w DEF Rejected, Worlds
    <3> HIDE DEF p, x
    <3> QED BY <1>w, <3>1, <3>2 DEF Rejected, Worlds
  <2> HIDE DEF x
  <2>3. Good(Rejected(x, a), {}, NoConn)
    <3>1. {a} \in SUBSET Acquirers /\ a \in {a} /\ {a} \ {a} = {} OBVIOUS
    <3>2. Good(Rejected(x, a), {a} \ {a}, NoConn) BY <2>1, <3>1, NobodyMoves, RejectKeeps
    <3> QED BY <3>1, <3>2
  <2>4. Good(v, {}, NoConn) BY <2>3, NobodyMoves, ScheduleKeeps
  <2>5. Becomes(v) BY <1>3, <2>2
  <2> HIDE DEF v
  <2> QED BY <1>1, <2>4, <2>5, BecomesGood
<1>4. CASE UNCHANGED <<pool, acq, has, open>>
  <2>1. World' = World BY <1>4 DEF World
  <2> QED BY <1>1, <1>4, <2>1 DEF PoolInv
<1> QED BY <1>2, <1>3, <1>4 DEF Abort
\* The idle timer of a connection fires.
LEMMA EvictStep ==
    ASSUME PoolInv, NEW c \in Conns, EvictIdle(c)
    PROVE  PoolInv'
<1>1. Good(World, {}, NoConn) /\ World.pool = pool /\ aborted \subseteq Acquirers
      /\ UNCHANGED aborted
  BY WorldIs DEF PoolInv, EvictIdle
<1>2. pool.idle \in Seq(Conns) /\ NoRepeat(pool.idle)
  BY <1>1 DEF Good, Worlds, Pools, IdleOnce, NoRepeat
<1>3. PICK i \in DOMAIN pool.idle :
          LET w == [World EXCEPT !.pool.idle = Removed(@, i)]
          IN /\ pool.idle[i] = c
             /\ Becomes(IF Len(w.pool.idle) + Cardinality(w.pool.active) >= MinConnections
                        THEN CloseConnection(w, c) ELSE ParkIdleConnection(w, c))
  BY DEF EvictIdle
<1> DEFINE q == Removed(pool.idle, i)
           w == [World EXCEPT !.pool.idle = q]
<1>4. q \in Seq(Conns) /\ Lost(q, pool.idle, i) BY <1>2, AboutRemoved
<1>5. Becomes(CloseConnection(w, c)) \/ Becomes(ParkIdleConnection(w, c))
  BY <1>1, <1>3
<1> HIDE DEF q
<1>6. Good(w, {}, c) /\ World.pool.pending = <<>>
  BY <1>1, <1>3, <1>4, NobodyMoves, TakeIdleKeeps
<1>7. w.pool.pending = <<>>
  <2>1. w.pool = [World.pool EXCEPT !.idle = q]
    BY <1>1 DEF Good, Worlds
  <2>2. World.pool \in Pools BY <1>1 DEF Good, Worlds
  <2> QED BY <1>6, <2>1, <2>2 DEF Pools
<1> HIDE DEF w
<1>8. Good(CloseConnection(w, c), {}, NoConn) BY <1>6, NobodyMoves, CloseKeeps
<1>9. Good(ParkIdleConnection(w, c), {}, NoConn) BY <1>6, <1>7, NobodyMoves, ParkKeeps
<1> QED BY <1>1, <1>5, <1>8, <1>9, BecomesGood

\* An attempt settles, and nobody has seen it yet.
LEMMA SettleStep ==
    ASSUME PoolInv, NEW c \in Conns, ConnectSettles(c)
    PROVE  PoolInv'
<1> DEFINE w == World
           v == World'
<1>1. Good(w, {}, NoConn) /\ w \in Worlds BY DEF PoolInv, Good
<1>0. PICK how \in {"connected", "failed"} :
          /\ pool' = [pool EXCEPT !.attempt = [pool.attempt EXCEPT ![c] = how]]
          /\ how = "connected" => open' = open \cup {c}
          /\ how = "failed" => open' = open
          /\ UNCHANGED <<acq, has, aborted>> /\ pool.attempt[c] = "connecting"
  BY DEF ConnectSettles
<1>2. /\ v.pool = pool' /\ v.acq = w.acq /\ v.has = w.has /\ v.open = open'
      /\ w.pool = pool /\ w.open = open
  BY <1>0 DEF World
<1> DEFINE at == [w.pool.attempt EXCEPT ![c] = how]
<1>3. /\ v \in Worlds
      /\ v.pool.pending = w.pool.pending /\ v.pool.idle = w.pool.idle
      /\ v.pool.active = w.pool.active /\ v.pool.made = w.pool.made
      /\ v.pool.attempt = at /\ v.pool.owner = w.pool.owner
  <2>1. at \in [Conns -> Attempts] BY <1>1 DEF Worlds, Pools, Attempts
  <2>2. pool' = [w.pool EXCEPT !.attempt = at] BY <1>0, <1>2
  <2> HIDE DEF at
  <2>3. pool' \in Pools /\ pool'.attempt = at /\ pool'.owner = w.pool.owner
        /\ pool'.pending = w.pool.pending /\ pool'.idle = w.pool.idle
        /\ pool'.active = w.pool.active /\ pool'.made = w.pool.made
    BY <1>1, <2>1, <2>2 DEF Worlds, Pools
  <2>4. v = [pool |-> pool', acq |-> w.acq, has |-> w.has, open |-> open']
    BY <1>0 DEF World
  <2>5. open' \subseteq Conns BY <1>0, <1>1, <1>2 DEF Worlds
  <2> HIDE DEF v, w
  <2> QED BY <1>1, <1>2, <2>3, <2>4, <2>5 DEF Worlds
<1>4. /\ v.pool.attempt[c] = how
      /\ \A d \in Conns : d # c => v.pool.attempt[d] = w.pool.attempt[d]
      /\ w.pool.attempt[c] = "connecting"
  BY <1>0, <1>1, <1>2, <1>3 DEF Worlds, Pools
<1>5. /\ \A i \in DOMAIN w.pool.idle : w.pool.idle[i] \in Conns
      /\ \A a \in Acquirers : w.has[a] \in Conns \cup {NoConn}
      /\ c \notin w.open /\ w.open \subseteq Conns
      /\ v.open \subseteq w.open \cup {c}
      /\ c \in v.open => how = "connected"
  <2>1. c \notin w.open BY <1>1, <1>4 DEF Good, Somewhere
  <2> QED BY <1>0, <1>1, <1>2, <2>1, ElementOfSeq DEF Worlds, Pools
<1>6. pool'.made <= MaxConns /\ aborted' \subseteq Acquirers
  BY <1>0, <1>2, <1>3 DEF PoolInv
<1> HIDE DEF v, w, at
<1>7. IdleOnce(v) BY <1>1, <1>3, <1>4, <1>5 DEF Good, IdleOnce
<1>8. WaitersQueue(v, {}) /\ NobodyWaits(v)
  BY <1>1, <1>2, <1>3 DEF Good, WaitersQueue, NobodyWaits, IsPending
<1>9. HeldAlone(v, {}) BY <1>1, <1>2, <1>3, <1>4, <1>5 DEF Good, HeldAlone, IsIdle
<1>10. ActiveHeld(v, {})
  <2>1. \A a \in Acquirers : w.has[a] # c
    BY <1>1, <1>4, PoolAssumption DEF Good, HeldAlone, Conns
  <2> QED BY <1>1, <1>2, <1>3, <1>5, <2>1 DEF Good, ActiveHeld
<1>11. Somewhere(v, {}, NoConn) /\ InHand(v, {}, NoConn)
  BY <1>1, <1>2, <1>3, <1>4, <1>5 DEF Good, Somewhere, InHand, IsIdle
<1>12. \A d \in Conns : Live(v, d) <=> Live(w, d)
  BY <1>3, <1>4 DEF Live
<1>13. AttemptsOwned(v, {})
  BY <1>1, <1>2, <1>3, <1>12 DEF Good, AttemptsOwned
<1>14. AttemptsMade(v) BY <1>1, <1>3, <1>4 DEF Good, AttemptsMade
<1>15. Good(v, {}, NoConn)
  BY <1>3, <1>7, <1>8, <1>9, <1>10, <1>11, <1>13, <1>14 DEF Good
<1> QED BY <1>6, <1>15 DEF PoolInv, v

\* A connection is given back.
LEMMA LetGoKeeps ==
    ASSUME NEW w, Good(w, {}, NoConn), NEW a \in Acquirers, w.acq[a] = "holding"
    PROVE  Good([w EXCEPT !.acq[a] = "done", !.has[a] = NoConn,
                          !.pool.active = @ \ {w.has[a]}], {}, w.has[a])
<1> DEFINE c == w.has[a]
           v == [w EXCEPT !.acq[a] = "done", !.has[a] = NoConn,
                          !.pool.active = @ \ {c}]
<1>w. w \in Worlds BY DEF Good
<1>1. /\ v \in Worlds
      /\ v.acq = [w.acq EXCEPT ![a] = "done"]
      /\ v.has = [w.has EXCEPT ![a] = NoConn] /\ v.open = w.open
      /\ v.pool = [w.pool EXCEPT !.active = @ \ {c}]
  <2>1. [w.pool EXCEPT !.active = @ \ {c}] \in Pools BY <1>w DEF Worlds, Pools
  <2> QED BY <1>w, <2>1 DEF Worlds, Progress
<1>2. /\ v.pool.pending = w.pool.pending /\ v.pool.attempt = w.pool.attempt
      /\ v.pool.owner = w.pool.owner /\ v.pool.made = w.pool.made
      /\ v.pool.active = w.pool.active \ {c} /\ v.pool.idle = w.pool.idle
  BY <1>w, <1>1 DEF Worlds, Pools
<1>3. /\ v.acq[a] = "done" /\ v.has[a] = NoConn
      /\ \A b \in Acquirers : b # a => v.acq[b] = w.acq[b] /\ v.has[b] = w.has[b]
  BY <1>w, <1>1 DEF Worlds
<1>4. /\ c # NoConn /\ w.pool.attempt[c] = "done" /\ ~IsIdle(w, c)
      /\ \A b \in Acquirers : w.has[b] = c => a = b
  BY DEF Good, HeldAlone
<1> HIDE DEF v, c
<1>5. IdleOnce(v) /\ AttemptsMade(v) /\ NobodyWaits(v)
  BY <1>2 DEF Good, IdleOnce, AttemptsMade, NobodyWaits
<1>6. WaitersQueue(v, {}) BY <1>2, <1>3 DEF Good, WaitersQueue, IsPending
<1>7. AttemptsOwned(v, {}) BY <1>2, <1>3 DEF Good, AttemptsOwned, Live
<1>8. HeldAlone(v, {}) BY <1>2, <1>3 DEF Good, HeldAlone, IsIdle
<1>9. ActiveHeld(v, {})
  BY <1>1, <1>2, <1>3, <1>4 DEF Good, ActiveHeld, c
<1>10. Somewhere(v, {}, c)
  <2>1. NoConn \notin w.open BY <1>w, PoolAssumption DEF Worlds, Conns
  <2> QED BY <1>1, <1>2, <1>3, <1>4, <2>1 DEF Good, Somewhere, IsIdle, c
<1>11. InHand(v, {}, c)
  BY <1>2, <1>3, <1>4 DEF InHand, IsIdle
<1> QED BY <1>1, <1>5, <1>6, <1>7, <1>8, <1>9, <1>10, <1>11 DEF Good, v, c

LEMMA ReleaseStep ==
    ASSUME PoolInv, NEW a \in Acquirers, Release(a)
    PROVE  PoolInv'
<1>1. Good(World, {}, NoConn) /\ aborted \subseteq Acquirers
      /\ UNCHANGED aborted /\ acq[a] = "holding"
  BY DEF PoolInv, Release
<1> DEFINE c == has[a]
           w == [World EXCEPT !.acq[a] = "done", !.has[a] = NoConn,
                              !.pool.active = @ \ {c}]
<1>2. c \in Conns BY <1>1, WorldIs DEF Good, HeldAlone, Worlds
<1>3. Good(w, {}, c) BY <1>1, WorldIs, LetGoKeeps
<1>4. Becomes(IF c \notin pool.active THEN w
              ELSE IF pool.closed THEN CloseConnection(w, c)
              ELSE HandoffOrPark(w, c))
  BY DEF Release
<1>5. w.open = open BY WorldIs DEF World
<1>6. c \notin pool.active => c \notin open
  BY <1>1, WorldIs DEF Good, ActiveHeld
<1> HIDE DEF w, c
<1>7. CASE c \notin pool.active
  <2>1. Good(w, {}, NoConn) BY <1>3, <1>5, <1>6, <1>7, NobodyMoves, ClosedHand
  <2> QED BY <1>1, <1>4, <1>7, <2>1, BecomesGood
<1>8. CASE c \in pool.active
  <2>1. Good(CloseConnection(w, c), {}, NoConn) BY <1>2, <1>3, NobodyMoves, CloseKeeps
  <2>2. Good(HandoffOrPark(w, c), {}, NoConn)
    BY <1>2, <1>3, NobodyMoves, HandoffOrParkKeeps
  <2> QED BY <1>1, <1>4, <1>8, <2>1, <2>2, BecomesGood
<1> QED BY <1>7, <1>8
\* close() detaches the warm-up attempts that are still connecting.
LEMMA CloseStep ==
    ASSUME PoolInv, Close
    PROVE  PoolInv'
<1> DEFINE w == World
           v == World'
           ow == [c \in Conns |-> IF /\ pool.owner[c] = "warmup"
                                     /\ pool.attempt[c] = "connecting"
                                  THEN "detached" ELSE pool.owner[c]]
<1>1. Good(w, {}, NoConn) /\ w \in Worlds BY DEF PoolInv, Good
<1>0. /\ pool' = [pool EXCEPT !.closed = TRUE, !.owner = ow]
      /\ UNCHANGED <<acq, has, open, aborted>>
  BY DEF Close
<1>2. /\ v.pool = pool' /\ v.acq = w.acq /\ v.has = w.has /\ v.open = w.open
      /\ w.pool = pool
  BY <1>0 DEF World
<1>o. /\ ow \in [Conns -> Owners]
      /\ \A c \in Conns : ow[c] \in Acquirers \/ pool.owner[c] \in Acquirers
                              => ow[c] = pool.owner[c]
  BY <1>1, <1>2, PoolAssumption DEF Worlds, Pools, Owners
<1>3. /\ v \in Worlds
      /\ v.pool.pending = w.pool.pending /\ v.pool.idle = w.pool.idle
      /\ v.pool.active = w.pool.active /\ v.pool.made = w.pool.made
      /\ v.pool.attempt = w.pool.attempt /\ v.pool.owner = ow
  <2> HIDE DEF ow, w
  <2>3. pool' \in Pools /\ pool'.attempt = w.pool.attempt /\ pool'.owner = ow
        /\ pool'.pending = w.pool.pending /\ pool'.idle = w.pool.idle
        /\ pool'.active = w.pool.active /\ pool'.made = w.pool.made
    BY <1>0, <1>1, <1>2, <1>o DEF Worlds, Pools
  <2>4. v = [pool |-> pool', acq |-> w.acq, has |-> w.has, open |-> w.open]
    BY <1>0 DEF World, w
  <2> HIDE DEF v
  <2> QED BY <1>1, <1>2, <2>3, <2>4 DEF Worlds
<1>6. pool'.made <= MaxConns /\ aborted' \subseteq Acquirers
  BY <1>0, <1>2, <1>3 DEF PoolInv
<1> HIDE DEF v, w, ow
<1>7. /\ IdleOnce(v) /\ WaitersQueue(v, {}) /\ HeldAlone(v, {}) /\ ActiveHeld(v, {})
      /\ Somewhere(v, {}, NoConn) /\ InHand(v, {}, NoConn)
      /\ AttemptsMade(v) /\ NobodyWaits(v)
  BY <1>1, <1>2, <1>3 DEF Good, IdleOnce, WaitersQueue, HeldAlone, ActiveHeld,
     Somewhere, InHand, AttemptsMade, NobodyWaits, IsIdle, IsPending
<1>8. AttemptsOwned(v, {})
  BY <1>1, <1>2, <1>3, <1>o DEF Good, AttemptsOwned, Live
<1>9. Good(v, {}, NoConn) BY <1>3, <1>7, <1>8 DEF Good
<1> QED BY <1>6, <1>9 DEF PoolInv, v

\* The rest of close() empties the pool.
LEMMA DoCloseStep ==
    ASSUME PoolInv, DoClose
    PROVE  PoolInv'
<1> DEFINE w == World
           v == World'
<1>1. Good(w, {}, NoConn) /\ w \in Worlds BY DEF PoolInv, Good
<1>0. /\ pool' = [pool EXCEPT !.pending = <<>>, !.idle = <<>>, !.active = {},
                              !.closeDone = TRUE]
      /\ acq' = [a \in Acquirers |-> IF a \in Elements(pool.pending)
                                     THEN "failed" ELSE acq[a]]
      /\ open' = open \ (Elements(pool.idle) \cup pool.active)
      /\ UNCHANGED <<has, aborted>>
  BY DEF DoClose
<1>2. /\ v.pool = pool' /\ v.acq = acq' /\ v.has = w.has /\ v.open = open'
      /\ w.pool = pool /\ w.acq = acq /\ w.open = open
  BY <1>0 DEF World
<1>3. /\ v \in Worlds
      /\ v.pool.pending = <<>> /\ v.pool.idle = <<>>
      /\ v.pool.active = {} /\ v.pool.made = w.pool.made
      /\ v.pool.attempt = w.pool.attempt /\ v.pool.owner = w.pool.owner
  <2> HIDE DEF w
  <2>1. <<>> \in Seq(Acquirers) /\ <<>> \in Seq(Conns) BY EmptySeq
  <2>3. pool' \in Pools /\ pool'.attempt = w.pool.attempt /\ pool'.owner = w.pool.owner
        /\ pool'.pending = <<>> /\ pool'.idle = <<>>
        /\ pool'.active = {} /\ pool'.made = w.pool.made
    BY <1>0, <1>1, <1>2, <2>1 DEF Worlds, Pools
  <2>4. v = [pool |-> pool', acq |-> acq', has |-> w.has, open |-> open']
    BY <1>0 DEF World, w
  <2>5. acq' \in [Acquirers -> Progress] BY <1>0, <1>1, <1>2 DEF Worlds, Progress
  <2>6. open' \subseteq Conns BY <1>0, <1>1, <1>2 DEF Worlds
  <2> HIDE DEF v
  <2> QED BY <1>1, <1>2, <2>3, <2>4, <2>5, <2>6 DEF Worlds
<1>4. /\ \A a \in Acquirers : v.acq[a] # "waiting"
      /\ \A a \in Acquirers : w.acq[a] # "waiting" => v.acq[a] = w.acq[a]
      /\ \A a \in Acquirers : v.acq[a] # w.acq[a] =>
             v.acq[a] = "failed" /\ w.acq[a] = "waiting"
  <2>1. \A a \in Acquirers : a \in Elements(pool.pending) <=> w.acq[a] = "waiting"
    BY <1>1, <1>2 DEF Good, WaitersQueue, IsPending, Elements
  <2> QED BY <1>0, <1>2, <2>1
<1>5. \A c \in v.open : c \in w.open /\ c \notin w.pool.active /\ ~IsIdle(w, c)
  BY <1>0, <1>2 DEF Elements, IsIdle
<1>6. pool'.made <= MaxConns /\ aborted' \subseteq Acquirers
  BY <1>0, <1>2, <1>3 DEF PoolInv
<1>d. DOMAIN v.pool.pending = {} /\ DOMAIN v.pool.idle = {}
  BY <1>3
<1> HIDE DEF v, w
<1>7. IdleOnce(v) /\ AttemptsMade(v) /\ NobodyWaits(v)
  BY <1>1, <1>3, <1>d DEF Good, IdleOnce, AttemptsMade, NobodyWaits
<1>8. WaitersQueue(v, {}) BY <1>3, <1>4, <1>d DEF WaitersQueue, IsPending
<1>9. HeldAlone(v, {})
  BY <1>1, <1>2, <1>3, <1>4, <1>d DEF Good, HeldAlone, IsIdle
<1>10. ActiveHeld(v, {})
  BY <1>1, <1>2, <1>3, <1>4, <1>5 DEF Good, ActiveHeld
<1>11. Somewhere(v, {}, NoConn) /\ InHand(v, {}, NoConn)
  BY <1>1, <1>2, <1>3, <1>5 DEF Good, Somewhere, InHand
<1>12. AttemptsOwned(v, {})
  BY <1>1, <1>3, <1>4 DEF Good, AttemptsOwned, Live
<1>13. Good(v, {}, NoConn)
  BY <1>3, <1>7, <1>8, <1>9, <1>10, <1>11, <1>12 DEF Good
<1> QED BY <1>6, <1>13 DEF PoolInv, v

LEMMA InitGood == Init => PoolInv
<1> SUFFICES ASSUME Init PROVE PoolInv OBVIOUS
<1> DEFINE w == World
<1>0. MinConnections \in Nat /\ MaxConns \in Nat /\ MinConnections <= MaxConns
  BY PoolAssumption
<1>1. /\ w.pool = pool /\ w.acq = acq /\ w.has = has /\ w.open = {}
      /\ w.pool.pending = <<>> /\ w.pool.idle = <<>> /\ w.pool.active = {}
      /\ w.pool.made = MinConnections
      /\ w.pool.attempt = [c \in Conns |-> IF c <= MinConnections
                                           THEN "connecting" ELSE "unused"]
      /\ w.pool.owner = [c \in Conns |-> IF c <= MinConnections
                                         THEN "warmup" ELSE "nobody"]
  BY WorldIs DEF Init
<1>2. w \in Worlds
  <2>1. <<>> \in Seq(Acquirers) /\ <<>> \in Seq(Conns) BY EmptySeq
  <2>2. w.pool.attempt \in [Conns -> Attempts] BY <1>1 DEF Attempts
  <2>3. w.pool.owner \in [Conns -> Owners] BY <1>1 DEF Owners
  <2>4. pool \in Pools BY <1>0, <1>1, <2>1, <2>2, <2>3 DEF Init, Pools
  <2>5. acq \in [Acquirers -> Progress] /\ has \in [Acquirers -> Conns \cup {NoConn}]
    BY DEF Init, Progress
  <2> QED BY <1>1, <2>4, <2>5 DEF World, Worlds
<1>3. \A a \in Acquirers : w.acq[a] = "idle" /\ w.has[a] = NoConn
  BY <1>1 DEF Init
<1>4. \A c \in Conns : /\ w.pool.owner[c] \notin Acquirers
                       /\ c > MinConnections <=> w.pool.attempt[c] = "unused"
  BY <1>0, <1>1, PoolAssumption DEF Conns
<1>d. DOMAIN w.pool.pending = {} /\ DOMAIN w.pool.idle = {} BY <1>1
<1>5. MinConnections <= MaxConns /\ aborted \subseteq Acquirers BY <1>0 DEF Init
<1> HIDE DEF w
<1>6. /\ IdleOnce(w) /\ WaitersQueue(w, {}) /\ HeldAlone(w, {}) /\ ActiveHeld(w, {})
      /\ Somewhere(w, {}, NoConn) /\ InHand(w, {}, NoConn)
      /\ AttemptsOwned(w, {}) /\ AttemptsMade(w) /\ NobodyWaits(w)
  BY <1>1, <1>3, <1>4, <1>d DEF IdleOnce, WaitersQueue, HeldAlone, ActiveHeld,
     Somewhere, InHand, AttemptsOwned, AttemptsMade, NobodyWaits, IsPending, IsIdle
<1> QED BY <1>1, <1>2, <1>5, <1>6 DEF Good, PoolInv, w

LEMMA StepGood == PoolInv /\ [Next]_poolVars => PoolInv'
<1> SUFFICES ASSUME PoolInv, [Next]_poolVars PROVE PoolInv' OBVIOUS
<1>1. CASE \E a \in Acquirers : Acquire(a) \/ AcquirerStep(a) \/ AcquireTimesOut(a) \/ Abort(a)
  BY <1>1, AcquireStep, CheckStep, ReleaseStep, TimeoutStep, AbortStep DEF AcquirerStep
<1>2. CASE \E c \in Conns : AttemptStep(c) \/ EvictIdle(c)
  BY <1>2, SettleStep, AcquireConnectedStep, OrphanStep, DrainStep, WarmUpStep,
     EvictStep DEF AttemptStep
<1>3. CASE DrainEnds \/ Close \/ DoClose
  BY <1>3, DrainEndsStep, CloseStep, DoCloseStep
<1>4. CASE UNCHANGED poolVars
  <2>1. World' = World BY <1>4 DEF World, poolVars
  <2> QED BY <1>4, <2>1 DEF PoolInv, poolVars
<1> QED BY <1>1, <1>2, <1>3, <1>4 DEF Next

LEMMA GoodIsKept == PoolInv => PlacesKept
<1> SUFFICES ASSUME PoolInv PROVE PlacesKept OBVIOUS
<1>1. Good(World, {}, NoConn) BY DEF PoolInv
<1>2. TypeOK
  <2>1. pool \in Pools /\ acq \in [Acquirers -> Progress]
        /\ has \in [Acquirers -> Conns \cup {NoConn}] /\ open \subseteq Conns
    BY <1>1, WorldIs DEF Good, Worlds
  <2>2. pool.made \in 0 .. MaxConns
    BY <2>1, PoolAssumption DEF PoolInv, Pools
  <2> QED BY <2>1, <2>2 DEF PoolInv, TypeOK, Pools, Attempts, Progress
<1>3. ASSUME NEW c \in open
      PROVE  /\ Cardinality({i \in DOMAIN pool.idle : pool.idle[i] = c})
                    + Cardinality(Users(c))
                    + (IF pool.attempt[c] = "connected" THEN 1 ELSE 0) = 1
             /\ c \in pool.active <=> \E a \in Users(c) : acq[a] = "holding"
  <2> DEFINE I == {i \in DOMAIN pool.idle : pool.idle[i] = c}
  <2>0. c \in Conns /\ c # NoConn BY <1>2, PoolAssumption DEF TypeOK, Conns
  <2>1. /\ \A i, j \in I : i = j
        /\ \A a, b \in Users(c) : a = b
        /\ I # {} => Users(c) = {} /\ pool.attempt[c] = "done"
        /\ Users(c) # {} => pool.attempt[c] = "done"
        /\ I # {} \/ Users(c) # {} \/ pool.attempt[c] = "connected"
    BY <1>1, <2>0, WorldIs DEF Good, IdleOnce, HeldAlone, Somewhere, Users, IsIdle
  <2>2. Cardinality({}) = 0 /\ \A x : Cardinality({x}) = 1
    BY FS_EmptySet, FS_Singleton
  <2>3. I = {} \/ \E i : I = {i} BY <2>1
  <2>4. Users(c) = {} \/ \E a : Users(c) = {a} BY <2>1
  <2> HIDE DEF I
  <2>5. Cardinality(I) = IF I = {} THEN 0 ELSE 1 BY <2>2, <2>3
  <2>6. Cardinality(Users(c)) = IF Users(c) = {} THEN 0 ELSE 1 BY <2>2, <2>4
  <2>7. Cardinality(I) + Cardinality(Users(c))
            + (IF pool.attempt[c] = "connected" THEN 1 ELSE 0) = 1
    BY <2>1, <2>5, <2>6
  <2>8. c \in pool.active <=> \E a \in Users(c) : acq[a] = "holding"
    BY <1>1, <1>3, WorldIs DEF Good, ActiveHeld, Users
  <2> QED BY <2>7, <2>8 DEF I
<1>4. NoIdleWaiter BY <1>1, WorldIs DEF Good, NobodyWaits, NoIdleWaiter
<1> QED BY <1>2, <1>3, <1>4 DEF PlacesKept, OnePlace

\* For every number of acquires and every limit: an open connection of the pool is
\* in exactly one place, idle, held or fresh from its attempt, whatever is aborted,
\* times out, is evicted or closes; and nobody waits while one is idle (acquire,
\* release, #handoffPendingAcquire, #drainPendingAcquires, #doClose).
THEOREM PlacesAlwaysKept == Spec => []PlacesKept
<1>1. Init => PoolInv BY InitGood
<1>2. PoolInv /\ [Next]_poolVars => PoolInv' BY StepGood
<1>3. PoolInv => PlacesKept BY GoodIsKept
<1> QED BY <1>1, <1>2, <1>3, PTL DEF Spec
=============================================================================
